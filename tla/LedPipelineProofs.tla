------------------------- MODULE LedPipelineProofs -------------------------
(***************************************************************************)
(* Proofs about LedPipeline for every number of pixels, width of a colour, *)
(* return time and memory delay that PipelineAssumption allows: its        *)
(* invariant, what follows from it, and that it implements FrameSender.    *)
(***************************************************************************)
EXTENDS LedPipelineInv, TLAPS

(* The constants the control proofs are about. *)
LEMMA Constants ==
  /\ NumPixels \in Nat /\ NumPixels >= 1
  /\ ReturnTicks \in Nat /\ ReturnTicks > 21
  /\ ColourBits \in Nat /\ ColourBits >= 1
  /\ BaseAddress \in Nat
  /\ MaxWait \in Nat /\ MaxWait >= 2
  /\ MaxWait + 4 <= 26 * 3*ColourBits
  /\ MaxWait + 4 <= ReturnTicks
  /\ MaxWrites \in Nat /\ MaxResets \in Nat
BY PipelineAssumption, SMT
  DEF Driver!LedDriverAssumption, Dma!RgbDmaAssumption,
      Bus!AvalonReadAssumption

LEMMA InitControl == Init => ControlInv
<1> SUFFICES ASSUME Init PROVE ControlInv OBVIOUS
<1> USE Constants
    DEF Init, Driver!DriverInit, Dma!DmaInit, Bus!BusInit
<1>1. ControlTypeOK
  BY SMT DEF ControlTypeOK, Driver!LedStates, Driver!LastBit, Driver!BitTicks,
             Dma!DmaStates
<1>2. TimersOK /\ SignalsOK
  BY SMT DEF TimersOK, SignalsOK
<1>3. ProgressOK
  BY SMT DEF ProgressOK, Elapsed, ElapsedInBit, LedSinceRequest, ClkSinceLed
<1>4. AddressOK /\ BusOK
  BY SMT DEF AddressOK, BusOK
<1> QED BY <1>1, <1>2, <1>3, <1>4 DEF ControlInv

(* What an edge of ledclk does to the two clocks of the invariant.         *)
LEMMA LedTime ==
  ASSUME ControlInv, phase \in {0, 3}, phase' = phase + 1, Driver!DriverEdge
  PROVE /\ Elapsed \in Int /\ ElapsedInBit = 2 * ticks + 2
        /\ Elapsed' \in Int /\ ElapsedInBit' = 2 * ticks'
        /\ Driver!ReturnWait => Elapsed = 2 * ticks + 2 /\ Elapsed' = Elapsed
        /\ Driver!HighPulse \/ Driver!LowRest => Elapsed' = Elapsed
        /\ Driver!FrameStart => Elapsed = 2 * ReturnTicks
        /\ Driver!NextBit /\ bitindex > 0 => Elapsed' = Elapsed
        /\ Driver!NextBit /\ bitindex = 0
             => Elapsed = 52 * LastBit + 52 /\ Elapsed' = 0
        /\ Driver!NextPixel
             => Elapsed = 52 * LastBit /\ (Elapsed' = Elapsed \/ Elapsed' = 0)
<1> USE Constants
    DEF ControlInv, ControlTypeOK, TimersOK, Elapsed, ElapsedInBit,
        LedSinceRequest, ClkSinceLed, LastBit, Driver!LedStates,
        Driver!LastBit, Driver!BitTicks
<1>0. Elapsed \in Int /\ ElapsedInBit = 2 * ticks + 2
  BY SMT
<1>1. CASE Driver!ReturnWait
  BY <1>0, <1>1, SMT DEF Driver!ReturnWait, Driver!FrameStart, Driver!HighPulse, Driver!LowRest, Driver!NextBit, Driver!NextPixel, Driver!StateOfBit, Driver!HighTicks
<1>2. CASE Driver!FrameStart
  BY <1>0, <1>2, SMT DEF Driver!ReturnWait, Driver!FrameStart, Driver!HighPulse, Driver!LowRest, Driver!NextBit, Driver!NextPixel, Driver!StateOfBit, Driver!HighTicks
<1>3. CASE Driver!HighPulse
  BY <1>0, <1>3, SMT DEF Driver!ReturnWait, Driver!FrameStart, Driver!HighPulse, Driver!LowRest, Driver!NextBit, Driver!NextPixel, Driver!StateOfBit, Driver!HighTicks
<1>4. CASE Driver!LowRest
  BY <1>0, <1>4, SMT DEF Driver!ReturnWait, Driver!FrameStart, Driver!HighPulse, Driver!LowRest, Driver!NextBit, Driver!NextPixel, Driver!StateOfBit, Driver!HighTicks
<1>5. CASE Driver!NextBit
  BY <1>0, <1>5, SMT DEF Driver!ReturnWait, Driver!FrameStart, Driver!HighPulse, Driver!LowRest, Driver!NextBit, Driver!NextPixel, Driver!StateOfBit, Driver!HighTicks
<1>6. CASE Driver!NextPixel
  BY <1>0, <1>6, SMT DEF Driver!ReturnWait, Driver!FrameStart, Driver!HighPulse, Driver!LowRest, Driver!NextBit, Driver!NextPixel, Driver!StateOfBit, Driver!HighTicks
<1> QED BY <1>1, <1>2, <1>3, <1>4, <1>5, <1>6 DEF Driver!DriverEdge

(* One edge of ledclk alone. *)
LEMMA LedStep ==
  ASSUME ControlInv, phase = 3, phase' = 4, Driver!DriverEdge, reset = 0,
         UNCHANGED <<dmaState, atAddress, address, read, readAccepted,
                     cmdAddress, waited, writes, resets, reset>>
  PROVE ControlInv'
<1> USE Constants, LedTime
    DEF ControlInv, ControlTypeOK, TimersOK, SignalsOK, ProgressOK,
      AddressOK, BusOK, Position, WordAddress, LastBit, BufferAddresses,
      Driver!LedStates, Driver!LastBit, Driver!BitTicks,
      Dma!DmaStates, Dma!WordAddress, Dma!WordBytes, Dma!BufferAddresses
<1>1. CASE Driver!ReturnWait
  BY <1>1, SMT DEF Driver!ReturnWait, Driver!PrefetchLead
<1>2. CASE Driver!FrameStart
  BY <1>2, SMT DEF Driver!FrameStart, Driver!StateOfBit
<1>3. CASE Driver!HighPulse
  BY <1>3, SMT DEF Driver!HighPulse, Driver!HighTicks
<1>4. CASE Driver!LowRest
  BY <1>4, SMT DEF Driver!LowRest
<1>5. CASE Driver!NextBit
  BY <1>5, SMT DEF Driver!NextBit, Driver!StateOfBit
<1>6. CASE Driver!NextPixel
  BY <1>6, SMT DEF Driver!NextPixel, Driver!StateOfBit
<1> QED BY <1>1, <1>2, <1>3, <1>4, <1>5, <1>6 DEF Driver!DriverEdge

(* Whenever a read is asked for or under way, the fetcher's address is in  *)
(* the buffer.                                                             *)
LEMMA AddressInBuffer ==
  ASSUME ControlInv,
         \/ dmaState = "idle" /\ getnext = 1 /\ ledreturn # 1
         \/ dmaState \in {"setmaster", "reading"}
         \/ dmaState = "finishread" /\ getnext = 1
  PROVE atAddress \in BufferAddresses
<1> USE Constants
    DEF ControlInv, ControlTypeOK, TimersOK, SignalsOK, AddressOK,
        Position, WordAddress, BufferAddresses, Driver!LastBit,
        Dma!WordAddress, Dma!WordBytes, Dma!BufferAddresses
<1>1. CASE ledState = "RET"
  <2>1. atAddress = BaseAddress + 4 * 0 BY <1>1, SMT
  <2> QED BY <2>1, SMT
<1>2. CASE ledState # "RET"
  <2>1. Position(atAddress, pixelindex) BY <1>2, SMT
  <2>2. CASE atAddress = BaseAddress + 4 * pixelindex BY <2>2, SMT
  <2>3. CASE atAddress = BaseAddress + 4 * (pixelindex + 1) BY <2>3, SMT
  <2> QED BY <2>1, <2>2, <2>3
<1> QED BY <1>1, <1>2

(* One edge of clk alone, while reset is low.                              *)
LEMMA ClkStep ==
  ASSUME ControlInv, reset = 0, phase \in {1, 2, 4, 5}, phase' = IF phase = 5 THEN 0 ELSE phase + 1,
         NEW stall \in {0, 1}, NEW valid \in {0, 1}, NEW data,
         Bus!BusEdge(stall, valid),
         Dma!DmaEdge(Bus!WaitRequest(stall, valid), data),
         UNCHANGED <<ledState, bitindex, pixelindex, ticks, getnext, ledreturn,
                     ledout, writes, resets, reset>>
  PROVE ControlInv'
<1>0. /\ Elapsed \in Int /\ Elapsed' = Elapsed + 1
      /\ ElapsedInBit \in Int /\ ElapsedInBit' = ElapsedInBit + 1
      /\ ElapsedInBit' <= 2 * ticks + 2
  BY Constants, SMT
    DEF ControlInv, ControlTypeOK, Elapsed, ElapsedInBit, LedSinceRequest,
        ClkSinceLed, LastBit, Driver!LastBit, Driver!BitTicks
<1> USE <1>0, Constants
    DEF ControlInv, ControlTypeOK, TimersOK, SignalsOK, ProgressOK,
      AddressOK, BusOK, Position, WordAddress, LastBit, BufferAddresses,
      Driver!LedStates, Driver!LastBit, Driver!BitTicks,
      Dma!DmaStates, Dma!WordAddress, Dma!WordBytes, Dma!BufferAddresses,
      Dma!ShowAddress, Bus!BusEdge, Bus!FarSide, Bus!PassOn, Bus!Accept
<1>1. CASE Dma!Rewind BY <1>1, SMT DEF Dma!Rewind
<1>2. CASE Dma!Request
  <2>1. ControlTypeOK' /\ TimersOK' /\ SignalsOK'
    BY <1>2, SMT DEF Dma!Request
  <2>2. ProgressOK'
    BY <1>2, SMT DEF Dma!Request
  <2>3. AddressOK'
    BY <1>2, SMT DEF Dma!Request
  <2>4. BusOK'
    <3>1. CASE getnext = 1
      <4>1. atAddress \in BufferAddresses
        BY <1>2, <3>1, AddressInBuffer DEF Dma!Request
      <4> QED BY <1>2, <3>1, <4>1, SMT DEF Dma!Request
    <3>2. CASE getnext = 0 BY <1>2, <3>2, SMT DEF Dma!Request
    <3> QED BY <3>1, <3>2
  <2> QED BY <2>1, <2>2, <2>3, <2>4
<1>3. CASE Dma!SetMaster
  <2>1. ControlTypeOK' /\ TimersOK' /\ SignalsOK'
    BY <1>3, SMT DEF Dma!SetMaster
  <2>2. ProgressOK'
    BY <1>3, SMT DEF Dma!SetMaster
  <2>3. AddressOK'
    BY <1>3, SMT DEF Dma!SetMaster
  <2>4. BusOK'
    BY <1>3, AddressInBuffer, SMT DEF Dma!SetMaster
  <2> QED BY <2>1, <2>2, <2>3, <2>4
<1>4. CASE Dma!Reading(Bus!WaitRequest(stall, valid), data)
  <2>1. ControlTypeOK' /\ TimersOK' /\ SignalsOK'
    BY <1>4, SMT DEF Dma!Reading, Bus!WaitRequest
  <2>2. ProgressOK'
    BY <1>4, SMT DEF Dma!Reading, Bus!WaitRequest
  <2>3. AddressOK'
    BY <1>4, SMT DEF Dma!Reading, Bus!WaitRequest
  <2>4. BusOK'
    BY <1>4, AddressInBuffer, SMT DEF Dma!Reading, Bus!WaitRequest
  <2> QED BY <2>1, <2>2, <2>3, <2>4
<1>5. CASE Dma!FinishRead BY <1>5, SMT DEF Dma!FinishRead
<1> QED BY <1>1, <1>2, <1>3, <1>4, <1>5 DEF Dma!DmaEdge

(* Both edges at once: each process reads the signals as they were.        *)
LEMMA BothStep ==
  ASSUME ControlInv, reset = 0, phase = 0, phase' = 1,
         NEW stall \in {0, 1}, NEW valid \in {0, 1}, NEW data,
         Driver!DriverEdge,
         Bus!BusEdge(stall, valid),
         Dma!DmaEdge(Bus!WaitRequest(stall, valid), data),
         UNCHANGED <<writes, resets, reset>>
  PROVE ControlInv'
<1> USE Constants
    DEF ControlInv, ControlTypeOK, TimersOK, SignalsOK, ProgressOK,
      AddressOK, BusOK, Position, WordAddress, LastBit, BufferAddresses,
      Driver!LedStates, Driver!LastBit, Driver!BitTicks,
      Dma!DmaStates, Dma!WordAddress, Dma!WordBytes, Dma!BufferAddresses,
      Dma!ShowAddress, Bus!BusEdge, Bus!FarSide, Bus!PassOn, Bus!Accept
<1>0. (getnext = 1 /\ dmaState = "idle" /\ ledreturn # 1)
        \/ dmaState \in {"setmaster", "reading"}
        \/ (dmaState = "finishread" /\ getnext = 1)
      => atAddress \in BufferAddresses
  BY AddressInBuffer
<1> USE <1>0, LedTime
<1>1. CASE Driver!ReturnWait
  <2> USE <1>1 DEF Driver!ReturnWait, Driver!PrefetchLead
  <2>1. CASE Dma!Rewind
    <3> USE <2>1 DEF Dma!Rewind
    <3>1. ControlTypeOK' /\ TimersOK' /\ SignalsOK' BY SMT
    <3>2. ProgressOK' BY SMT
    <3>3. AddressOK' BY SMT
    <3>4. BusOK' BY SMT
    <3> QED BY <3>1, <3>2, <3>3, <3>4
  <2>2. CASE Dma!Request
    BY <2>2, SMT DEF Dma!Request
  <2>3. CASE Dma!SetMaster
    BY <2>3, SMT DEF Dma!SetMaster
  <2>4. CASE Dma!Reading(Bus!WaitRequest(stall, valid), data)
    BY <2>4, SMT DEF Dma!Reading, Bus!WaitRequest
  <2>5. CASE Dma!FinishRead
    BY <2>5, SMT DEF Dma!FinishRead
  <2> QED BY <2>1, <2>2, <2>3, <2>4, <2>5 DEF Dma!DmaEdge
<1>2. CASE Driver!FrameStart
  <2> USE <1>2 DEF Driver!FrameStart, Driver!StateOfBit
  <2>1. CASE Dma!Rewind
    BY <2>1, SMT DEF Dma!Rewind
  <2>2. CASE Dma!Request
    BY <2>2, SMT DEF Dma!Request
  <2>3. CASE Dma!SetMaster
    BY <2>3, SMT DEF Dma!SetMaster
  <2>4. CASE Dma!Reading(Bus!WaitRequest(stall, valid), data)
    BY <2>4, SMT DEF Dma!Reading, Bus!WaitRequest
  <2>5. CASE Dma!FinishRead
    BY <2>5, SMT DEF Dma!FinishRead
  <2> QED BY <2>1, <2>2, <2>3, <2>4, <2>5 DEF Dma!DmaEdge
<1>3. CASE Driver!HighPulse
  <2> USE <1>3 DEF Driver!HighPulse, Driver!HighTicks
  <2>1. CASE Dma!Rewind
    BY <2>1, SMT DEF Dma!Rewind
  <2>2. CASE Dma!Request
    BY <2>2, SMT DEF Dma!Request
  <2>3. CASE Dma!SetMaster
    BY <2>3, SMT DEF Dma!SetMaster
  <2>4. CASE Dma!Reading(Bus!WaitRequest(stall, valid), data)
    BY <2>4, SMT DEF Dma!Reading, Bus!WaitRequest
  <2>5. CASE Dma!FinishRead
    BY <2>5, SMT DEF Dma!FinishRead
  <2> QED BY <2>1, <2>2, <2>3, <2>4, <2>5 DEF Dma!DmaEdge
<1>4. CASE Driver!LowRest
  <2> USE <1>4 DEF Driver!LowRest
  <2>1. CASE Dma!Rewind
    BY <2>1, SMT DEF Dma!Rewind
  <2>2. CASE Dma!Request
    BY <2>2, SMT DEF Dma!Request
  <2>3. CASE Dma!SetMaster
    BY <2>3, SMT DEF Dma!SetMaster
  <2>4. CASE Dma!Reading(Bus!WaitRequest(stall, valid), data)
    BY <2>4, SMT DEF Dma!Reading, Bus!WaitRequest
  <2>5. CASE Dma!FinishRead
    BY <2>5, SMT DEF Dma!FinishRead
  <2> QED BY <2>1, <2>2, <2>3, <2>4, <2>5 DEF Dma!DmaEdge
<1>5. CASE Driver!NextBit
  <2> USE <1>5 DEF Driver!NextBit, Driver!StateOfBit
  <2>1. CASE Dma!Rewind
    BY <2>1, SMT DEF Dma!Rewind
  <2>2. CASE Dma!Request
    BY <2>2, SMT DEF Dma!Request
  <2>3. CASE Dma!SetMaster
    BY <2>3, SMT DEF Dma!SetMaster
  <2>4. CASE Dma!Reading(Bus!WaitRequest(stall, valid), data)
    BY <2>4, SMT DEF Dma!Reading, Bus!WaitRequest
  <2>5. CASE Dma!FinishRead
    BY <2>5, SMT DEF Dma!FinishRead
  <2> QED BY <2>1, <2>2, <2>3, <2>4, <2>5 DEF Dma!DmaEdge
<1>6. CASE Driver!NextPixel
  <2> USE <1>6 DEF Driver!NextPixel, Driver!StateOfBit
  <2>1. CASE Dma!Rewind
    BY <2>1, SMT DEF Dma!Rewind
  <2>2. CASE Dma!Request
    BY <2>2, SMT DEF Dma!Request
  <2>3. CASE Dma!SetMaster
    BY <2>3, SMT DEF Dma!SetMaster
  <2>4. CASE Dma!Reading(Bus!WaitRequest(stall, valid), data)
    BY <2>4, SMT DEF Dma!Reading, Bus!WaitRequest
  <2>5. CASE Dma!FinishRead
    <3> USE <2>5 DEF Dma!FinishRead
    <3>1. ControlTypeOK' /\ TimersOK' /\ SignalsOK' BY SMT
    <3>2. ProgressOK' BY SMT
    <3>3. AddressOK' BY SMT
    <3>4. BusOK' BY SMT
    <3> QED BY <3>1, <3>2, <3>3, <3>4
  <2> QED BY <2>1, <2>2, <2>3, <2>4, <2>5 DEF Dma!DmaEdge
<1> QED BY <1>1, <1>2, <1>3, <1>4, <1>5, <1>6 DEF Driver!DriverEdge

(* The reset and the CPU. *)
LEMMA ResetStep == ControlInv /\ ResetPress => ControlInv'
BY Constants, SMT
  DEF ResetPress, Driver!DriverReset, Dma!DmaReset, Bus!BusReset,
      ControlInv, ControlTypeOK, TimersOK, SignalsOK, ProgressOK,
      AddressOK, BusOK, Elapsed, ElapsedInBit, LedSinceRequest, ClkSinceLed,
      Position, WordAddress, LastBit, BufferAddresses,
      Driver!LedStates, Driver!LastBit, Driver!BitTicks,
      Dma!DmaStates, Dma!WordAddress, Dma!WordBytes, Dma!BufferAddresses

LEMMA TimePasses ==
  ASSUME ControlInv, phase' \in 0..5,
         reset = 1 \/ phase' = phase, reset' = reset \/ reset' = 0,
         writes' \in 0..MaxWrites, UNCHANGED resets,
         UNCHANGED <<ledState, bitindex, pixelindex, ticks, getnext, ledreturn,
           ledout, dmaState, atAddress, address, read, busVars>>
  PROVE ControlInv'
BY Constants, SMT
  DEF busVars, ControlInv, ControlTypeOK, TimersOK, SignalsOK, ProgressOK,
      AddressOK, BusOK, Elapsed, ElapsedInBit, LedSinceRequest, ClkSinceLed,
      Position, WordAddress, LastBit, BufferAddresses,
      Driver!LedStates, Driver!LastBit, Driver!BitTicks,
      Dma!DmaStates, Dma!WordAddress, Dma!WordBytes, Dma!BufferAddresses

(* Every step of the pipeline keeps the control part of the invariant. *)
LEMMA ControlNext == ControlInv /\ [Next]_vars => ControlInv'
<1> SUFFICES ASSUME ControlInv, [Next]_vars PROVE ControlInv' OBVIOUS
<1>0. phase \in 0..5 /\ reset \in {0, 1} /\ writes \in 0..MaxWrites
  BY DEF ControlInv, ControlTypeOK
<1>1. CASE Tick
  <2>1. phase' = (IF phase = 5 THEN 0 ELSE phase + 1)
    BY <1>0, <1>1, SMT DEF Tick
  <2>2. UNCHANGED <<reset, writes, resets>>
    BY <1>1 DEF Tick, envVars
  <2>3. CASE reset = 1
    <3>1. UNCHANGED <<driverVars, dmaVars, busVars>>
      BY <1>1, <2>3, SMT DEF Tick, ClkOnly, LedClkOnly, BothClks, Clk, LedClk
    <3> QED
      BY <1>0, <2>1, <2>2, <2>3, <3>1, TimePasses, SMT DEF driverVars, dmaVars
  <2>4. CASE reset = 0 /\ ClkOnly
    <3>1. PICK stall \in {0, 1}, valid \in {0, 1} :
            /\ Bus!BusEdge(stall, valid)
            /\ Dma!DmaEdge(Bus!WaitRequest(stall, valid), mem[cmdAddress])
      BY <2>4 DEF ClkOnly, Clk
    <3> QED BY <2>1, <2>2, <2>4, <3>1, ClkStep DEF ClkOnly, driverVars
  <2>5. CASE reset = 0 /\ LedClkOnly
    <3>1. phase = 3 /\ phase' = 4 BY <2>1, <2>5, SMT DEF LedClkOnly
    <3> QED
      BY <2>2, <2>5, <3>1, LedStep DEF LedClkOnly, LedClk, dmaVars, busVars
  <2>6. CASE reset = 0 /\ BothClks
    <3>1. PICK stall \in {0, 1}, valid \in {0, 1} :
            /\ Bus!BusEdge(stall, valid)
            /\ Dma!DmaEdge(Bus!WaitRequest(stall, valid), mem[cmdAddress])
      BY <2>6 DEF BothClks, Clk
    <3>2. phase = 0 /\ phase' = 1 /\ Driver!DriverEdge
      BY <2>1, <2>6, SMT DEF BothClks, LedClk
    <3> QED BY <2>2, <2>6, <3>1, <3>2, BothStep
  <2> QED BY <1>0, <1>1, <2>3, <2>4, <2>5, <2>6 DEF Tick
<1>2. CASE CpuWrite
  <2>1. writes' \in 0..MaxWrites BY <1>0, <1>2, Constants, SMT DEF CpuWrite
  <2> QED BY <1>0, <1>2, <2>1, TimePasses DEF CpuWrite, driverVars, dmaVars
<1>3. CASE ResetPress BY <1>3, ResetStep
<1>4. CASE ResetRelease
  BY <1>0, <1>4, TimePasses DEF ResetRelease, driverVars, dmaVars, envVars
<1>5. CASE UNCHANGED vars
  BY <1>0, <1>5, TimePasses DEF vars, driverVars, dmaVars, envVars
<1> QED BY <1>1, <1>2, <1>3, <1>4, <1>5 DEF Next

-----------------------------------------------------------------------------
LEMMA WordsArePixels == Words \subseteq Driver!Pixel
BY PipelineAssumption

LEMMA BlackIsPixel == Driver!Black \in Driver!Pixel
BY DEF Driver!Black, Driver!Pixel, Driver!Vector, Driver!Bit

(* What is fetched is a word of the buffer, what is sent was fetched.      *)
LEMMA PixelNext ==
  ControlInv /\ PixelTypeOK /\ [Next]_vars => PixelTypeOK'
<1> SUFFICES ASSUME ControlInv, PixelTypeOK, [Next]_vars PROVE PixelTypeOK'
  OBVIOUS
<1> USE DEF PixelTypeOK
<1>1. CASE Tick
  <2>1. mem' = mem BY <1>1 DEF Tick, envVars
  <2>2. regs' \in {regs, rgb}
    BY <1>1 DEF Tick, ClkOnly, LedClkOnly, BothClks, LedClk, driverVars,
      Driver!DriverEdge, Driver!ReturnWait, Driver!FrameStart,
      Driver!HighPulse, Driver!LowRest, Driver!NextBit, Driver!NextPixel,
      Driver!LatchPixel
  <2>3. rgb' \in Driver!Pixel
    <3>1. CASE UNCHANGED dmaVars BY <3>1 DEF dmaVars
    <3>2. ASSUME NEW stall \in {0, 1}, NEW valid \in {0, 1},
                 Bus!BusEdge(stall, valid),
                 Dma!DmaEdge(Bus!WaitRequest(stall, valid), mem[cmdAddress])
          PROVE rgb' \in Driver!Pixel
      <4>1. CASE rgb' = rgb BY <4>1
      <4>2. CASE rgb' # rgb
        <5>1. /\ dmaState = "reading" /\ rgb' = mem[cmdAddress]
              /\ Bus!WaitRequest(stall, valid) # 1
          BY <3>2, <4>2 DEF Dma!DmaEdge, Dma!Rewind, Dma!Request,
            Dma!SetMaster, Dma!Reading, Dma!FinishRead
        <5>2. valid = 1
          BY <5>1, SMT DEF Bus!WaitRequest, ControlInv, SignalsOK
        <5>3. cmdAddress \in BufferAddresses
          BY <3>2, <5>2, SMT DEF Bus!BusEdge, Bus!FarSide, ControlInv, BusOK
        <5> QED BY <5>1, <5>3, WordsArePixels
      <4> QED BY <4>1, <4>2
    <3> QED
      BY <1>1, <3>1, <3>2 DEF Tick, ClkOnly, LedClkOnly, BothClks, Clk
  <2> QED BY <2>1, <2>2, <2>3
<1>2. CASE CpuWrite
  BY <1>2 DEF CpuWrite, driverVars, dmaVars
<1>3. CASE ResetPress
  BY <1>3 DEF ResetPress, Driver!DriverReset, Dma!DmaReset
<1>4. CASE ResetRelease
  BY <1>4 DEF ResetRelease, driverVars, dmaVars, envVars
<1>5. CASE UNCHANGED vars
  BY <1>5 DEF vars, driverVars, dmaVars, envVars
<1> QED BY <1>1, <1>2, <1>3, <1>4, <1>5 DEF Next

(* Three colours cut out of a full sequence of bits make a pixel. *)
LEMMA ReceivedIsPixel ==
  ASSUME NEW s \in Seq(Driver!Bit), Len(s) = 3 * ColourBits
  PROVE Strip!Received(s) \in Driver!Pixel
<1>1. ASSUME NEW k \in 0..2
      PROVE [i \in 0..ColourBits-1 |-> s[(k+1)*ColourBits - i]]
              \in Driver!Vector
  <2>1. ASSUME NEW i \in 0..ColourBits-1
        PROVE s[(k+1)*ColourBits - i] \in Driver!Bit
    <3>1. (k+1)*ColourBits - i \in 1..Len(s)
      <4>1. CASE k = 0 BY <4>1, Constants, SMT
      <4>2. CASE k = 1 BY <4>2, Constants, SMT
      <4>3. CASE k = 2 BY <4>3, Constants, SMT
      <4> QED BY <4>1, <4>2, <4>3, SMT
    <3> QED BY <3>1, SMT
  <2> QED BY <2>1 DEF Driver!Vector
<1> QED
  BY <1>1, SMT DEF Strip!Received, Driver!Pixel

LEMMA StripNext ==
  ControlInv /\ StripTypeOK /\ [Next]_vars => StripTypeOK'
<1> SUFFICES ASSUME ControlInv, StripTypeOK, [Next]_vars PROVE StripTypeOK'
  OBVIOUS
<1>0. /\ LatchTicks \in Nat /\ LatchTicks > 19
      /\ ledout \in {0, 1}
  BY PipelineAssumption DEF Strip!StripAssumption, ControlInv, ControlTypeOK
<1> USE <1>0, Constants DEF StripTypeOK
<1>1. CASE Strip!LineHigh
  BY <1>1, SMT DEF Strip!LineHigh, Strip!OneTicks
<1>2. CASE Strip!LineFalls
  <2> DEFINE bit == IF high >= Strip!OneTicks THEN 1 ELSE 0
             all == Append(bits, bit)
  <2>1. all \in Seq(Driver!Bit) /\ Len(all) = Len(bits) + 1
    BY SMT DEF Driver!Bit
  <2>2. high' \in 0..Strip!OneTicks /\ low' \in 0..LatchTicks /\ shown' = shown
    BY <1>2, SMT DEF Strip!LineFalls, Strip!OneTicks
  <2>3. CASE Len(all) = 3 * ColourBits
    <3>1. Strip!Received(all) \in Driver!Pixel
      BY <2>1, <2>3, ReceivedIsPixel
    <3>2. bits' = <<>> /\ (chain' = chain
            \/ (Len(chain) < NumPixels
                  /\ chain' = Append(chain, Strip!Received(all))))
      BY <1>2, <2>3 DEF Strip!LineFalls
    <3>3. chain' \in Seq(Driver!Pixel) /\ Len(chain') <= NumPixels
      BY <3>1, <3>2, SMT
    <3>4. bits' \in Seq(Driver!Bit) /\ Len(bits') < 3 * ColourBits
      BY <3>2, SMT
    <3> QED BY <2>2, <3>3, <3>4
  <2>4. CASE Len(all) # 3 * ColourBits
    <3>1. bits' = all /\ chain' = chain
      BY <1>2, <2>4 DEF Strip!LineFalls
    <3>2. bits' \in Seq(Driver!Bit) BY <2>1, <3>1
    <3>3. Len(bits') < 3 * ColourBits
      <4>1. Len(bits) \in Nat /\ Len(bits) < 3 * ColourBits BY SMT
      <4> HIDE DEF all
      <4> QED BY <2>1, <2>4, <3>1, <4>1, SMT
    <3>4. chain' \in Seq(Driver!Pixel) /\ Len(chain') <= NumPixels BY <3>1
    <3> QED BY <2>2, <3>2, <3>3, <3>4
  <2> QED BY <2>3, <2>4
<1>3. CASE Strip!LineLow
  <2>1. high' = high /\ low' \in 0..LatchTicks
    BY <1>3, SMT DEF Strip!LineLow
  <2>2. CASE low + 1 = LatchTicks
    <3>1. /\ bits' = <<>> /\ chain' = <<>>
          /\ shown' = [k \in 0..NumPixels-1 |->
                         IF k < Len(chain) THEN chain[k+1] ELSE shown[k]]
      BY <1>3, <2>2 DEF Strip!LineLow
    <3>2. ASSUME NEW k \in 0..NumPixels-1, k < Len(chain)
          PROVE chain[k+1] \in Driver!Pixel
      BY <3>2, SMT
    <3>3. shown' \in [0..NumPixels-1 -> Driver!Pixel]
      BY <3>1, <3>2
    <3>4. /\ bits' \in Seq(Driver!Bit) /\ Len(bits') < 3 * ColourBits
          /\ chain' \in Seq(Driver!Pixel) /\ Len(chain') <= NumPixels
      BY <3>1, SMT
    <3> QED BY <2>1, <3>3, <3>4
  <2>3. CASE low + 1 # LatchTicks
    BY <1>3, <2>1, <2>3 DEF Strip!LineLow
  <2> QED BY <2>2, <2>3
<1>4. CASE UNCHANGED stripVars BY <1>4 DEF stripVars
<1> QED
  BY <1>1, <1>2, <1>3, <1>4 DEF Next, Tick, ClkOnly, LedClkOnly, BothClks,
    LedClk, Strip!StripEdge, CpuWrite, ResetPress, ResetRelease, vars

-----------------------------------------------------------------------------
LEMMA InitInv == Init => PipelineInv
<1> SUFFICES ASSUME Init PROVE PipelineInv OBVIOUS
<1>1. PixelTypeOK
  BY BlackIsPixel DEF Init, PixelTypeOK, Driver!DriverInit, Dma!DmaInit
<1>2. StripTypeOK
  BY PipelineAssumption, BlackIsPixel, Constants, SMT
    DEF Init, StripTypeOK, Strip!StripInit, Strip!OneTicks, Strip!StripAssumption
<1> QED BY <1>1, <1>2, InitControl DEF PipelineInv

(* The invariant holds of every behaviour. *)
THEOREM Invariant == Spec => []PipelineInv
<1>1. PipelineInv /\ [Next]_vars => PipelineInv'
  BY ControlNext, PixelNext, StripNext DEF PipelineInv
<1> QED BY InitInv, <1>1, PTL DEF Spec

(* Every register of ledDriver.vhd, RGBDMA.vhd, the bus and the strip      *)
(* keeps its type, whatever the resets and the memory do.                  *)
THEOREM TypeCorrect == Spec => []TypeOK
<1>1. PipelineInv => TypeOK BY DEF PipelineInv, ControlInv, TypeOK
<1> QED BY <1>1, Invariant, PTL

(* No read leaves the LED buffer, however many resets interrupt the        *)
(* pipeline; without one it does not even reach the word behind the strip. *)
THEOREM ReadsStayInBuffer == Spec => []ReadInBuffer
<1>1. PipelineInv => ReadInBuffer
  <2> SUFFICES ASSUME PipelineInv, read = 1
               PROVE \E k \in 0..NumPixels : /\ address = Dma!WordAddress(k)
                                             /\ resets = 0 => k < NumPixels
    BY DEF ReadInBuffer
  <2> USE DEF PipelineInv, ControlInv, ControlTypeOK, BusOK, BufferAddresses,
              Dma!BufferAddresses
  <2>1. CASE resets = 0
    <3>1. address = atAddress /\ bitindex > 0 BY <2>1
    <3>2. ledState # "RET" BY <3>1, SMT DEF TimersOK
    <3>3. atAddress = Dma!WordAddress(pixelindex)
      BY <2>1, <3>1, <3>2, SMT DEF AddressOK, Position, WordAddress
    <3>4. pixelindex \in 0..NumPixels /\ pixelindex < NumPixels
      BY Constants, SMT
    <3> QED BY <3>1, <3>3, <3>4
  <2>2. CASE resets # 0 BY <2>2
  <2> QED BY <2>1, <2>2
<1> QED BY <1>1, Invariant, PTL

LEMMA InTime == PipelineInv => FetchedInTime
BY Constants, SMT
  DEF PipelineInv, ControlInv, ControlTypeOK, FetchedInTime, TimersOK,
      SignalsOK, ProgressOK, Elapsed, ElapsedInBit, LedSinceRequest,
      ClkSinceLed, LastBit, Driver!LastBit, Driver!BitTicks, Dma!DmaStates

(* The driver latches a pixel only after its fetch is over, for every      *)
(* memory that answers within MaxWait edges.                               *)
THEOREM FetchesFinishInTime == Spec => []FetchedInTime
BY InTime, Invariant, PTL

-----------------------------------------------------------------------------
(* Without a reset, the fetcher's address does not move under a read.      *)
THEOREM AddressIsHeld == Spec => AddressHeld
<1>1. PipelineInv /\ [Next]_vars
        => [(read = 1 /\ read' = 1 /\ resets = 0) => address' = address]_vars
  <2> SUFFICES ASSUME PipelineInv, Next, read = 1, read' = 1, resets = 0
               PROVE address' = address
    BY DEF vars, dmaVars
  <2> USE DEF PipelineInv, ControlInv, ControlTypeOK, BusOK
  <2>1. address = atAddress OBVIOUS
  <2>2. CASE UNCHANGED dmaVars BY <2>2 DEF dmaVars
  <2>3. ASSUME NEW stall, NEW valid,
               Dma!DmaEdge(Bus!WaitRequest(stall, valid), mem[cmdAddress])
        PROVE address' = address
    BY <2>1, <2>3 DEF Dma!DmaEdge, Dma!Rewind, Dma!Request, Dma!SetMaster,
      Dma!Reading, Dma!FinishRead, Dma!ShowAddress
  <2>4. CASE ResetPress BY <2>4 DEF ResetPress, Dma!DmaReset
  <2> QED
    BY <2>2, <2>3, <2>4 DEF Next, Tick, ClkOnly, LedClkOnly, BothClks, Clk,
      CpuWrite, ResetRelease
<1> QED BY <1>1, Invariant, PTL DEF Spec, AddressHeld

(* Without a reset, the answer the fetcher takes is that of the address it *)
(* shows, although a command may have gone out twice for the word before.  *)
THEOREM AnswersMatch == Spec => AnswerIsForAddress
<1>1. PipelineInv /\ [Next]_vars
        => [(dmaState = "reading" /\ dmaState' = "finishread" /\ resets = 0)
              => (cmdAddress = atAddress /\ address = atAddress)]_vars
  <2> SUFFICES ASSUME PipelineInv, Next, dmaState = "reading",
                      dmaState' = "finishread", resets = 0
               PROVE cmdAddress = atAddress /\ address = atAddress
    BY DEF vars, dmaVars
  <2> USE DEF PipelineInv, ControlInv, ControlTypeOK
  <2>1. read = 1 BY DEF SignalsOK
  <2>2. ~ UNCHANGED dmaVars
    BY SMT DEF dmaVars
  <2>3. CASE ResetPress BY <2>2, <2>3, SMT DEF ResetPress, Dma!DmaReset
  <2>4. ASSUME NEW stall \in {0, 1}, NEW valid \in {0, 1},
               Bus!BusEdge(stall, valid),
               Dma!DmaEdge(Bus!WaitRequest(stall, valid), mem[cmdAddress])
        PROVE readAccepted = 1
    <3>1. Bus!WaitRequest(stall, valid) # 1
      BY <2>4, SMT DEF Dma!DmaEdge, Dma!Rewind, Dma!Request,
        Dma!SetMaster, Dma!Reading, Dma!FinishRead
    <3>2. valid = 1 BY <2>1, <3>1, SMT DEF Bus!WaitRequest
    <3> QED BY <2>4, <3>2 DEF Bus!BusEdge, Bus!FarSide
  <2>5. CASE readAccepted = 1 BY <2>1, <2>5 DEF BusOK
  <2> QED
    BY <2>2, <2>3, <2>4, <2>5 DEF Next, Tick, ClkOnly, LedClkOnly, BothClks,
      Clk, CpuWrite, ResetRelease
<1> QED BY <1>1, Invariant, PTL DEF Spec, AnswerIsForAddress

-----------------------------------------------------------------------------
(* Without a reset the strip decodes what the driver sends.                *)
LEMMA SentBitIsBit ==
  ASSUME NEW p \in Driver!Pixel, NEW i \in 0..LastBit
  PROVE  Driver!SentBit(p, i) \in {0, 1}
<1>1. /\ p.red \in Driver!Vector /\ p.green \in Driver!Vector /\ p.blue \in Driver!Vector
  BY DEF Driver!Pixel
<1>2. \A v \in Driver!Vector, j \in 0..ColourBits-1 : v[j] \in {0, 1}
  BY DEF Driver!Vector, Driver!Bit
<1>3. CASE i < ColourBits
  <2>1. ColourBits-1-i \in 0..ColourBits-1
    BY <1>3, Constants, SMT DEF LastBit, Driver!LastBit
  <2> QED BY <1>1, <1>2, <1>3, <2>1 DEF Driver!SentBit
<1>4. CASE ~(i < ColourBits) /\ i < 2*ColourBits
  <2>1. ColourBits-1-(i-ColourBits) \in 0..ColourBits-1
    BY <1>4, Constants, SMT DEF LastBit, Driver!LastBit
  <2> QED BY <1>1, <1>2, <1>4, <2>1 DEF Driver!SentBit
<1>5. CASE ~(i < ColourBits) /\ ~(i < 2*ColourBits)
  <2>1. ColourBits-1-(i-2*ColourBits) \in 0..ColourBits-1
    BY <1>5, Constants, SMT DEF LastBit, Driver!LastBit
  <2> QED BY <1>1, <1>2, <1>5, <2>1 DEF Driver!SentBit
<1> QED BY <1>3, <1>4, <1>5

(* The strip puts the bits of a pixel back where the driver took them. *)
LEMMA ReceivedIsSent ==
  ASSUME NEW p \in Driver!Pixel, NEW s,
         \A i \in 1..3*ColourBits : s[i] = Driver!SentBit(p, i - 1)
  PROVE  Strip!Received(s) = p
<1> DEFINE C == ColourBits
           Part(k) == [i \in 0..C-1 |-> s[(k+1)*C - i]]
<1>1. C \in Nat /\ C >= 1
  BY Constants
<1>2. ASSUME NEW i \in 0..C-1 PROVE s[(0+1)*C - i] = p.green[i]
  <2>1. /\ (0+1)*C - i \in 1..3*C /\ (0+1)*C - i - 1 < C
        /\ C-1-((0+1)*C - i - 1) = i
    BY <1>1, SMT
  <2>2. s[(0+1)*C - i] = Driver!SentBit(p, (0+1)*C - i - 1)
    BY <2>1
  <2> QED BY <2>1, <2>2 DEF Driver!SentBit
<1>3. ASSUME NEW i \in 0..C-1 PROVE s[(1+1)*C - i] = p.red[i]
  <2>1. /\ (1+1)*C - i \in 1..3*C
        /\ ~((1+1)*C - i - 1 < C) /\ (1+1)*C - i - 1 < 2*C
        /\ C-1-((1+1)*C - i - 1 - C) = i
    BY <1>1, SMT
  <2>2. s[(1+1)*C - i] = Driver!SentBit(p, (1+1)*C - i - 1)
    BY <2>1
  <2> QED BY <2>1, <2>2 DEF Driver!SentBit
<1>4. ASSUME NEW i \in 0..C-1 PROVE s[(2+1)*C - i] = p.blue[i]
  <2>1. /\ (2+1)*C - i \in 1..3*C
        /\ ~((2+1)*C - i - 1 < C) /\ ~((2+1)*C - i - 1 < 2*C)
        /\ C-1-((2+1)*C - i - 1 - 2*C) = i
    BY <1>1, SMT
  <2>2. s[(2+1)*C - i] = Driver!SentBit(p, (2+1)*C - i - 1)
    BY <2>1
  <2> QED BY <2>1, <2>2 DEF Driver!SentBit
<1>5. /\ p.green \in [0..C-1 -> Driver!Bit] /\ p.red \in [0..C-1 -> Driver!Bit]
      /\ p.blue \in [0..C-1 -> Driver!Bit]
  BY DEF Driver!Pixel, Driver!Vector
<1>6. Part(0) = p.green
  BY <1>2, <1>5
<1>7. Part(1) = p.red
  BY <1>3, <1>5
<1>8. Part(2) = p.blue
  BY <1>4, <1>5
<1>9. p = [green |-> p.green, red |-> p.red, blue |-> p.blue]
  BY DEF Driver!Pixel
<1>10. Strip!Received(s) = [green |-> Part(0), red |-> Part(1), blue |-> Part(2)]
  BY DEF Strip!Received
<1> HIDE DEF Part
<1> QED BY <1>6, <1>7, <1>8, <1>9, <1>10

(* A pulse is long enough for the strip to tell a 1, and short enough to   *)
(* tell a 0.                                                               *)
LEMMA Pulse ==
  ASSUME PipelineInv, ledState # "RET"
  PROVE  /\ Driver!SentBit(regs, bitindex) \in {0, 1}
         /\ PulseTicks = IF Driver!SentBit(regs, bitindex) = 1 THEN 15 ELSE 7
         /\ Driver!StateOfBit(Driver!SentBit(regs, bitindex))
              = IF PulseTicks = 15 THEN "B1" ELSE "B0"
         /\ ledState = "B1" => Driver!HighTicks(ledState) = 15
         /\ ledState = "B0" => Driver!HighTicks(ledState) = 7
<1>1. Driver!SentBit(regs, bitindex) \in {0, 1}
  BY SentBitIsBit DEF PipelineInv, PixelTypeOK, ControlInv, ControlTypeOK, LastBit
<1>2. CASE Driver!SentBit(regs, bitindex) = 1
  BY <1>2 DEF PulseTicks, Driver!StateOfBit, Driver!HighTicks
<1>3. CASE Driver!SentBit(regs, bitindex) = 0
  BY <1>3 DEF PulseTicks, Driver!StateOfBit, Driver!HighTicks
<1> QED BY <1>1, <1>2, <1>3

(* What the strip does with the line on an edge while a pixel is sent. *)
LEMMA StripSees ==
  ASSUME PipelineInv, LineOK, ledState # "RET", Strip!StripEdge
  PROVE  /\ shown' = shown
         /\ ticks # PulseTicks + 1 => UNCHANGED <<bits, chain>>
         /\ ticks = 0 => high' = 0
         /\ ticks \in 1..PulseTicks =>
              high' = IF ticks >= Strip!OneTicks THEN Strip!OneTicks ELSE ticks
         /\ ticks = PulseTicks + 1 =>
              /\ high' = 0 /\ low' = 1
              /\ LET all == Append(bits, Driver!SentBit(regs, bitindex)) IN
                 IF Len(all) = 3 * ColourBits
                   THEN /\ bits' = <<>>
                        /\ chain' = IF Len(chain) < NumPixels
                                      THEN Append(chain, Strip!Received(all)) ELSE chain
                   ELSE bits' = all /\ UNCHANGED chain
         /\ PulseSeen => high' = 0 /\ low' = low + 1
<1> DEFINE W == PulseTicks
<1>1. /\ W \in {7, 15} /\ LatchTicks \in Nat /\ LatchTicks > 19
      /\ ticks \in 0..25 /\ low \in 0..LatchTicks
  <2>1. ticks \in 0..25
    BY Constants, SMT DEF PipelineInv, ControlInv, ControlTypeOK, TimersOK, Driver!LedStates
  <2> QED BY <2>1, Pulse, PipelineAssumption DEF PipelineInv, StripTypeOK, Strip!StripAssumption
<1>2. /\ ledout = IF ticks \in 1..W THEN 1 ELSE 0
      /\ high = IF ticks = 0 \/ ticks > W + 1 THEN 0
                ELSE IF ticks > 11 THEN 11 ELSE ticks - 1
      /\ ticks = 0 => low <= 18 \/ low = LatchTicks
      /\ ticks > W + 1 => low = ticks - W - 1
  BY DEF LineOK, PulseSeen, Strip!OneTicks
<1>3. Driver!SentBit(regs, bitindex) = IF W = 15 THEN 1 ELSE 0
  BY Pulse
<1> HIDE DEF W
<1>4. CASE ticks = 0 \/ ticks > W + 1
  <2>1. ledout = 0 /\ high = 0
    BY <1>1, <1>2, <1>4, SMT
  <2>2. low + 1 # LatchTicks
    BY <1>1, <1>2, <1>4, SMT
  <2>3. Strip!LineLow
    BY <2>1 DEF Strip!StripEdge, Strip!LineHigh, Strip!LineFalls
  <2>4. /\ high' = 0 /\ UNCHANGED <<bits, chain, shown>>
        /\ low' = IF low < LatchTicks THEN low + 1 ELSE low
    BY <2>1, <2>2, <2>3 DEF Strip!LineLow
  <2>5. ticks > W + 1 => low < LatchTicks
    BY <1>1, <1>2, SMT
  <2> QED BY <1>1, <1>4, <2>4, <2>5, SMT DEF PulseSeen, W
<1>5. CASE ticks \in 1..W
  <2>1. ledout = 1 /\ high = (IF ticks > 11 THEN 11 ELSE ticks - 1)
    BY <1>1, <1>2, <1>5, SMT
  <2>2. Strip!LineHigh
    BY <2>1 DEF Strip!StripEdge, Strip!LineLow, Strip!LineFalls
  <2>3. high' = (IF high < 11 THEN high + 1 ELSE high) /\ UNCHANGED <<bits, chain, shown>>
    BY <2>2 DEF Strip!LineHigh, Strip!OneTicks
  <2>4. high' = IF ticks >= 11 THEN 11 ELSE ticks
    BY <1>1, <2>1, <2>3, SMT
  <2> QED BY <1>1, <1>5, <2>3, <2>4, SMT DEF PulseSeen, W, Strip!OneTicks
<1>6. CASE ticks = W + 1
  <2>1. ledout = 0 /\ high = (IF W = 15 THEN 11 ELSE 7)
    BY <1>1, <1>2, <1>6, SMT
  <2>2. Strip!LineFalls
    BY <2>1 DEF Strip!StripEdge, Strip!LineHigh, Strip!LineLow
  <2>3. (IF high >= Strip!OneTicks THEN 1 ELSE 0) = Driver!SentBit(regs, bitindex)
    BY <1>1, <1>3, <2>1, SMT DEF Strip!OneTicks
  <2>4. /\ shown' = shown /\ high' = 0 /\ low' = 1
        /\ LET all == Append(bits, Driver!SentBit(regs, bitindex)) IN
           IF Len(all) = 3 * ColourBits
             THEN /\ bits' = <<>>
                  /\ chain' = IF Len(chain) < NumPixels
                                THEN Append(chain, Strip!Received(all)) ELSE chain
             ELSE bits' = all /\ UNCHANGED chain
    BY <2>2, <2>3 DEF Strip!LineFalls
  <2>5. ticks # 0 /\ ~(ticks \in 1..W) /\ ~PulseSeen /\ ticks = PulseTicks + 1
    BY <1>1, <1>6, SMT DEF PulseSeen, W
  <2> QED BY <2>4, <2>5 DEF W
<1> QED BY <1>1, <1>4, <1>5, <1>6, SMT

(* An edge of ledclk within a bit. *)
LEMMA WithinBit ==
  ASSUME PipelineInv, PulseInv, Driver!HighPulse \/ Driver!LowRest, Strip!StripEdge
  PROVE  LineOK' /\ BitsOK' /\ ReturnOK' /\ ledState # "RET" /\ shown' = shown
         /\ ledState' # "RET" /\ UNCHANGED <<regs, bitindex, pixelindex>>
         /\ IF PulseSeen' /\ ~PulseSeen /\ bitindex = LastBit
              THEN Len(chain) = pixelindex /\ chain' = Append(chain, regs)
              ELSE chain' = chain
<1> DEFINE W == PulseTicks  sent == Driver!SentBit(regs, bitindex)
<1>1. /\ ledState # "RET" /\ ticks' = ticks + 1 /\ ticks \in 0..24
      /\ UNCHANGED <<regs, bitindex, pixelindex>>
  BY Constants, SMT DEF PipelineInv, ControlInv, ControlTypeOK, TimersOK, Driver!LedStates,
     Driver!HighPulse, Driver!LowRest, Driver!BitTicks
<1>2. /\ PulseTicks' = W /\ (PulseSeen' <=> ticks + 1 > W + 1) /\ (PulseSeen <=> ticks > W + 1)
      /\ W \in {7, 15} /\ sent \in {0, 1}
  BY <1>1, Pulse DEF PulseTicks, PulseSeen
<1>3. /\ ledState = IF ticks < W THEN Driver!StateOfBit(sent) ELSE "BL"
      /\ PulseSeen => low = ticks - W - 1
  BY <1>1 DEF PulseInv, LineOK
<1>4. /\ Driver!StateOfBit(sent) = IF W = 15 THEN "B1" ELSE "B0"
      /\ ledState \in {"B1", "B0"} => Driver!HighTicks(ledState) = W
  BY <1>1, <1>2, <1>3, Pulse
<1>5. LineOK'
  <2>1. ledState' = IF ticks + 1 < W THEN Driver!StateOfBit(sent) ELSE "BL"
    <3>1. CASE ticks < W
      <4>1. Driver!HighPulse
        BY <1>2, <1>3, <1>4, <3>1 DEF Driver!LowRest
      <4>2. ledState' = IF ticks + 1 = W THEN "BL" ELSE ledState
        BY <1>4, <4>1 DEF Driver!HighPulse
      <4> QED BY <1>1, <1>2, <1>3, <3>1, <4>2, SMT
    <3>2. CASE ~(ticks < W)
      <4>1. Driver!LowRest
        BY <1>3, <3>2 DEF Driver!HighPulse
      <4> QED BY <1>1, <1>2, <1>3, <3>2, <4>1, SMT DEF Driver!LowRest
    <3> QED BY <3>1, <3>2
  <2>2. ledout' = IF ticks + 1 \in 1..W THEN 1 ELSE 0
    <3>1. CASE ticks < W
      <4>1. Driver!HighPulse
        BY <1>2, <1>3, <1>4, <3>1 DEF Driver!LowRest
      <4> QED BY <1>1, <1>2, <3>1, <4>1, SMT DEF Driver!HighPulse
    <3>2. CASE ~(ticks < W)
      <4>1. Driver!LowRest
        BY <1>3, <3>2 DEF Driver!HighPulse
      <4> QED BY <1>1, <1>2, <3>2, <4>1, SMT DEF Driver!LowRest
    <3> QED BY <3>1, <3>2
  <2>3. /\ ticks = 0 => high' = 0
        /\ ticks \in 1..W => high' = IF ticks >= 11 THEN 11 ELSE ticks
        /\ ticks = W + 1 => high' = 0 /\ low' = 1
        /\ ticks > W + 1 => high' = 0 /\ low' = low + 1
    BY <1>1, <1>2, StripSees DEF PulseInv, Strip!OneTicks
  <2> HIDE DEF W, sent
  <2>4. high' = IF ticks + 1 = 0 \/ ticks + 1 > W + 1 THEN 0
                ELSE IF ticks + 1 > 11 THEN 11 ELSE ticks + 1 - 1
    BY <1>1, <1>2, <2>3, SMT
  <2>5. ticks + 1 > W + 1 => low' = ticks + 1 - W - 1
    BY <1>1, <1>2, <1>3, <2>3, SMT
  <2>6. ticks + 1 # 0
    BY <1>1, SMT
  <2>7. sent' = sent
    BY <1>1 DEF sent
  <2> QED BY <1>1, <1>2, <2>1, <2>2, <2>4, <2>5, <2>6, <2>7 DEF LineOK, Strip!OneTicks, sent, W
<1>6. /\ \A i \in 1..Len(bits) : bits[i] = Driver!SentBit(regs, i - 1)
      /\ IF PulseSeen /\ bitindex = LastBit
           THEN bits = <<>> /\ Len(chain) = pixelindex + 1
           ELSE /\ Len(bits) = IF PulseSeen THEN bitindex + 1 ELSE bitindex
                /\ Len(chain) = pixelindex
  BY <1>1 DEF PulseInv, BitsOK
<1>7. /\ bitindex \in 0..LastBit /\ LastBit + 1 = 3 * ColourBits /\ LastBit \in Nat
      /\ pixelindex \in Nat /\ pixelindex < NumPixels
      /\ bits \in Seq({0, 1}) /\ chain \in Seq(Driver!Pixel) /\ regs \in Driver!Pixel
  BY Constants DEF PipelineInv, ControlInv, ControlTypeOK, PixelTypeOK, StripTypeOK,
     LastBit, Driver!LastBit, Driver!Bit
<1>8. /\ BitsOK'
      /\ IF PulseSeen' /\ ~PulseSeen /\ bitindex = LastBit
           THEN Len(chain) = pixelindex /\ chain' = Append(chain, regs)
           ELSE chain' = chain
  <2>1. CASE ticks # W + 1
    <3>1. bits' = bits /\ chain' = chain
      BY <1>1, <2>1, StripSees DEF PulseInv
    <3>2. PulseSeen' <=> PulseSeen
      BY <1>1, <1>2, <2>1, SMT
    <3> QED BY <1>1, <1>6, <3>1, <3>2 DEF BitsOK
  <2>2. CASE ticks = W + 1
    <3> DEFINE all == Append(bits, sent)
    <3>1. PulseSeen' /\ ~PulseSeen
      BY <1>1, <1>2, <2>2, SMT
    <3>2. Len(bits) = bitindex /\ Len(chain) = pixelindex
      BY <1>6, <3>1
    <3>3. IF Len(all) = 3 * ColourBits
            THEN /\ bits' = <<>>
                 /\ chain' = IF Len(chain) < NumPixels
                               THEN Append(chain, Strip!Received(all)) ELSE chain
            ELSE bits' = all /\ chain' = chain
      BY <1>1, <2>2, StripSees DEF PulseInv
    <3>4. /\ Len(all) = bitindex + 1
          /\ \A i \in 1..Len(all) : all[i] = Driver!SentBit(regs, i - 1)
      <4>1. Len(all) = bitindex + 1 /\ all[bitindex + 1] = sent
            /\ \A i \in 1..bitindex : all[i] = bits[i]
        BY <1>2, <1>7, <3>2
      <4>2. bitindex + 1 - 1 = bitindex /\ \A i \in 1..(bitindex + 1) : i = bitindex + 1 \/ i \in 1..bitindex
        BY <1>7, SMT
      <4> QED BY <1>6, <3>2, <4>1, <4>2
    <3> HIDE DEF all
    <3>5. CASE bitindex = LastBit
      <4>1. Len(all) = 3 * ColourBits
        BY <1>7, <3>4, <3>5
      <4>2. Strip!Received(all) = regs
        BY <1>7, <3>4, <4>1, ReceivedIsSent
      <4>3. bits' = <<>> /\ chain' = Append(chain, regs)
        BY <1>7, <3>2, <3>3, <4>1, <4>2
      <4>4. Len(chain') = pixelindex + 1
        BY <1>7, <3>2, <4>3
      <4> QED BY <1>1, <3>1, <3>2, <3>5, <4>3, <4>4, SMT DEF BitsOK
    <3>6. CASE bitindex # LastBit
      <4>1. Len(all) # 3 * ColourBits
        BY <1>7, <3>4, <3>6, SMT
      <4>2. bits' = all /\ chain' = chain
        BY <3>3, <4>1
      <4> QED BY <1>1, <3>1, <3>2, <3>4, <3>6, <4>2 DEF BitsOK
    <3> QED BY <3>5, <3>6
  <2> QED BY <2>1, <2>2
<1>9. ledState' # "RET" /\ shown' = shown
  <2>1. ledState' \in {"B1", "B0", "BL"}
    BY DEF Driver!HighPulse, Driver!LowRest
  <2> QED BY <1>1, <2>1, StripSees DEF PulseInv
<1>10. ReturnOK'
  BY <1>9 DEF ReturnOK
<1> QED BY <1>1, <1>5, <1>8, <1>9, <1>10

(* The first tick of a bit, wherever it comes from. *)
LEMMA BitBegins ==
  ASSUME PipelineInv', ledState' # "RET", ticks' = 0, ledout' = 0, high' = 0,
         ledState' = Driver!StateOfBit(Driver!SentBit(regs, bitindex))',
         low' <= 18 \/ low' = LatchTicks
  PROVE  LineOK' /\ ~PulseSeen' /\ ReturnOK'
<1>1. PulseTicks' \in {7, 15}
  <2>1. regs' \in Driver!Pixel /\ bitindex' \in 0..LastBit
    BY DEF PipelineInv, PixelTypeOK, ControlInv, ControlTypeOK, LastBit
  <2>2. Driver!SentBit(regs', bitindex') \in {0, 1}
    BY <2>1, SentBitIsBit
  <2> QED BY <2>2 DEF PulseTicks, Driver!StateOfBit, Driver!HighTicks
<1>2. ~PulseSeen' /\ ticks' < PulseTicks' /\ ~(ticks' \in 1..PulseTicks')
  <2>1. PulseSeen' <=> ticks' > PulseTicks' + 1
    BY Zenon DEF PulseSeen
  <2>2. CASE PulseTicks' = 7
    BY <2>1, <2>2
  <2>3. CASE PulseTicks' = 15
    BY <2>1, <2>3
  <2> QED BY <1>1, <2>2, <2>3
<1> QED BY <1>2 DEF LineOK, ReturnOK

(* An edge of ledclk that ends a bit. *)
LEMMA BitEnds ==
  ASSUME PipelineInv, PipelineInv', PulseInv, Driver!NextBit \/ Driver!NextPixel,
         Strip!StripEdge
  PROVE  /\ LineOK' /\ BitsOK' /\ shown' = shown /\ chain' = chain
         /\ PulseSeen /\ ledState # "RET" /\ low' <= 18 /\ high' = 0 /\ ledout' = 0
         /\ ledState' # "RET" => ReturnOK'
         /\ bits' = bits
<1>1. ledState = "BL" /\ ticks = 25 /\ ticks' = 0 /\ ledout' = 0
  BY DEF Driver!NextBit, Driver!NextPixel, Driver!BitTicks, PipelineInv, ControlInv, ControlTypeOK
<1>2. PulseTicks \in {7, 15}
  BY <1>1, Pulse
<1>3. PulseSeen /\ ticks # PulseTicks + 1 /\ low = 25 - PulseTicks - 1
  BY <1>1, <1>2, SMT DEF PulseSeen, PulseInv, LineOK
<1>4. /\ high' = 0 /\ low' = low + 1 /\ UNCHANGED <<bits, chain, shown>>
  BY <1>1, <1>3, StripSees DEF PulseInv
<1>5. low' <= 18
  BY <1>2, <1>3, <1>4, SMT
<1>6. /\ \A i \in 1..Len(bits) : bits[i] = Driver!SentBit(regs, i - 1)
      /\ IF bitindex = LastBit THEN bits = <<>> /\ Len(chain) = pixelindex + 1
         ELSE Len(bits) = bitindex + 1 /\ Len(chain) = pixelindex
  BY <1>1, <1>3 DEF PulseInv, BitsOK
<1>7. CASE Driver!NextBit
  <2>1. /\ ledState' = Driver!StateOfBit(Driver!SentBit(regs, bitindex))'
        /\ bitindex' = bitindex + 1 /\ bitindex # LastBit /\ UNCHANGED <<pixelindex, regs>>
    BY <1>7 DEF Driver!NextBit, LastBit
  <2>2. ledState' # "RET"
    BY <2>1 DEF Driver!StateOfBit
  <2>3. LineOK' /\ ~PulseSeen' /\ ReturnOK'
    BY <1>1, <1>4, <1>5, <2>1, <2>2, BitBegins
  <2>4. BitsOK'
    BY <1>4, <1>6, <2>1, <2>3 DEF BitsOK
  <2> QED BY <1>1, <1>3, <1>4, <1>5, <2>3, <2>4
<1>8. CASE Driver!NextPixel
  <2>1. bitindex = LastBit /\ bits = <<>> /\ Len(chain) = pixelindex + 1 /\ bitindex' = 0
    BY <1>6, <1>8 DEF Driver!NextPixel, LastBit
  <2>2. CASE pixelindex = NumPixels - 1
    <3>1. ledState' = "RET"
      BY <1>8, <2>2 DEF Driver!NextPixel
    <3> QED BY <1>1, <1>3, <1>4, <1>5, <3>1 DEF LineOK, BitsOK
  <2>3. CASE pixelindex # NumPixels - 1
    <3>1. /\ pixelindex' = pixelindex + 1 /\ regs' = rgb
          /\ ledState' = Driver!StateOfBit(Driver!SentBit(rgb, 0))
      BY <1>8, <2>3 DEF Driver!NextPixel, Driver!LatchPixel
    <3>2. ledState' = Driver!StateOfBit(Driver!SentBit(regs, bitindex))'
      BY <2>1, <3>1
    <3>3. ledState' # "RET"
      BY <3>1 DEF Driver!StateOfBit
    <3>4. LineOK' /\ ~PulseSeen' /\ ReturnOK'
      BY <1>1, <1>4, <1>5, <3>2, <3>3, BitBegins
    <3>5. BitsOK'
      BY <1>4, <2>1, <3>1, <3>4 DEF BitsOK
    <3> QED BY <1>1, <1>3, <1>4, <1>5, <3>4, <3>5
  <2> QED BY <2>2, <2>3
<1> QED BY <1>7, <1>8

(* An edge of ledclk in RET: the strip latches a frame when it holds one.  *)
LEMMA InReturn ==
  ASSUME PipelineInv, PulseInv, ledState = "RET", Strip!StripEdge
  PROVE  /\ high' = 0 /\ bits' = <<>>
         /\ low' = IF low < LatchTicks THEN low + 1 ELSE low
         /\ IF low + 1 = LatchTicks
              THEN /\ chain' = <<>>
                   /\ shown' = [k \in 0..NumPixels-1 |->
                                  IF k < Len(chain) THEN chain[k+1] ELSE shown[k]]
              ELSE UNCHANGED <<chain, shown>>
<1>1. ledout = 0 /\ high = 0 /\ bits = <<>>
  BY DEF PulseInv, ReturnOK
<1>2. Strip!LineLow
  BY <1>1 DEF Strip!StripEdge, Strip!LineHigh, Strip!LineFalls
<1> QED BY <1>1, <1>2 DEF Strip!LineLow

LEMMA LatchBounds ==
  LatchTicks \in Nat /\ LatchTicks > 19 /\ LatchTicks < ReturnTicks - 1
BY PipelineAssumption DEF Strip!StripAssumption

(* The frame has been latched when the next one starts. *)
LEMMA FrameStarts ==
  ASSUME PipelineInv, PipelineInv', PulseInv, Driver!FrameStart, Strip!StripEdge
  PROVE  /\ LineOK' /\ BitsOK' /\ ReturnOK' /\ UNCHANGED <<chain, shown>>
         /\ chain = <<>> /\ atAddress = BaseAddress /\ dmaState = "idle"
         /\ ledState = "RET" /\ ledState' # "RET" /\ pixelindex' = 0 /\ regs' = rgb
<1>1. /\ ledState = "RET" /\ ticks + 1 = ReturnTicks
      /\ bitindex' = 0 /\ pixelindex' = 0 /\ ticks' = 0 /\ ledout' = 0 /\ regs' = rgb
      /\ ledState' = Driver!StateOfBit(Driver!SentBit(rgb, 0))
  BY DEF Driver!FrameStart, Driver!LatchPixel
<1>2. low \in 0..LatchTicks /\ ticks \in Nat
  BY Constants DEF PipelineInv, ControlInv, ControlTypeOK, StripTypeOK
<1>3. low = LatchTicks
  BY <1>1, <1>2, LatchBounds, Constants, SMT DEF PulseInv, ReturnOK
<1>4. chain = <<>> /\ atAddress = BaseAddress /\ dmaState = "idle"
  <2>1. ~(low < LatchTicks)
    BY <1>3, LatchBounds, SMT
  <2> QED BY <1>1, <2>1 DEF PulseInv, ReturnOK
<1>5. /\ high' = 0 /\ bits' = <<>> /\ low' = LatchTicks
      /\ UNCHANGED <<chain, shown>>
  <2>1. ~(low < LatchTicks) /\ low + 1 # LatchTicks
    BY <1>3, LatchBounds, SMT
  <2> QED BY <1>1, <1>3, <2>1, InReturn
<1>6. ledState' = Driver!StateOfBit(Driver!SentBit(regs, bitindex))' /\ ledState' # "RET"
  BY <1>1 DEF Driver!StateOfBit
<1>7. LineOK' /\ ~PulseSeen' /\ ReturnOK'
  BY <1>1, <1>5, <1>6, BitBegins
<1>8. BitsOK'
  BY <1>1, <1>4, <1>5, <1>7 DEF BitsOK
<1> QED BY <1>1, <1>4, <1>5, <1>6, <1>7, <1>8

(* The fetcher on a tick: it takes the word it asked for, or keeps the one *)
(* it holds.                                                               *)
LEMMA FetcherStep ==
  ASSUME PipelineInv, reset = 0, resets = 0, Tick
  PROVE  /\ UNCHANGED <<mem, reset, resets, writes>>
         /\ \/ /\ dmaState = "reading" /\ dmaState' = "finishread"
               /\ rgb' = mem[atAddress]
            \/ /\ rgb' = rgb
               /\ dmaState' = "finishread" => dmaState = "finishread"
               /\ dmaState = "finishread" =>
                    dmaState' = "finishread" \/ (getnext = 0 /\ dmaState' = "idle")
         /\ dmaState = "idle" => atAddress' \in {atAddress, BaseAddress}
<1>1. UNCHANGED <<mem, reset, resets, writes>>
  BY DEF Tick, envVars
<1>2. CASE UNCHANGED dmaVars
  BY <1>1, <1>2 DEF dmaVars, PipelineInv, ControlInv, ControlTypeOK
<1>3. ASSUME NEW stall \in {0, 1}, NEW valid \in {0, 1},
             Bus!BusEdge(stall, valid),
             Dma!DmaEdge(Bus!WaitRequest(stall, valid), mem[cmdAddress])
      PROVE  /\ \/ /\ dmaState = "reading" /\ dmaState' = "finishread"
                   /\ rgb' = mem[atAddress]
                \/ /\ rgb' = rgb
                   /\ dmaState' = "finishread" => dmaState = "finishread"
                   /\ dmaState = "finishread" =>
                        dmaState' = "finishread" \/ (getnext = 0 /\ dmaState' = "idle")
             /\ dmaState = "idle" => atAddress' \in {atAddress, BaseAddress}
  <2>1. CASE Dma!Rewind \/ Dma!Request \/ Dma!SetMaster
    BY <2>1 DEF Dma!Rewind, Dma!Request, Dma!SetMaster
  <2>2. CASE Dma!FinishRead
    BY <2>2 DEF Dma!FinishRead
  <2>3. CASE Dma!Reading(Bus!WaitRequest(stall, valid), mem[cmdAddress])
    <3>1. CASE Bus!WaitRequest(stall, valid) = 1
      BY <2>3, <3>1 DEF Dma!Reading
    <3>2. CASE Bus!WaitRequest(stall, valid) # 1
      <4>1. dmaState = "reading" /\ dmaState' = "finishread" /\ rgb' = mem[cmdAddress]
        BY <2>3, <3>2 DEF Dma!Reading
      <4>2. valid = 1
        BY <3>2, <4>1, SMT DEF Bus!WaitRequest, PipelineInv, ControlInv, SignalsOK
      <4>3. cmdAddress = atAddress
        BY <1>3, <4>1, <4>2, SMT DEF Bus!BusEdge, Bus!FarSide, PipelineInv, ControlInv, BusOK
      <4> QED BY <4>1, <4>3
    <3> QED BY <3>1, <3>2
  <2> QED BY <1>3, <2>1, <2>2, <2>3 DEF Dma!DmaEdge
<1> QED BY <1>1, <1>2, <1>3 DEF Tick, ClkOnly, LedClkOnly, BothClks, Clk

(* A word is on its way only while a pixel is sent. *)
LEMMA NotFetchedInReturn ==
  ASSUME PipelineInv, resets = 0, ledState = "RET"
  PROVE  /\ dmaState = "idle" \/ dmaState = "finishread"
         /\ ticks >= 2 => atAddress = BaseAddress /\ dmaState = "idle"
<1>1. /\ dmaState = "idle" \/ (dmaState = "finishread" /\ getnext = 0)
      /\ atAddress # BaseAddress => ElapsedInBit <= 3
      /\ dmaState = "finishread" /\ getnext = 0 => ElapsedInBit <= 2
  BY DEF PipelineInv, ControlInv, AddressOK, ProgressOK
<1>2. ticks \in Nat /\ ElapsedInBit >= 2 * ticks
  BY Constants, SMT DEF PipelineInv, ControlInv, ControlTypeOK, ElapsedInBit, ClkSinceLed
<1>3. ElapsedInBit \in Int
  BY Constants, SMT DEF PipelineInv, ControlInv, ControlTypeOK, ElapsedInBit, ClkSinceLed
<1> QED BY <1>1, <1>2, <1>3, SMT

(* While the strip is empty in RET the fetcher stays at the first word. *)
LEMMA StaysAtFirst ==
  ASSUME PipelineInv, PipelineInv', Tick, reset = 0, resets = 0, ledState = "RET",
         ledState' = "RET", atAddress = BaseAddress, dmaState = "idle"
  PROVE  atAddress' = BaseAddress /\ dmaState' = "idle"
<1>1. /\ resets' = 0 /\ atAddress' = BaseAddress
      /\ dmaState' # "finishread"
  BY FetcherStep
<1>2. dmaState' = "idle" \/ dmaState' = "finishread"
  BY <1>1 DEF PipelineInv, ControlInv, AddressOK
<1> QED BY <1>1, <1>2

LEMMA ReturnWaits ==
  ASSUME PipelineInv, PipelineInv', PulseInv, Tick, reset = 0, resets = 0,
         Driver!ReturnWait, Strip!StripEdge
  PROVE  /\ LineOK' /\ BitsOK' /\ ReturnOK'
         /\ ledState = "RET" /\ ledState' = "RET"
         /\ \/ UNCHANGED <<chain, shown>>
            \/ /\ chain' = <<>>
               /\ shown' = [k \in 0..NumPixels-1 |->
                              IF k < Len(chain) THEN chain[k+1] ELSE shown[k]]
<1>1. /\ ledState = "RET" /\ ledState' = "RET" /\ ticks' = ticks + 1 /\ ledout' = 0
  BY DEF Driver!ReturnWait
<1>2. /\ high' = 0 /\ bits' = <<>>
      /\ low' = IF low < LatchTicks THEN low + 1 ELSE low
      /\ IF low + 1 = LatchTicks
           THEN /\ chain' = <<>>
                /\ shown' = [k \in 0..NumPixels-1 |->
                               IF k < Len(chain) THEN chain[k+1] ELSE shown[k]]
           ELSE UNCHANGED <<chain, shown>>
  BY <1>1, InReturn
<1>3. low \in 0..LatchTicks /\ ticks \in Nat
  BY Constants DEF PipelineInv, ControlInv, ControlTypeOK, StripTypeOK
<1>4. /\ low >= ticks \/ low = LatchTicks
      /\ \/ chain = <<>> /\ atAddress = BaseAddress /\ dmaState = "idle"
         \/ Len(chain) = NumPixels /\ low <= 18 + ticks /\ low < LatchTicks
  BY <1>1 DEF PulseInv, ReturnOK
<1>5. low' >= ticks' \/ low' = LatchTicks
  BY <1>1, <1>2, <1>3, <1>4, LatchBounds, SMT
<1>6. CASE chain = <<>> /\ atAddress = BaseAddress /\ dmaState = "idle"
  <2>1. chain' = <<>>
    BY <1>2, <1>6
  <2>2. atAddress' = BaseAddress /\ dmaState' = "idle"
    BY <1>1, <1>6, StaysAtFirst
  <2>3. ReturnOK'
    BY <1>1, <1>2, <1>5, <2>1, <2>2 DEF ReturnOK
  <2> QED BY <1>1, <1>2, <2>3 DEF LineOK, BitsOK
<1>7. CASE Len(chain) = NumPixels /\ low <= 18 + ticks /\ low < LatchTicks
  <2>1. CASE low + 1 = LatchTicks
    <3>1. ticks' >= 2
      BY <1>1, <1>3, <1>7, <2>1, LatchBounds, SMT
    <3>2. resets' = 0
      BY FetcherStep
    <3>3. atAddress' = BaseAddress /\ dmaState' = "idle"
      <4>1. /\ dmaState' = "idle" \/ (dmaState' = "finishread" /\ getnext' = 0)
            /\ atAddress' # BaseAddress => ElapsedInBit' <= 3
            /\ dmaState' = "finishread" /\ getnext' = 0 => ElapsedInBit' <= 2
        BY <1>1, <3>2 DEF PipelineInv, ControlInv, AddressOK, ProgressOK
      <4>2. ElapsedInBit' \in Int /\ ElapsedInBit' >= 4
        BY <3>1, <1>1, <1>3, Constants, SMT
          DEF PipelineInv, ControlInv, ControlTypeOK, ElapsedInBit, ClkSinceLed
      <4> QED BY <4>1, <4>2, SMT
    <3>4. chain' = <<>>
      BY <1>2, <2>1
    <3>5. ReturnOK'
      BY <1>1, <1>2, <1>5, <3>3, <3>4 DEF ReturnOK
    <3> QED BY <1>1, <1>2, <3>5 DEF LineOK, BitsOK
  <2>2. CASE low + 1 # LatchTicks
    <3>1. chain' = chain /\ low' = low + 1 /\ low' <= 18 + ticks' /\ low' < LatchTicks
      BY <1>1, <1>2, <1>3, <1>7, <2>2, LatchBounds, SMT
    <3>2. ReturnOK'
      BY <1>1, <1>2, <1>5, <1>7, <3>1 DEF ReturnOK
    <3> QED BY <1>1, <1>2, <3>2 DEF LineOK, BitsOK
  <2> QED BY <2>1, <2>2
<1> QED BY <1>4, <1>6, <1>7

(* A tick is an edge of ledclk, for the driver and the strip, or not. *)
LEMMA TickIs ==
  ASSUME reset = 0, Tick
  PROVE  \/ UNCHANGED <<driverVars, stripVars>>
         \/ Driver!DriverEdge /\ Strip!StripEdge
BY DEF Tick, ClkOnly, LedClkOnly, BothClks, LedClk

(* Without a reset the strip stays in step with the driver.                *)
LEMMA PulseNext ==
  ASSUME MaxResets = 0, PipelineInv, PipelineInv', PulseInv, [Next]_vars
  PROVE  PulseInv'
<1>1. reset = 0 /\ resets = 0
  BY SMT DEF PulseInv, PipelineInv, ControlInv, ControlTypeOK
<1>2. CASE UNCHANGED <<reset, driverVars, stripVars, dmaState, atAddress>>
  <2>1. /\ UNCHANGED <<reset, ledState, bitindex, pixelindex, ticks, regs, ledout>>
        /\ UNCHANGED <<high, low, bits, chain, dmaState, atAddress>>
    BY <1>2 DEF driverVars, stripVars
  <2> QED BY <2>1 DEF PulseInv, LineOK, BitsOK, ReturnOK, PulseSeen, PulseTicks
<1>3. CASE Tick
  <2>1. reset' = 0
    BY <1>1, <1>3, FetcherStep
  <2>2. CASE UNCHANGED <<driverVars, stripVars>>
    <3>1. /\ UNCHANGED <<ledState, bitindex, pixelindex, ticks, regs, ledout>>
          /\ UNCHANGED <<high, low, bits, chain>>
      BY <2>2 DEF driverVars, stripVars
    <3>2. LineOK' /\ BitsOK'
      BY <3>1 DEF PulseInv, LineOK, BitsOK, PulseSeen, PulseTicks
    <3>3. ReturnOK'
      <4> SUFFICES ASSUME ledState' = "RET" PROVE ReturnOK'
        BY DEF ReturnOK
      <4>1. atAddress = BaseAddress /\ dmaState = "idle"
              => atAddress' = BaseAddress /\ dmaState' = "idle"
        BY <1>1, <1>3, <3>1, StaysAtFirst
      <4> QED BY <3>1, <4>1 DEF PulseInv, ReturnOK
    <3> QED BY <2>1, <3>2, <3>3 DEF PulseInv
  <2>3. CASE Driver!DriverEdge /\ Strip!StripEdge
    <3>1. CASE Driver!ReturnWait
      BY <1>1, <1>3, <2>1, <2>3, <3>1, ReturnWaits DEF PulseInv
    <3>2. CASE Driver!FrameStart
      BY <2>1, <2>3, <3>2, FrameStarts DEF PulseInv
    <3>3. CASE Driver!HighPulse \/ Driver!LowRest
      BY <2>1, <2>3, <3>3, WithinBit DEF PulseInv
    <3>4. CASE Driver!NextBit \/ Driver!NextPixel
      <4>1. /\ LineOK' /\ BitsOK' /\ chain' = chain /\ PulseSeen /\ ledState # "RET"
            /\ low' <= 18 /\ high' = 0 /\ ledout' = 0 /\ bits' = bits
            /\ ledState' # "RET" => ReturnOK'
        BY <2>3, <3>4, BitEnds
      <4>2. ledState' = "RET" => ReturnOK'
        <5> SUFFICES ASSUME ledState' = "RET" PROVE ReturnOK'
          OBVIOUS
        <5>1. Driver!NextPixel
          BY <3>4 DEF Driver!NextBit, Driver!StateOfBit
        <5>2. bitindex = LastBit /\ pixelindex = NumPixels - 1 /\ ticks' = 0
          BY <5>1 DEF Driver!NextPixel, Driver!StateOfBit, LastBit
        <5>3. bits = <<>> /\ Len(chain) = NumPixels
          BY <4>1, <5>2, Constants DEF PulseInv, BitsOK
        <5>4. low' \in 0..LatchTicks
          BY DEF PipelineInv, StripTypeOK
        <5>5. low' >= ticks' /\ low' <= 18 + ticks' /\ low' < LatchTicks
          BY <4>1, <5>2, <5>4, LatchBounds, SMT
        <5> QED BY <4>1, <5>3, <5>5 DEF ReturnOK
      <4> QED BY <2>1, <4>1, <4>2 DEF PulseInv
    <3> QED BY <2>3, <3>1, <3>2, <3>3, <3>4 DEF Driver!DriverEdge
  <2> QED BY <1>1, <1>3, <2>2, <2>3, TickIs
<1>4. CASE CpuWrite \/ UNCHANGED vars
  BY <1>2, <1>4 DEF CpuWrite, vars, driverVars, stripVars, dmaVars
<1>5. ~ResetPress /\ ~ResetRelease
  BY <1>1, SMT DEF ResetPress, ResetRelease
<1> QED BY <1>3, <1>4, <1>5 DEF Next

LEMMA PulseInit == Init => PulseInv
<1> SUFFICES ASSUME Init PROVE PulseInv OBVIOUS
<1>1. /\ reset = 0 /\ ledState = "RET" /\ ledout = 0 /\ high = 0 /\ bits = <<>>
      /\ chain = <<>> /\ ticks = 0 /\ low = 0 /\ atAddress = BaseAddress
      /\ dmaState = "idle"
  BY DEF Init, Driver!DriverInit, Strip!StripInit, Dma!DmaInit
<1> QED BY <1>1 DEF PulseInv, LineOK, BitsOK, ReturnOK

-----------------------------------------------------------------------------
(* The abstract view of a state, by the names FrameSender gives it.        *)
bufferBar == [k \in 0..NumPixels-1 |-> mem[Dma!WordAddress(k)]]
cursorBar ==
  IF ledState = "RET" /\ Len(chain) = NumPixels
    THEN NumPixels
    ELSE (atAddress - BaseAddress) \div Dma!WordBytes
           + (IF dmaState = "finishread" THEN 1 ELSE 0)
sentBar ==
  IF ledState # "RET" /\ Len(chain) = pixelindex THEN Append(chain, regs) ELSE chain

(* The fetcher holds the word of the next pixel. *)
Fetched == dmaState = "finishread" /\ bitindex > 0

View ==
  /\ ledState = "RET" => cursorBar = Len(chain) /\ sentBar = chain
  /\ ledState # "RET" =>
       /\ cursorBar = pixelindex + (IF Fetched THEN 1 ELSE 0)
       /\ sentBar = IF PulseSeen /\ bitindex = LastBit
                      THEN chain ELSE Append(chain, regs)
       /\ Len(sentBar) = pixelindex + 1

(* A pipeline nobody has reset. *)
Steady == PipelineInv /\ PulseInv /\ resets = 0

LEMMA AbstractView == Steady => View
<1> SUFFICES ASSUME PipelineInv, PulseInv, resets = 0 PROVE View
  BY DEF Steady
<1>1. /\ chain \in Seq(Driver!Pixel) /\ regs \in Driver!Pixel
      /\ pixelindex \in 0..NumPixels-1 /\ bitindex \in Nat /\ dmaState \in Dma!DmaStates
      /\ atAddress \in Int /\ atAddress >= BaseAddress
  BY Constants DEF PipelineInv, ControlInv, ControlTypeOK, PixelTypeOK, StripTypeOK,
     AddressOK, Driver!LastBit
<1>2. ASSUME NEW k \in Int PROVE (WordAddress(k) - BaseAddress) \div 4 = k
  BY Constants, SMT DEF WordAddress, Dma!WordAddress, Dma!WordBytes
<1>3. CASE ledState = "RET"
  <2>1. \/ chain = <<>> /\ atAddress = BaseAddress /\ dmaState = "idle"
        \/ Len(chain) = NumPixels
    BY <1>3 DEF PulseInv, ReturnOK
  <2>2. CASE chain = <<>> /\ atAddress = BaseAddress /\ dmaState = "idle"
    <3>1. (atAddress - BaseAddress) \div 4 = 0
      BY <2>2, Constants, SMT
    <3>2. Len(chain) = 0 /\ Len(chain) # NumPixels
      BY <2>2, Constants
    <3> QED BY <1>3, <2>2, <3>1, <3>2 DEF View, cursorBar, sentBar, Dma!WordBytes
  <2>3. CASE Len(chain) = NumPixels
    BY <1>3, <2>3 DEF View, cursorBar, sentBar
  <2> QED BY <1>3, <2>1, <2>2, <2>3
<1>4. CASE ledState # "RET"
  <2>1. /\ bitindex > 0 \/ dmaState = "idle" => atAddress = WordAddress(pixelindex)
        /\ bitindex = 0 /\ dmaState = "finishread" => atAddress = WordAddress(pixelindex - 1)
        /\ dmaState \in {"setmaster", "reading"} => bitindex > 0
    BY <1>1, <1>4, SMT DEF PipelineInv, ControlInv, AddressOK, Position, SignalsOK
  <2>2. cursorBar = (atAddress - BaseAddress) \div 4
                      + (IF dmaState = "finishread" THEN 1 ELSE 0)
    BY <1>4 DEF cursorBar, Dma!WordBytes
  <2>3. cursorBar = pixelindex + (IF Fetched THEN 1 ELSE 0)
    <3>1. CASE bitindex > 0 \/ dmaState = "idle"
      <4>1. (atAddress - BaseAddress) \div 4 = pixelindex
        BY <1>1, <1>2, <2>1, <3>1
      <4> QED BY <1>1, <2>2, <3>1, <4>1 DEF Fetched
    <3>2. CASE bitindex = 0 /\ dmaState = "finishread"
      <4>1. (atAddress - BaseAddress) \div 4 = pixelindex - 1
        BY <1>1, <1>2, <2>1, <3>2
      <4> QED BY <1>1, <2>2, <3>2, <4>1 DEF Fetched
    <3> QED BY <1>1, <2>1, <3>1, <3>2 DEF Dma!DmaStates
  <2>4. CASE PulseSeen /\ bitindex = LastBit
    <3>1. Len(chain) = pixelindex + 1
      BY <1>4, <2>4 DEF PulseInv, BitsOK
    <3>2. sentBar = chain
      BY <1>1, <3>1 DEF sentBar
    <3> QED BY <1>4, <2>3, <2>4, <3>1, <3>2 DEF View
  <2>5. CASE ~(PulseSeen /\ bitindex = LastBit)
    <3>1. Len(chain) = pixelindex
      BY <1>4, <2>5 DEF PulseInv, BitsOK
    <3>2. sentBar = Append(chain, regs)
      BY <1>4, <3>1 DEF sentBar
    <3>3. Len(sentBar) = pixelindex + 1
      BY <1>1, <3>1, <3>2
    <3> QED BY <1>4, <2>3, <2>5, <3>2, <3>3 DEF View
  <2> QED BY <2>4, <2>5
<1> QED BY <1>3, <1>4 DEF View

LEMMA ViewNext == Steady' => View'
  BY AbstractView, PTL

(* The steps of FrameSender, seen from the pipeline. *)
SendBar ==
  /\ Len(sentBar) < NumPixels /\ cursorBar = Len(sentBar)
  /\ sentBar' = Append(sentBar, rgb)
  /\ UNCHANGED <<cursorBar, rgb, shown>>

FetchBar ==
  /\ cursorBar < NumPixels /\ Len(sentBar) = cursorBar + 1
  /\ rgb' = bufferBar[cursorBar]
  /\ cursorBar' = cursorBar + 1
  /\ UNCHANGED <<sentBar, shown>>

LatchBar ==
  /\ cursorBar = NumPixels /\ Len(sentBar) = NumPixels
  /\ shown' = [k \in 0..NumPixels-1 |-> sentBar[k+1]]
  /\ sentBar' = <<>> /\ cursorBar' = 0
  /\ UNCHANGED rgb

StutterBar == UNCHANGED <<cursorBar, rgb, sentBar, shown>>

(* An edge that leaves the driver in the pixel it sends. *)
LEMMA FetchOrNot ==
  ASSUME Steady, Steady', Tick,
         ledState # "RET", ledState' # "RET", shown' = shown, sentBar' = sentBar,
         pixelindex' = pixelindex, bitindex' \in {bitindex, bitindex + 1},
         dmaState = "finishread" /\ bitindex = 0 => bitindex' = 0
  PROVE  FetchBar \/ StutterBar
<1>1. PipelineInv /\ reset = 0 /\ resets = 0
  BY DEF Steady, PulseInv
<1>2. /\ cursorBar = pixelindex + (IF Fetched THEN 1 ELSE 0)
      /\ Len(sentBar) = pixelindex + 1
  BY AbstractView DEF View
<1>3. cursorBar' = pixelindex + (IF Fetched' THEN 1 ELSE 0)
  BY ViewNext DEF View
<1>4. pixelindex \in 0..NumPixels-1 /\ bitindex \in Nat
  BY <1>1, Constants DEF PipelineInv, ControlInv, ControlTypeOK, Driver!LastBit
<1>5. CASE /\ dmaState = "reading" /\ dmaState' = "finishread" /\ rgb' = mem[atAddress]
  <2>1. bitindex > 0 /\ atAddress = Dma!WordAddress(pixelindex)
    BY <1>1, <1>5, SMT DEF PipelineInv, ControlInv, SignalsOK, BusOK, AddressOK, Position, WordAddress
  <2>2. ~Fetched /\ Fetched'
    BY <1>4, <1>5, <2>1 DEF Fetched
  <2>3. cursorBar = pixelindex /\ cursorBar' = pixelindex + 1
    BY <1>2, <1>3, <1>4, <2>2
  <2>4. rgb' = bufferBar[cursorBar]
    BY <1>4, <1>5, <2>1, <2>3 DEF bufferBar
  <2> QED BY <1>2, <1>4, <2>3, <2>4, Constants DEF FetchBar
<1>6. CASE /\ rgb' = rgb
           /\ dmaState' = "finishread" => dmaState = "finishread"
           /\ dmaState = "finishread" =>
                dmaState' = "finishread" \/ (getnext = 0 /\ dmaState' = "idle")
  <2>1. getnext = 0 => ~(bitindex > 0)
    BY <1>1, <1>4, SMT DEF PipelineInv, ControlInv, SignalsOK
  <2>2. Fetched' <=> Fetched
    BY <1>4, <1>6, <2>1 DEF Fetched
  <2> QED BY <1>2, <1>3, <1>6, <2>2 DEF StutterBar
<1> QED BY <1>1, <1>5, <1>6, FetcherStep

(* In RET the view follows the strip. *)
LEMMA ReturnView ==
  ASSUME Steady, Steady', Tick, ledState = "RET", ledState' = "RET"
  PROVE  /\ cursorBar = Len(chain) /\ sentBar = chain
         /\ cursorBar' = Len(chain') /\ sentBar' = chain'
         /\ rgb' = rgb
<1>1. PipelineInv /\ reset = 0 /\ resets = 0
  BY DEF Steady, PulseInv
<1>2. cursorBar = Len(chain) /\ sentBar = chain
  BY AbstractView DEF View
<1>3. cursorBar' = Len(chain') /\ sentBar' = chain'
  BY ViewNext DEF View
<1>4. rgb' = rgb
  BY <1>1, FetcherStep, NotFetchedInReturn
<1> QED BY <1>2, <1>3, <1>4

LEMMA QuietEdge ==
  ASSUME Steady, Steady', Tick, UNCHANGED <<driverVars, stripVars>>
  PROVE  FetchBar \/ StutterBar
<1>1. UNCHANGED <<ledState, bitindex, pixelindex, regs, chain, shown>>
  BY DEF driverVars, stripVars
<1>2. CASE ledState = "RET"
  BY <1>1, <1>2, ReturnView DEF StutterBar
<1>3. CASE ledState # "RET"
  <2>1. sentBar' = sentBar
    BY <1>1 DEF sentBar
  <2> QED BY <1>1, <1>3, <2>1, FetchOrNot
<1> QED BY <1>2, <1>3

LEMMA InBitEdge ==
  ASSUME Steady, Steady', Tick, Strip!StripEdge, Driver!HighPulse \/ Driver!LowRest
  PROVE  FetchBar \/ StutterBar
<1>1. PipelineInv /\ PulseInv
  BY DEF Steady
<1>2. /\ ledState # "RET" /\ ledState' # "RET" /\ shown' = shown
      /\ UNCHANGED <<regs, bitindex, pixelindex>>
      /\ IF PulseSeen' /\ ~PulseSeen /\ bitindex = LastBit
           THEN Len(chain) = pixelindex /\ chain' = Append(chain, regs)
           ELSE chain' = chain
  BY <1>1, WithinBit
<1>3. /\ chain \in Seq(Driver!Pixel) /\ regs \in Driver!Pixel
      /\ pixelindex \in 0..NumPixels-1
  BY <1>1 DEF PipelineInv, ControlInv, ControlTypeOK, PixelTypeOK, StripTypeOK
<1>4. sentBar' = sentBar
  <2>1. CASE Len(chain) = pixelindex /\ chain' = Append(chain, regs)
    <3>1. Len(chain') # pixelindex'
      BY <1>2, <1>3, <2>1
    <3> QED BY <1>2, <2>1, <3>1 DEF sentBar
  <2>2. CASE chain' = chain
    BY <1>2, <2>2 DEF sentBar
  <2> QED BY <1>2, <2>1, <2>2
<1> QED BY <1>2, <1>4, FetchOrNot

LEMMA NextBitEdge ==
  ASSUME Steady, Steady', Tick, Strip!StripEdge, Driver!NextBit
  PROVE  FetchBar \/ StutterBar
<1>1. PipelineInv /\ PipelineInv' /\ PulseInv
  BY DEF Steady
<1>2. shown' = shown /\ chain' = chain /\ ledState # "RET"
  BY <1>1, BitEnds
<1>3. /\ ledState' # "RET" /\ bitindex' = bitindex + 1 /\ UNCHANGED <<regs, pixelindex>>
      /\ ticks = 25 /\ ledState = "BL"
  BY <1>1, SMT DEF Driver!NextBit, Driver!StateOfBit, Driver!BitTicks, PipelineInv,
     ControlInv, ControlTypeOK
<1>4. sentBar' = sentBar
  BY <1>2, <1>3 DEF sentBar
<1>5. ~(dmaState = "finishread" /\ bitindex = 0)
  <2>1. /\ ledState # "RET" => (getnext = 1 <=> bitindex > 0)
        /\ dmaState = "finishread" /\ getnext = 0 => ElapsedInBit <= 2
        /\ getnext \in {0, 1}
    BY <1>1 DEF PipelineInv, ControlInv, SignalsOK, ProgressOK, ControlTypeOK
  <2>2. ElapsedInBit \in Int /\ ElapsedInBit >= 50
    BY <1>3, SMT DEF ElapsedInBit, ClkSinceLed
  <2> QED BY <1>2, <2>1, <2>2, SMT
<1> QED BY <1>2, <1>3, <1>4, <1>5, FetchOrNot

(* The next pixel is latched: it has been fetched. *)
LEMMA NextPixelEdge ==
  ASSUME Steady, Steady', Tick, Strip!StripEdge, Driver!NextPixel
  PROVE  SendBar \/ StutterBar
<1>1. PipelineInv /\ PipelineInv' /\ PulseInv /\ reset = 0 /\ resets = 0
  BY DEF Steady, PulseInv
<1>2. shown' = shown /\ chain' = chain /\ PulseSeen /\ ledState # "RET"
  BY <1>1, BitEnds
<1>3. /\ bitindex = LastBit /\ ticks = 25 /\ bitindex' = 0 /\ regs' = rgb
      /\ ledState = "BL" /\ LastBit > 0
      /\ pixelindex \in 0..NumPixels-1 /\ chain \in Seq(Driver!Pixel)
  BY <1>1, Constants, SMT DEF Driver!NextPixel, Driver!BitTicks, Driver!LatchPixel,
     PipelineInv, ControlInv, ControlTypeOK, StripTypeOK, LastBit, Driver!LastBit
<1>4. dmaState = "finishread"
  BY <1>1, <1>3, InTime DEF PipelineInv, LastBit, FetchedInTime, Driver!BitTicks
<1>5. rgb' = rgb
  BY <1>1, <1>4, FetcherStep
<1>6. cursorBar = pixelindex + 1 /\ sentBar = chain /\ Len(chain) = pixelindex + 1
  BY <1>2, <1>3, <1>4, AbstractView DEF View, Fetched
<1>7. CASE pixelindex = NumPixels - 1
  <2>1. ledState' = "RET"
    BY <1>7 DEF Driver!NextPixel
  <2>2. cursorBar' = Len(chain) /\ sentBar' = chain
    BY <1>2, <2>1, ViewNext DEF View
  <2> QED BY <1>2, <1>5, <1>6, <2>2 DEF StutterBar
<1>8. CASE pixelindex # NumPixels - 1
  <2>1. ledState' # "RET" /\ pixelindex' = pixelindex + 1
    BY <1>8 DEF Driver!NextPixel, Driver!StateOfBit
  <2>2. /\ cursorBar' = pixelindex' + (IF Fetched' THEN 1 ELSE 0)
        /\ sentBar' = IF PulseSeen' /\ bitindex' = LastBit
                        THEN chain' ELSE Append(chain', regs')
    BY <2>1, ViewNext DEF View, LastBit, Driver!LastBit
  <2>3. ~Fetched'
    BY <1>3 DEF Fetched
  <2>4. cursorBar' = pixelindex + 1 /\ sentBar' = Append(chain, rgb)
    BY <1>2, <1>3, <2>1, <2>2, <2>3
  <2> QED BY <1>2, <1>3, <1>5, <1>6, <1>8, <2>4, Constants DEF SendBar
<1> QED BY <1>7, <1>8

LEMMA FrameStartEdge ==
  ASSUME Steady, Steady', Tick, Strip!StripEdge, Driver!FrameStart
  PROVE  SendBar
<1>1. PipelineInv /\ PipelineInv' /\ PulseInv /\ reset = 0 /\ resets = 0
  BY DEF Steady, PulseInv
<1>2. /\ UNCHANGED <<chain, shown>> /\ chain = <<>> /\ dmaState = "idle"
      /\ ledState = "RET" /\ ledState' # "RET" /\ pixelindex' = 0 /\ regs' = rgb
  BY <1>1, FrameStarts
<1>3. bitindex' = 0 /\ LastBit > 0
  BY Constants, SMT DEF Driver!FrameStart, LastBit, Driver!LastBit
<1>4. rgb' = rgb
  BY <1>1, <1>2, FetcherStep
<1>5. cursorBar = 0 /\ sentBar = <<>>
  BY <1>2, AbstractView DEF View
<1>6. /\ cursorBar' = pixelindex' + (IF Fetched' THEN 1 ELSE 0)
      /\ sentBar' = IF PulseSeen' /\ bitindex' = LastBit
                      THEN chain' ELSE Append(chain', regs')
  BY <1>2, ViewNext DEF View, LastBit, Driver!LastBit
<1>7. cursorBar' = 0 /\ sentBar' = Append(<<>>, rgb)
  BY <1>2, <1>3, <1>6 DEF Fetched
<1> QED BY <1>2, <1>4, <1>5, <1>7, Constants DEF SendBar

LEMMA ReturnEdge ==
  ASSUME Steady, Steady', Tick, Strip!StripEdge, Driver!ReturnWait
  PROVE  LatchBar \/ StutterBar
<1>1. PipelineInv /\ PipelineInv' /\ PulseInv /\ reset = 0 /\ resets = 0
  BY DEF Steady, PulseInv
<1>2. /\ ledState = "RET" /\ ledState' = "RET"
      /\ \/ UNCHANGED <<chain, shown>>
         \/ /\ chain' = <<>>
            /\ shown' = [k \in 0..NumPixels-1 |->
                           IF k < Len(chain) THEN chain[k+1] ELSE shown[k]]
  BY <1>1, ReturnWaits
<1>3. /\ cursorBar = Len(chain) /\ sentBar = chain
      /\ cursorBar' = Len(chain') /\ sentBar' = chain' /\ rgb' = rgb
  BY <1>2, ReturnView
<1>4. CASE UNCHANGED <<chain, shown>>
  BY <1>3, <1>4 DEF StutterBar
<1>5. CASE /\ chain' = <<>>
           /\ shown' = [k \in 0..NumPixels-1 |->
                          IF k < Len(chain) THEN chain[k+1] ELSE shown[k]]
  <2>1. chain = <<>> \/ Len(chain) = NumPixels
    BY <1>1, <1>2 DEF PulseInv, ReturnOK
  <2>2. CASE chain = <<>>
    <3>1. shown' = [k \in 0..NumPixels-1 |-> shown[k]]
      BY <1>5, <2>2, SMT
    <3>2. shown' = shown
      BY <1>1, <3>1 DEF PipelineInv, StripTypeOK
    <3> QED BY <1>3, <1>5, <2>2, <3>2 DEF StutterBar
  <2>3. CASE Len(chain) = NumPixels
    <3>1. shown' = [k \in 0..NumPixels-1 |-> sentBar[k+1]]
      BY <1>3, <1>5, <2>3, Constants, SMT
    <3> QED BY <1>3, <1>5, <2>3, <3>1 DEF LatchBar
  <2> QED BY <2>1, <2>2, <2>3
<1> QED BY <1>2, <1>4, <1>5

StoreBar ==
  /\ \E k \in 0..NumPixels-1, w \in Words : bufferBar' = [bufferBar EXCEPT ![k] = w]
  /\ UNCHANGED <<cursorBar, rgb, sentBar, shown>>

LEMMA TickSteps ==
  ASSUME Steady, Steady', Tick
  PROVE  /\ FetchBar \/ SendBar \/ LatchBar \/ StutterBar
         /\ bufferBar' = bufferBar
<1>1. PipelineInv /\ reset = 0 /\ resets = 0
  BY DEF Steady, PulseInv
<1>2. bufferBar' = bufferBar
  BY <1>1, FetcherStep DEF bufferBar
<1>3. CASE UNCHANGED <<driverVars, stripVars>>
  BY <1>2, <1>3, QuietEdge
<1>4. CASE Driver!DriverEdge /\ Strip!StripEdge
  BY <1>2, <1>4, InBitEdge, NextBitEdge, NextPixelEdge, FrameStartEdge, ReturnEdge
     DEF Driver!DriverEdge
<1> QED BY <1>1, <1>3, <1>4, TickIs

(* The word behind the buffer is no word of the buffer. *)
LEMMA WriteStores ==
  ASSUME Steady, CpuWrite
  PROVE  StoreBar \/ (bufferBar' = bufferBar /\ StutterBar)
<1>1. UNCHANGED <<cursorBar, rgb, sentBar, shown>>
  BY DEF CpuWrite, driverVars, dmaVars, stripVars, cursorBar, sentBar
<1>2. PICK a \in BufferAddresses, w \in Words : mem' = [mem EXCEPT ![a] = w]
  BY DEF CpuWrite
<1>3. mem \in [BufferAddresses -> Words]
  BY DEF Steady, PipelineInv, PixelTypeOK
<1>4. PICK j \in 0..NumPixels : a = Dma!WordAddress(j)
  BY DEF BufferAddresses, Dma!BufferAddresses
<1>5. ASSUME NEW k \in 0..NumPixels-1
      PROVE  /\ Dma!WordAddress(k) \in BufferAddresses
             /\ Dma!WordAddress(k) = a <=> k = j
             /\ mem'[Dma!WordAddress(k)] = IF k = j THEN w ELSE mem[Dma!WordAddress(k)]
  <2>1. Dma!WordAddress(k) \in BufferAddresses
    BY Constants, SMT DEF BufferAddresses, Dma!BufferAddresses
  <2>2. Dma!WordAddress(k) = a <=> k = j
    BY <1>4, Constants, SMT DEF Dma!WordAddress, Dma!WordBytes
  <2> QED BY <1>2, <1>3, <2>1, <2>2
<1>6. CASE j = NumPixels
  <2>1. ASSUME NEW k \in 0..NumPixels-1
        PROVE  mem'[Dma!WordAddress(k)] = mem[Dma!WordAddress(k)]
    BY <1>5, <1>6, Constants
  <2>2. bufferBar' = bufferBar
    BY <2>1 DEF bufferBar
  <2> QED BY <1>1, <2>2 DEF StutterBar
<1>7. CASE j # NumPixels
  <2>1. j \in 0..NumPixels-1
    BY <1>4, <1>7, Constants
  <2>2. bufferBar' = [bufferBar EXCEPT ![j] = w]
    BY <1>5, <2>1 DEF bufferBar
  <2> QED BY <1>1, <2>1, <2>2 DEF StoreBar
<1> QED BY <1>6, <1>7

LEMMA StartsAbstract == Init => Abstract!Init
<1> SUFFICES ASSUME Init PROVE Abstract!Init
  OBVIOUS
<1>1. /\ mem \in [BufferAddresses -> Words] /\ ledState = "RET" /\ chain = <<>>
      /\ dmaState = "idle" /\ atAddress = BaseAddress /\ rgb = Driver!Black
      /\ shown = [k \in 0..NumPixels-1 |-> Driver!Black]
  BY DEF Init, Driver!DriverInit, Strip!StripInit, Dma!DmaInit
<1>2. cursorBar = 0 /\ sentBar = <<>>
  <2>1. Len(chain) = 0 /\ NumPixels # 0
    BY <1>1, Constants
  <2>2. (atAddress - BaseAddress) \div 4 = 0
    BY <1>1, Constants, SMT
  <2> QED BY <1>1, <2>1, <2>2 DEF cursorBar, sentBar, Dma!WordBytes
<1>3. bufferBar \in [0..NumPixels-1 -> Words]
  <2>1. \A k \in 0..NumPixels-1 : Dma!WordAddress(k) \in BufferAddresses
    BY Constants, SMT DEF BufferAddresses, Dma!BufferAddresses
  <2> QED BY <1>1, <2>1 DEF bufferBar
<1> QED BY <1>1, <1>2, <1>3 DEF Abstract!Init, bufferBar, cursorBar, sentBar

(* Without a reset every step of the pipeline, down to the pulses on the   *)
(* line, is a step of FrameSender or none: a word is fetched once and sent *)
(* in its turn, the fetch is over before the word is due, and the strip    *)
(* latches whole frames only.                                              *)
THEOREM Implementation ==
  ASSUME MaxResets = 0
  PROVE  Spec => ImplementsFrameSender
<1>1. PipelineInv => resets = 0
  BY Constants DEF PipelineInv, ControlInv, ControlTypeOK
<1>2. PipelineInv /\ PipelineInv' /\ PulseInv /\ [Next]_vars => PulseInv'
  BY PulseNext
<1>3. PipelineInv /\ PipelineInv' /\ PulseInv /\ PulseInv' /\ [Next]_vars
        => [Abstract!Next]_(Abstract!vars)
  <2> SUFFICES ASSUME PipelineInv, PipelineInv', PulseInv, PulseInv', [Next]_vars
               PROVE  [Abstract!Next]_(Abstract!vars)
    OBVIOUS
  <2>1. Steady /\ Steady'
    BY <1>1, Constants DEF Steady, PipelineInv, ControlInv, ControlTypeOK
  <2>2. \/ StoreBar
        \/ bufferBar' = bufferBar /\ (FetchBar \/ SendBar \/ LatchBar \/ StutterBar)
    <3>1. CASE Tick
      BY <2>1, <3>1, TickSteps
    <3>2. CASE CpuWrite
      BY <2>1, <3>2, WriteStores
    <3>3. CASE UNCHANGED vars
      BY <3>3 DEF vars, envVars, driverVars, dmaVars, stripVars,
         bufferBar, cursorBar, sentBar, StutterBar
    <3>4. ~ResetPress /\ ~ResetRelease
      BY <1>1, SMT DEF ResetPress, ResetRelease, PulseInv
    <3> QED BY <3>1, <3>2, <3>3, <3>4 DEF Next
  <2> QED
    BY <2>2 DEF StoreBar, FetchBar, SendBar, LatchBar, StutterBar, Abstract!Next,
       Abstract!Store, Abstract!Fetch, Abstract!Send, Abstract!Latch, Abstract!vars,
       bufferBar, cursorBar, sentBar
<1> QED BY <1>2, <1>3, PulseInit, StartsAbstract, Invariant, PTL
        DEF Spec, ImplementsFrameSender, Abstract!Spec
=============================================================================
