---------------------------- MODULE PixelDriver ----------------------------
(***************************************************************************)
(* How a colour gets to the LED: the assembly loops doPixel and doAPA106   *)
(* of src/ethWs2812Driver.cpp, bit by bit.  The lengths of the pulses tell *)
(* a one from a zero, so interrupts are masked while the pin is high, and  *)
(* each wait polls the processor's cycle counter CCOUNT against a          *)
(* finishing time.  The comparison (BGE) is signed, so CCOUNT is modelled  *)
(* as BGE reads it: from -Half up to Half - 1, and then -Half again.       *)
(***************************************************************************)
EXTENDS Integers, Sequences

CONSTANTS
  Bits,       \* length of the data: a multiple of 8 in the code
  HighOne, HighZero, LowOne, LowZero,  \* cycles the pin is high for a bit, and low after it
  Threshold,  \* the LED reads a longer pulse as a one
  PollCycles, \* one turn of a waiting loop
  IsrCycles,  \* longest interrupt handler that runs between two bits
  Half,       \* 2^31: half the values of CCOUNT
  Begins      \* what CCOUNT may be when the driver is called

Cycles == /\ {Bits, PollCycles, Half} \subseteq Nat \ {0}
          /\ {HighOne, HighZero, LowOne, LowZero, Threshold, IsrCycles} \subseteq Nat
          /\ HighZero + PollCycles < Threshold /\ Threshold < HighOne
          /\ Begins \subseteq -Half .. Half - 1

High == [bit \in {0, 1} |-> IF bit = 1 THEN HighOne ELSE HighZero]
Low  == [bit \in {0, 1} |-> IF bit = 1 THEN LowOne ELSE LowZero]
Full == 2 * Half

VARIABLES
  driver,  \* "doPixel" or "doAPA106"
  data,    \* the bits, most significant first
  sent,    \* bits whose pulse is over
  phase,   \* "bit", "high", "low", "done"
  masked,  \* RSIL 15
  ccount, until, \* CCOUNT, cc1 (or cc3)
  waited,  \* history: cycles since the wait began
  read,    \* history: what the LED has read
  crossed  \* history: CCOUNT or a finishing time has gone from Half - 1 to -Half

vars == <<driver, data, sent, phase, masked, ccount, until, waited, read, crossed>>

Bit == data[sent + 1]

Plus(x, k)    == ((x + k + Half) % Full) - Half
Crosses(x, k) == Plus(x, k) # x + k
-----------------------------------------------------------------------------
\* Mutant: waits for the very cycle.
WaitsExactly == until # ccount

\* BGE cc1, cc2: "If finishtime >= nowtime -> loop again"
Waits == until >= ccount

Turn == /\ waited < Full                              \* once round is for ever
        /\ ccount' = Plus(ccount, PollCycles) /\ waited' = waited + PollCycles
        /\ crossed' = (crossed \/ Crosses(ccount, PollCycles))
        /\ UNCHANGED <<driver, data, sent, phase, masked, until, read>>

Set ==                       \* doOne, doZero
  /\ phase = "bit" /\ sent < Bits
  /\ phase' = "high" /\ until' = Plus(ccount, High[Bit]) /\ waited' = 0
  /\ crossed' = (crossed \/ Crosses(ccount, High[Bit]))
  /\ UNCHANGED <<driver, data, sent, masked, ccount, read>>

PollHigh == phase = "high" /\ Waits /\ Turn

\* The pin is cleared.  doPixel then opens a window for interrupts and waits the
\* low time from now; doAPA106 has no window and waits for the end of the bit.
Clear ==
  /\ phase = "high" /\ ~Waits
  /\ phase' = "low"
  /\ read' = Append(read, IF waited >= Threshold THEN 1 ELSE 0)
  /\ waited' = 0
  /\ \E isr \in IF driver = "doPixel" THEN {0, IsrCycles} ELSE {0} :
       LET from == IF driver = "doPixel" THEN ccount ELSE until
       IN  /\ until' = Plus(from, Low[Bit]) /\ ccount' = Plus(ccount, isr)
           /\ crossed' = (crossed \/ Crosses(from, Low[Bit]) \/ Crosses(ccount, isr))
  /\ UNCHANGED <<driver, data, sent, masked>>

PollLow == phase = "low" /\ Waits /\ Turn

NextBit ==
  /\ phase = "low" /\ ~Waits
  /\ phase' = "bit" /\ sent' = sent + 1
  /\ UNCHANGED <<driver, data, masked, ccount, until, waited, read, crossed>>

\* Mutant: as doPixelDouble leaves.
MaskedAtExit == TRUE
MaskAtExit   == FALSE        \* RSIL 0

Exit ==
  /\ phase = "bit" /\ sent = Bits
  /\ phase' = "done" /\ masked' = MaskAtExit
  /\ UNCHANGED <<driver, data, sent, ccount, until, waited, read, crossed>>

Left == phase = "done" /\ UNCHANGED vars

Init == /\ driver \in {"doPixel", "doAPA106"} /\ data \in [1 .. Bits -> {0, 1}]
        /\ sent = 0 /\ phase = "bit" /\ masked = TRUE
        /\ ccount \in Begins /\ until = 0 /\ waited = 0 /\ read = <<>> /\ crossed = FALSE

Next == Set \/ PollHigh \/ Clear \/ PollLow \/ NextBit \/ Exit \/ Left
Spec == Init /\ [][Next]_vars
-----------------------------------------------------------------------------
(* Properties *)

\* A wait ends with the first poll after its finishing time: interrupts are masked
\* meanwhile.  Does not hold: when CCOUNT crosses between two polls, or the finishing
\* time does, "finishtime >= nowtime" is no longer the question that was meant.
WaitBounded == /\ phase = "high" => waited <= High[Bit] + PollCycles
               /\ phase = "low" => waited <= Low[Bit] + PollCycles

\* The LED reads the bits that were sent.  Does not hold either.
ColourArrives == phase = "done" => read = data

\* Both hold as long as neither has crossed, wherever CCOUNT stands otherwise: also
\* where its unsigned value comes round.
InTimeUnlessCrossed == ~crossed => WaitBounded /\ ColourArrives

\* Interrupts come back in any case, if the driver comes to its end.
InterruptsBack == phase = "done" => ~masked
=============================================================================
