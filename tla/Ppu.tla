-------------------------------- MODULE Ppu --------------------------------
(***************************************************************************)
(* ppu.zig: the mode machine of the pixel processing unit.  One tick runs  *)
(* after every instruction of the CPU, whatever the instruction costs, and *)
(* each branch of the switch tests a counter for equality with a literal:  *)
(* a counter that ever stepped over its literal would leave the machine in *)
(* its mode until the counter overflows.                                   *)
(***************************************************************************)
EXTENDS Integers

CONSTANTS SearchCycles,  \* 40:  cycleCount at which OAMSearch ends
          LinePixels,    \* 160: pixelCount at which PixelTransfer ends
          LineCycles,    \* 456: cycleCount at which a line ends
          VisibleLines,  \* 144: LY at which VBlank starts
          FrameLines     \* 153: LY at which the frame ends

(* What the literals of tick satisfy, and all that its correctness needs. *)
ASSUME LiteralsAssumption ==
  /\ SearchCycles \in Nat \ {0}
  /\ LinePixels \in 1 .. \hFF
  /\ LineCycles \in Nat /\ LineCycles > SearchCycles + LinePixels
  /\ VisibleLines \in Nat \ {0}
  /\ FrameLines \in VisibleLines + 1 .. \hFF

VARIABLES State, LY, cycleCount, pixelCount

vars == <<State, LY, cycleCount, pixelCount>>

PPUState == {"OAMSearch", "PixelTransfer", "HBlank", "VBlank"}

Init ==
  /\ State = "OAMSearch"
  /\ LY = 0
  /\ cycleCount = 0
  /\ pixelCount = 0

----------------------------------------------------------------------------
(* tick, one action for each branch of its switch *)

(* Mutant: the pixel counter is not started again. *)
OAMSearch_KeepsPixelCount ==
  /\ State = "OAMSearch"
  /\ cycleCount' = cycleCount + 1
  /\ State' = IF cycleCount' = SearchCycles THEN "PixelTransfer" ELSE State
  /\ UNCHANGED <<pixelCount, LY>>

OAMSearch ==
  /\ State = "OAMSearch"
  /\ cycleCount' = cycleCount + 1
  /\ IF cycleCount' = SearchCycles
     THEN pixelCount' = 0 /\ State' = "PixelTransfer"
     ELSE UNCHANGED <<pixelCount, State>>
  /\ UNCHANGED LY

(* Mutant: the last pixel of a line is not transferred. *)
PixelTransfer_OnePixelShort ==
  /\ State = "PixelTransfer"
  /\ cycleCount' = cycleCount + 1
  /\ pixelCount' = pixelCount + 1
  /\ State' = IF pixelCount' = LinePixels - 1 THEN "HBlank" ELSE State
  /\ UNCHANGED LY

PixelTransfer ==
  /\ State = "PixelTransfer"
  /\ cycleCount' = cycleCount + 1
  /\ pixelCount' = pixelCount + 1
  /\ State' = IF pixelCount' = LinePixels THEN "HBlank" ELSE State
  /\ UNCHANGED LY

(* Mutant: the counter of the line is tested before it is advanced. *)
HBlank_TestsOldCount ==
  /\ State = "HBlank"
  /\ UNCHANGED pixelCount
  /\ IF cycleCount = LineCycles
     THEN /\ cycleCount' = 0
          /\ LY' = LY + 1
          /\ State' = IF LY' = VisibleLines THEN "VBlank" ELSE "OAMSearch"
     ELSE cycleCount' = cycleCount + 1 /\ UNCHANGED <<LY, State>>

HBlank ==
  /\ State = "HBlank"
  /\ UNCHANGED pixelCount
  /\ IF cycleCount + 1 = LineCycles
     THEN /\ cycleCount' = 0
          /\ LY' = LY + 1
          /\ State' = IF LY' = VisibleLines THEN "VBlank" ELSE "OAMSearch"
     ELSE cycleCount' = cycleCount + 1 /\ UNCHANGED <<LY, State>>

(* Mutants: the frame is one line longer; LY wraps, the mode stays. *)
VBlank_OneLineMore ==
  /\ State = "VBlank"
  /\ UNCHANGED pixelCount
  /\ IF cycleCount + 1 = LineCycles
     THEN /\ cycleCount' = 0
          /\ IF LY = FrameLines
             THEN LY' = 0 /\ State' = "OAMSearch"
             ELSE LY' = LY + 1 /\ UNCHANGED State
     ELSE cycleCount' = cycleCount + 1 /\ UNCHANGED <<LY, State>>

VBlank_KeepsMode ==
  /\ State = "VBlank"
  /\ UNCHANGED <<pixelCount, State>>
  /\ IF cycleCount + 1 = LineCycles
     THEN cycleCount' = 0 /\ LY' = (LY + 1) % FrameLines
     ELSE cycleCount' = cycleCount + 1 /\ UNCHANGED LY

VBlank ==
  /\ State = "VBlank"
  /\ UNCHANGED pixelCount
  /\ IF cycleCount + 1 = LineCycles
     THEN /\ cycleCount' = 0
          /\ IF LY + 1 = FrameLines
             THEN LY' = 0 /\ State' = "OAMSearch"
             ELSE LY' = LY + 1 /\ UNCHANGED State
     ELSE cycleCount' = cycleCount + 1 /\ UNCHANGED <<LY, State>>

Next == OAMSearch \/ PixelTransfer \/ HBlank \/ VBlank

(* Core.tick calls tick in every round of the main loop, and tick never    *)
(* waits: the PPU always takes its next step.                              *)
Spec == Init /\ [][Next]_vars /\ WF_vars(Next)

----------------------------------------------------------------------------
(* Types.  LY and pixelCount are u8 whose += is checked for overflow: a    *)
(* value outside the type is a panic of the emulator.                      *)
TypeOK ==
  /\ State \in PPUState
  /\ LY \in 0 .. \hFF
  /\ cycleCount \in Nat
  /\ pixelCount \in 0 .. \hFF

(* Where the beam is decides everything: in PixelTransfer the two counters *)
(* run in step, and no counter is past the literal its mode waits for.     *)
InStep ==
  /\ State = "OAMSearch"     => LY < VisibleLines /\ cycleCount < SearchCycles
  /\ State = "PixelTransfer" => /\ LY < VisibleLines
                                /\ pixelCount < LinePixels
                                /\ cycleCount = SearchCycles + pixelCount
  /\ State = "HBlank"        => /\ LY < VisibleLines
                                /\ pixelCount = LinePixels
                                /\ cycleCount >= SearchCycles + LinePixels
                                /\ cycleCount < LineCycles
  /\ State = "VBlank"        => /\ LY >= VisibleLines
                                /\ LY < FrameLines
                                /\ pixelCount = LinePixels
                                /\ cycleCount < LineCycles

(* A line is left only when all of it was drawn: LY advances from a        *)
(* visible line only with LinePixels pixels transferred and LineCycles     *)
(* ticks spent, and the frame wraps only from the last line.               *)
LinesAreWhole ==
  [][LY' # LY => /\ cycleCount = LineCycles - 1
                 /\ pixelCount = LinePixels
                 /\ LY' = 0 => LY = FrameLines - 1]_vars

(* The PPU implements the raster: SearchCycles + LinePixels is where the   *)
(* drawing ends, FrameLines how many lines there are.                      *)
Beam == INSTANCE Raster WITH
          Lines <- FrameLines, Dots <- LineCycles, Visible <- VisibleLines,
          SearchEnd <- SearchCycles, DrawEnd <- SearchCycles + LinePixels,
          line <- LY, dot <- cycleCount, mode <- State

ImplementsRaster == Beam!Spec

(* No mode is entered for ever: frames keep being finished and started.    *)
FramesKeepComing == []<>(State = "VBlank") /\ []<>(State = "OAMSearch" /\ LY = 0)

=============================================================================
