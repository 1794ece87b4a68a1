----------------------------- MODULE PpuProofs -----------------------------
(***************************************************************************)
(* The PPU for every choice of its literals that LiteralsAssumption allows.*)
(* InStep is inductive once the types are known; from it follow that no    *)
(* counter overflows its u8, that lines are drawn whole, and that every    *)
(* tick is a step of the raster.                                           *)
(***************************************************************************)
EXTENDS Ppu, TLAPS

IInv == TypeOK /\ InStep

(* The initial state satisfies the invariant. *)
LEMMA InitEstablishesIInv == Init => IInv
BY LiteralsAssumption DEF Init, IInv, TypeOK, InStep, PPUState

(* Every tick, in whichever mode, preserves the invariant. *)
LEMMA NextPreservesIInv == IInv /\ [Next]_vars => IInv'
<1> SUFFICES ASSUME IInv, [Next]_vars PROVE IInv'
  OBVIOUS
<1> USE LiteralsAssumption DEF IInv, TypeOK, InStep, PPUState
<1>1. CASE OAMSearch
  BY <1>1 DEF OAMSearch
<1>2. CASE PixelTransfer
  BY <1>2 DEF PixelTransfer
<1>3. CASE HBlank
  BY <1>3 DEF HBlank
<1>4. CASE VBlank
  BY <1>4 DEF VBlank
<1>5. CASE UNCHANGED vars
  BY <1>5 DEF vars
<1> QED
  BY <1>1, <1>2, <1>3, <1>4, <1>5 DEF Next

(* u8 counters of ppu.zig never overflow, and the mode and the counters    *)
(* always agree: PPU.tick cannot miss one of its equality tests.           *)
THEOREM Consistent == Spec => [](TypeOK /\ InStep)
<1>1. Init => IInv
  BY InitEstablishesIInv
<1>2. IInv /\ [Next]_vars => IInv'
  BY NextPreservesIInv
<1> QED
  BY <1>1, <1>2, PTL DEF Spec, IInv

(* LY moves on only from a line of which every pixel was transferred. *)
THEOREM WholeLines == Spec => LinesAreWhole
<1> DEFINE Whole == LY' # LY => /\ cycleCount = LineCycles - 1
                                /\ pixelCount = LinePixels
                                /\ LY' = 0 => LY = FrameLines - 1
<1>1. IInv /\ [Next]_vars => [Whole]_vars
  BY LiteralsAssumption
     DEF IInv, TypeOK, InStep, PPUState, Next, OAMSearch, PixelTransfer, HBlank, VBlank
<1>2. Spec => []IInv
  BY Consistent DEF IInv
<1> QED
  BY <1>1, <1>2, PTL DEF Spec, LinesAreWhole

----------------------------------------------------------------------------
(* Refinement of the raster, one lemma per mode. *)

(* The four cases of the raster's mode. *)
LEMMA ModeCases ==
  ASSUME NEW l \in Nat, NEW d \in Nat
  PROVE  /\ l >= VisibleLines => Beam!ModeAt(l, d) = "VBlank"
         /\ l < VisibleLines /\ d < SearchCycles => Beam!ModeAt(l, d) = "OAMSearch"
         /\ l < VisibleLines /\ d >= SearchCycles /\ d < SearchCycles + LinePixels
              => Beam!ModeAt(l, d) = "PixelTransfer"
         /\ l < VisibleLines /\ d >= SearchCycles + LinePixels
              => Beam!ModeAt(l, d) = "HBlank"
BY LiteralsAssumption DEF Beam!ModeAt

(* A dot of a line that is not its last one. *)
LEMMA NextDot ==
  ASSUME IInv, cycleCount + 1 < LineCycles, cycleCount' = cycleCount + 1,
         LY' = LY, State' = Beam!ModeAt(LY, cycleCount + 1)
  PROVE  Beam!Advance
<1>1. (cycleCount + 1) % LineCycles = cycleCount + 1
  BY LiteralsAssumption DEF IInv, TypeOK
<1> QED
  BY <1>1 DEF Beam!Advance, IInv, TypeOK

(* The last dot of a line. *)
LEMMA NextLine ==
  ASSUME IInv, LY < FrameLines, cycleCount + 1 = LineCycles, cycleCount' = 0,
         LY' = IF LY + 1 = FrameLines THEN 0 ELSE LY + 1,
         State' = Beam!ModeAt(LY', 0)
  PROVE  Beam!Advance
<1>1. (cycleCount + 1) % LineCycles = 0
  BY LiteralsAssumption
<1>2. (LY + 1) % FrameLines = LY'
  BY LiteralsAssumption DEF IInv, TypeOK
<1> QED
  BY <1>1, <1>2 DEF Beam!Advance

(* Every tick moves the beam on by one dot. *)
LEMMA TickAdvancesBeam == IInv /\ Next => Beam!Advance
<1> SUFFICES ASSUME IInv, Next PROVE Beam!Advance
  OBVIOUS
<1> USE LiteralsAssumption DEF IInv, TypeOK, InStep, PPUState
<1>0. LY \in Nat /\ cycleCount + 1 \in Nat
  OBVIOUS
<1>1. CASE OAMSearch
  BY <1>0, <1>1, NextDot, ModeCases DEF OAMSearch
<1>2. CASE PixelTransfer
  BY <1>0, <1>2, NextDot, ModeCases DEF PixelTransfer
<1>3. CASE HBlank
  <2>1. CASE cycleCount + 1 = LineCycles
    BY <1>0, <1>3, <2>1, NextLine, ModeCases DEF HBlank
  <2>2. CASE cycleCount + 1 # LineCycles
    BY <1>0, <1>3, <2>2, NextDot, ModeCases DEF HBlank
  <2> QED
    BY <2>1, <2>2
<1>4. CASE VBlank
  <2>1. CASE cycleCount + 1 = LineCycles
    BY <1>0, <1>4, <2>1, NextLine, ModeCases DEF VBlank
  <2>2. CASE cycleCount + 1 # LineCycles
    BY <1>0, <1>4, <2>2, NextDot, ModeCases DEF VBlank
  <2> QED
    BY <2>1, <2>2
<1> QED
  BY <1>1, <1>2, <1>3, <1>4 DEF Next

(* The PPU implements the raster: the safety part of ImplementsRaster. *)
THEOREM RefinesRaster == Spec => Beam!Init /\ [][Beam!Advance]_(Beam!vars)
<1>1. Init => Beam!Init
  BY LiteralsAssumption DEF Init, Beam!Init, Beam!ModeAt
<1>2. IInv /\ [Next]_vars => [Beam!Advance]_(Beam!vars)
  BY TickAdvancesBeam DEF vars, Beam!vars
<1>3. Spec => []IInv
  BY Consistent DEF IInv
<1> QED
  BY <1>1, <1>2, <1>3, PTL DEF Spec

=============================================================================
