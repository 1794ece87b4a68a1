-------------------------------- MODULE Core --------------------------------
(***************************************************************************)
(* core.zig: one tick of the system.  The processor executes one           *)
(* instruction, the PPU makes one step, the debugger's script runs, and    *)
(* the emulation ends when PC has reached 0x100, where the boot ROM hands  *)
(* over to the cartridge.  The script is the one of the repository, whose  *)
(* step function is empty.                                                 *)
(***************************************************************************)
EXTENDS Cpu

VARIABLES State, LY, cycleCount, pixelCount,  \* the PPU
          ended                               \* "no", or what tick returned

ppu == INSTANCE Ppu WITH
         SearchCycles <- 40, LinePixels <- 160, LineCycles <- 456,
         VisibleLines <- 144, FrameLines <- 153

ppuVars  == <<State, LY, cycleCount, pixelCount>>
coreVars == <<vars, ppuVars, ended>>

InitCore == Init /\ ppu!Init /\ ended = "no"

(* An error of the processor skips the PPU; a panic or exit ends at once.  *)
tick ==
  /\ ended = "no"
  /\ Next
  /\ IF result' = "ok"
     THEN ppu!Next /\ ended' = IF PC' = \h100 THEN "YouSuck" ELSE "no"
     ELSE UNCHANGED ppuVars /\ ended' = result'

(* main calls tick until it fails.  The quit event of the window, which    *)
(* ends the loop as well, is left out. *)
CoreSpec == InitCore /\ [][tick]_coreVars /\ WF_coreVars(tick)

----------------------------------------------------------------------------
(* The registers after power-on, with nothing but the ROMs loaded. *)
PowerOn(image) ==
  [PC |-> 0, SP |-> 0, F |-> ClearFlags, r |-> [k \in Reg8 |-> 0],
   mmu |-> InitialMemory(image)]

(* The header of a cartridge as the boot ROM accepts it: the 48 bytes of   *)
(* the logo at 0x104 repeat those at 0xA8 of the boot ROM, and the 26      *)
(* bytes from 0x134, and 0x19, add up to zero in eight bits. *)
HeaderBytes(image, n) ==
  LET sum[k \in 0 .. n] == IF k = 0 THEN 0 ELSE sum[k - 1] + RomByte(image, \h133 + k)
  IN  sum[n]

HasLogo(image)     == \A k \in 0 .. 47 : RomByte(image, \h104 + k) = Bootrom[\hA9 + k]
HasChecksum(image) == Wrap8(HeaderBytes(image, 26) + \h19) = 0
Accepted(image)    == HasLogo(image) /\ HasChecksum(image)

(* The boot ROM lets only an accepted cartridge through ...                *)
OnlyAcceptedBoots == ended = "YouSuck" => Accepted(mmu.image)

(* ... lets it through in the end, whatever the PPU does meanwhile ...     *)
AcceptedBoots == Accepted(mmu.image) => <>(ended = "YouSuck")

(* ... and hands over a machine with an empty stack, without the overlay,  *)
(* HL at the header's checksum, and the scroll register back at the top.    *)
HandsOver ==
  ended = "YouSuck" =>
    /\ PC = \h100 /\ SP = \hFFFE /\ r[7] = 1 /\ HL = \h14D
    /\ ~mmu.inBootrom /\ mmu.scy = 0

=============================================================================
