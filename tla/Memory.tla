------------------------------- MODULE Memory -------------------------------
(***************************************************************************)
(* mmu.zig: the memory of the emulator as a value, and the decoding of an  *)
(* address that read8 and write8 share.                                    *)
(*                                                                         *)
(* The Zig struct holds seven arrays.  Bootrom and ROM are filled once, by *)
(* main, before the emulation starts: they are the constants Bootrom and   *)
(* Cartridge, and the field image says which cartridge is inserted.  The   *)
(* writable arrays are one sparse function: ram maps the array cells       *)
(* <<array, index>> that are not zero to their bytes, so that equal        *)
(* memories are equal values.                                              *)
(***************************************************************************)
EXTENDS Bytes

CONSTANTS Images,     \* names of cartridges
          Bootrom,    \* the bytes of the boot ROM, a sequence
          Cartridge   \* for each image, the bytes of the cartridge's ROM

ASSUME RomAssumption ==
  /\ \A a \in DOMAIN Bootrom : Bootrom[a] \in Byte
  /\ \A i \in Images : \A a \in DOMAIN Cartridge[i] : Cartridge[i][a] \in Byte

(* The lengths of the writable arrays.  OAM has 0x9F bytes. *)
Length == [VRAM |-> \h8000, ERAM |-> \h8000, WRAM |-> \h4000,
           OAM |-> \h9F, HRAM |-> 128]

InitialMemory(image) ==
  [image |-> image, ram |-> <<>>, inBootrom |-> TRUE,
   interruptsEnabled |-> FALSE, scy |-> 0]

----------------------------------------------------------------------------
(* The regions of the address space that are backed by an array. *)

IsRom(a)   == a < \h8000
IsArray(a) == (a >= \h8000 /\ a < \hFEA0) \/ (a >= \hFF80 /\ a < \hFFFF)

(* Mutant: the indices of the upper half of work RAM are off by one. *)
CellOf_UpperHalfShifted(a) ==
  IF a <= \h9FFF THEN <<"VRAM", \hA000 - a>>
  ELSE IF a <= \hBFFF THEN <<"ERAM", \hC000 - a>>
  ELSE IF a <= \hCFFF THEN <<"WRAM", \hD000 - a>>
  ELSE IF a <= \hFDFF THEN <<"WRAM", \hFDFF - a>>
  ELSE IF a <= \hFE9F THEN <<"OAM", \hFEA0 - a>>
  ELSE <<"HRAM", \hFFFF - a>>

(* The cell of an array address: the arrays are indexed downwards from the *)
(* end of the region, and both halves of work RAM start at index 1.        *)
CellOf(a) ==
  IF a <= \h9FFF THEN <<"VRAM", \hA000 - a>>
  ELSE IF a <= \hBFFF THEN <<"ERAM", \hC000 - a>>
  ELSE IF a <= \hCFFF THEN <<"WRAM", \hD000 - a>>
  ELSE IF a <= \hFDFF THEN <<"WRAM", \hFE00 - a>>
  ELSE IF a <= \hFE9F THEN <<"OAM", \hFEA0 - a>>
  ELSE <<"HRAM", \hFFFF - a>>

(* The upper part of the echo, 0xEE00 to 0xFDFF, shows the cells of 0xC000 *)
(* to 0xCFFF again: the address under which a byte is known otherwise.     *)
InEcho(a) == a >= \hEE00 /\ a < \hFE00
Canon(a)  == IF InEcho(a) THEN a - \h2E00 ELSE a

InBounds(cell) == cell[2] < Length[cell[1]]

(* Absent entries are zero: init fills every array with zeros, and the ROM *)
(* past the end of the file that main reads stays so. *)
Peek(ram, cell) == IF cell \in DOMAIN ram THEN ram[cell] ELSE 0

Poke(ram, cell, v) ==
  IF v = 0
  THEN [c \in DOMAIN ram \ {cell} |-> ram[c]]
  ELSE [c \in DOMAIN ram \cup {cell} |-> IF c = cell THEN v ELSE ram[c]]

RomByte(image, a) == Peek(Cartridge[image], a)

----------------------------------------------------------------------------
(* How a call of read8 or write8 ends: it returns, panics on an index out  *)
(* of bounds, or leaves the process with os.exit(1).                       *)
Outcomes == {"ok", "panic", "exit"}

ReadOutcome(a) == IF IsArray(a) /\ ~InBounds(CellOf(a)) THEN "panic" ELSE "ok"

WriteOutcome(a) == IF IsRom(a) /\ a >= \h4000 THEN "exit" ELSE ReadOutcome(a)

(* read8, where it returns.  The hole after OAM and the I/O registers that *)
(* are not implemented read as zero. *)
Read8(mem, a) ==
  IF IsRom(a) THEN IF a < \h100 /\ mem.inBootrom
                   THEN Peek(Bootrom, a + 1) ELSE RomByte(mem.image, a)
  ELSE IF IsArray(a) THEN Peek(mem.ram, CellOf(a))
  ELSE IF a = \hFF42 THEN mem.scy
  ELSE IF a = \hFF44 THEN \h90
  ELSE IF a = \hFFFF THEN ToBit(mem.interruptsEnabled)
  ELSE 0

(* Mutants: the scroll register is not stored; it is stored as a signed  *)
(* number; the boot ROM is never unmapped.                                 *)
Write8_DropsScroll(mem, a, v) ==
  IF IsArray(a) THEN [mem EXCEPT !.ram = Poke(@, CellOf(a), v)]
  ELSE IF a = \hFF50 THEN [mem EXCEPT !.inBootrom = FALSE]
  ELSE IF a = \hFFFF THEN [mem EXCEPT !.interruptsEnabled = (v = 1)]
  ELSE mem

Write8_SignedScroll(mem, a, v) ==
  IF IsArray(a) THEN [mem EXCEPT !.ram = Poke(@, CellOf(a), v)]
  ELSE IF a = \hFF42 THEN [mem EXCEPT !.scy = Signed(v)]
  ELSE IF a = \hFF50 THEN [mem EXCEPT !.inBootrom = FALSE]
  ELSE IF a = \hFFFF THEN [mem EXCEPT !.interruptsEnabled = (v = 1)]
  ELSE mem

Write8_KeepsOverlay(mem, a, v) ==
  IF IsArray(a) THEN [mem EXCEPT !.ram = Poke(@, CellOf(a), v)]
  ELSE IF a = \hFF42 THEN [mem EXCEPT !.scy = v]
  ELSE IF a = \hFFFF THEN [mem EXCEPT !.interruptsEnabled = (v = 1)]
  ELSE mem

(* write8, where it returns.  Elsewhere, in ROM, in the hole and in the    *)
(* other I/O registers, a write is logged, or sent to the standard error,  *)
(* and changes nothing. *)
Write8(mem, a, v) ==
  IF IsArray(a) THEN [mem EXCEPT !.ram = Poke(@, CellOf(a), v)]
  ELSE IF a = \hFF42 THEN [mem EXCEPT !.scy = v]
  ELSE IF a = \hFF50 THEN [mem EXCEPT !.inBootrom = FALSE]
  ELSE IF a = \hFFFF THEN [mem EXCEPT !.interruptsEnabled = (v = 1)]
  ELSE mem

(* The value of a memory that the program can hold. *)
IsMemory(mem) ==
  /\ mem = [image |-> mem.image, ram |-> mem.ram, inBootrom |-> mem.inBootrom,
            interruptsEnabled |-> mem.interruptsEnabled, scy |-> mem.scy]
  /\ mem.image \in Images
  /\ mem.ram = [c \in DOMAIN mem.ram |-> mem.ram[c]]
  /\ \A c \in DOMAIN mem.ram : mem.ram[c] \in Byte /\ mem.ram[c] # 0
  /\ mem.inBootrom \in BOOLEAN
  /\ mem.interruptsEnabled \in BOOLEAN
  /\ mem.scy \in Byte

=============================================================================
