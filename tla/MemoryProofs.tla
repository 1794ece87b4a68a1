---------------------------- MODULE MemoryProofs ----------------------------
(***************************************************************************)
(* Facts about memories as values, for every cartridge: reads return       *)
(* bytes, and writes keep a memory well formed.  The proofs about the      *)
(* memory and about the processor both rest on them.                       *)
(***************************************************************************)
EXTENDS Memory, TLAPS

(* A sparse memory: a function whose values are non-zero bytes. *)
IsRam(ram) == /\ ram = [c \in DOMAIN ram |-> ram[c]]
              /\ \A c \in DOMAIN ram : ram[c] \in Byte /\ ram[c] # 0

(* A poke keeps a sparse memory a sparse memory. *)
LEMMA PokeType ==
  ASSUME NEW ram, IsRam(ram), NEW cell, NEW v \in Byte
  PROVE  IsRam(Poke(ram, cell, v))
BY DEF IsRam, Poke

(* A peek at a sparse memory finds a byte. *)
LEMMA PeekType ==
  ASSUME NEW ram, IsRam(ram), NEW cell
  PROVE  Peek(ram, cell) \in Byte
BY DEF IsRam, Peek, Byte

(* A poke changes the byte of one cell and of no other. *)
LEMMA PeekAfterPoke ==
  ASSUME NEW ram, NEW cell, NEW v \in Byte, NEW other
  PROVE  Peek(Poke(ram, cell, v), other) = IF other = cell THEN v ELSE Peek(ram, other)
BY DEF Peek, Poke

(* Both ROMs hold bytes, at every address. *)
LEMMA RomByteType ==
  ASSUME NEW i \in Images, NEW a
  PROVE  RomByte(i, a) \in Byte /\ Peek(Bootrom, a) \in Byte
BY RomAssumption DEF RomByte, Peek, Byte

(* read8 returns a byte, whatever the address is. *)
LEMMA ReadType ==
  ASSUME NEW mem, IsMemory(mem), NEW a
  PROVE  Read8(mem, a) \in Byte
<1>1. RomByte(mem.image, a) \in Byte /\ Peek(Bootrom, a + 1) \in Byte
  BY RomByteType DEF IsMemory
<1>2. Peek(mem.ram, CellOf(a)) \in Byte
  BY PeekType DEF IsMemory, IsRam
<1>3. mem.scy \in Byte /\ ToBit(mem.interruptsEnabled) \in Byte /\ 0 \in Byte /\ \h90 \in Byte
  BY DEF IsMemory, ToBit, Byte
<1>4. CASE IsRom(a)
  BY <1>1, <1>4 DEF Read8
<1>5. CASE ~IsRom(a)
  BY <1>2, <1>3, <1>5 DEF Read8
<1> QED
  BY <1>4, <1>5

(* write8 keeps a memory well formed. *)
LEMMA WriteType ==
  ASSUME NEW mem, IsMemory(mem), NEW a, NEW v \in Byte
  PROVE  IsMemory(Write8(mem, a, v))
<1>1. IsMemory([mem EXCEPT !.ram = Poke(mem.ram, CellOf(a), v)])
  <2>1. IsRam(Poke(mem.ram, CellOf(a), v))
    BY PokeType DEF IsMemory, IsRam
  <2> QED
    BY <2>1 DEF IsMemory, IsRam
<1>2. IsMemory([mem EXCEPT !.scy = v])
  BY DEF IsMemory
<1>3. IsMemory([mem EXCEPT !.inBootrom = FALSE])
  <2>1. ASSUME NEW b \in BOOLEAN PROVE IsMemory([mem EXCEPT !.inBootrom = b])
    BY DEF IsMemory
  <2> QED
    BY ONLY <2>1
<1>4. IsMemory([mem EXCEPT !.interruptsEnabled = (v = 1)])
  BY DEF IsMemory
<1> QED
  BY <1>1, <1>2, <1>3, <1>4 DEF Write8

(* The memory that init returns is well formed. *)
LEMMA InitialMemoryType == \A i \in Images : IsMemory(InitialMemory(i))
BY DEF IsMemory, InitialMemory, Byte

=============================================================================
