----------------------------- MODULE MmuProofs -----------------------------
(***************************************************************************)
(* The memory for every cartridge, every set of addresses and data and     *)
(* every bound on the cells in use: it stays well formed, bytes written to *)
(* RAM are read back, and it implements the abstract store.                *)
(***************************************************************************)
EXTENDS Mmu, MemoryProofs

----------------------------------------------------------------------------
(* Lemmas about the decoding of addresses. *)

(* The cell of an array address, region by region. *)
CellFacts(a) ==
  /\ a < \hA000 => CellOf(a)[1] = "VRAM" /\ CellOf(a)[2] = \hA000 - a
  /\ a >= \hA000 /\ a < \hC000 => CellOf(a)[1] = "ERAM" /\ CellOf(a)[2] = \hC000 - a
  /\ a >= \hC000 /\ a < \hD000 => CellOf(a)[1] = "WRAM" /\ CellOf(a)[2] = \hD000 - a
  /\ a >= \hD000 /\ a < \hFE00 => CellOf(a)[1] = "WRAM" /\ CellOf(a)[2] = \hFE00 - a
  /\ a >= \hFE00 /\ a < \hFEA0 => CellOf(a)[1] = "OAM" /\ CellOf(a)[2] = \hFEA0 - a
  /\ a >= \hFEA0 => CellOf(a)[1] = "HRAM" /\ CellOf(a)[2] = \hFFFF - a

LEMMA CellCases == ASSUME NEW a \in Word PROVE CellFacts(a)
BY SMT DEF CellOf, Word, CellFacts

(* Different addresses have different cells, but for the echo: the indices *)
(* of mmu.zig, counted down from the end of each region, do not collide.   *)
LEMMA CellsDiffer ==
  ASSUME NEW a \in Word, NEW b \in Word, IsArray(a), IsArray(b),
         ~InEcho(b), CellOf(a) = CellOf(b)
  PROVE  b = Canon(a)
<1>1. CellOf(a)[1] = CellOf(b)[1] /\ CellOf(a)[2] = CellOf(b)[2]
  OBVIOUS
<1>2. CellFacts(a) /\ CellFacts(b)
  BY CellCases
<1> QED
  BY SMT, <1>1, <1>2 DEF Word, IsArray, InEcho, CellFacts, Canon

(* The only indices out of bounds are those of the first two OAM bytes. *)
LEMMA BoundsOfArrays ==
  ASSUME NEW a \in Word
  PROVE  ReadOutcome(a) = "panic" <=> a \in {\hFE00, \hFE01}
<1>1. InBounds(CellOf(a)) <=> CellOf(a)[2] < Length[CellOf(a)[1]]
  BY DEF InBounds
<1>2. /\ Length["VRAM"] = \h8000 /\ Length["ERAM"] = \h8000 /\ Length["WRAM"] = \h4000
      /\ Length["OAM"] = \h9F /\ Length["HRAM"] = 128
  BY DEF Length
<1>3. CellFacts(a)
  BY CellCases
<1> QED
  BY SMT, <1>1, <1>2, <1>3 DEF Word, ReadOutcome, IsArray, CellFacts

(* A write that does not unmap the boot ROM changes what is read at its    *)
(* own address, or at the address its own one echoes, and nowhere else.    *)
LEMMA WriteElsewhere ==
  ASSUME NEW mem, IsMemory(mem), NEW a \in Word, a # \hFF50, NEW v \in Byte,
         NEW b \in Word, ~InEcho(b), b # Canon(a)
  PROVE  Read8(Write8(mem, a, v), b) = Read8(mem, b)
<1>1. CASE IsArray(a)
  <2> DEFINE after == [mem EXCEPT !.ram = Poke(mem.ram, CellOf(a), v)]
  <2>1. Write8(mem, a, v) = after
    BY <1>1 DEF Write8
  <2>2. IsArray(b) => Peek(after.ram, CellOf(b)) = Peek(mem.ram, CellOf(b))
    <3> SUFFICES ASSUME IsArray(b) PROVE Peek(after.ram, CellOf(b)) = Peek(mem.ram, CellOf(b))
      OBVIOUS
    <3>1. CellOf(b) # CellOf(a)
      BY <1>1, CellsDiffer
    <3>2. after.ram = Poke(mem.ram, CellOf(a), v)
      BY DEF IsMemory
    <3> QED
      BY <3>1, <3>2, PeekAfterPoke
  <2>3. /\ after.image = mem.image /\ after.inBootrom = mem.inBootrom
        /\ after.scy = mem.scy /\ after.interruptsEnabled = mem.interruptsEnabled
    BY DEF IsMemory
  <2> HIDE DEF after
  <2> QED
    BY <2>1, <2>2, <2>3 DEF Read8
<1>2. CASE ~IsArray(a)
  <2>1. a # b
    BY DEF Canon, Word, InEcho, IsArray
  <2>2. CASE a = \hFF42
    BY <1>2, <2>1, <2>2 DEF Write8, Read8, IsMemory
  <2>3. CASE a = \hFFFF
    BY <1>2, <2>1, <2>3 DEF Write8, Read8, IsMemory
  <2>4. CASE a \notin {\hFF42, \hFFFF}
    BY <1>2, <2>4 DEF Write8
  <2> QED
    BY <2>2, <2>3, <2>4
<1> QED
  BY <1>1, <1>2

----------------------------------------------------------------------------
(* The memory is always well formed: bytes stay bytes and flags flags. *)
THEOREM MemoryTypeOK == Spec => []TypeOK
<1>1. Init => TypeOK
  BY InitialMemoryType DEF Init, TypeOK, Outcomes
<1>2. TypeOK /\ [Next]_vars => TypeOK'
  <2> SUFFICES ASSUME TypeOK, [Next]_vars PROVE TypeOK'
    OBVIOUS
  <2> USE DEF TypeOK
  <2>1. ASSUME NEW a \in Addresses, NEW v \in Data, Write(a, v) PROVE TypeOK'
    <3>1. a \in Word /\ v \in Byte
      BY MmuAssumption
    <3>2. IsMemory(mmu')
      BY <2>1, <3>1, WriteType DEF Write
    <3> QED
      BY <2>1, <3>2 DEF Write, WriteOutcome, ReadOutcome, Outcomes
  <2>2. ASSUME NEW a \in Addresses, Read(a) PROVE TypeOK'
    BY <2>2 DEF Read, ReadOutcome, Outcomes
  <2>3. ASSUME NEW b \in BOOLEAN, SetInterrupts(b) PROVE TypeOK'
    BY <2>3 DEF SetInterrupts, IsMemory
  <2>4. CASE UNCHANGED vars
    BY <2>4 DEF vars
  <2> QED
    BY <2>1, <2>2, <2>3, <2>4 DEF Next
<1> QED
  BY <1>1, <1>2, PTL DEF Spec

(* What is written to RAM or to the scroll register is read back. *)
THEOREM ReadBack == Spec => []WritesReadBack
<1>1. TypeOK => WritesReadBack
  <2> SUFFICES ASSUME TypeOK, NEW a \in Addresses, NEW v \in Data,
                      WriteOutcome(a) = "ok", IsArray(a) \/ a = \hFF42
               PROVE  Read8(Write8(mmu, a, v), a) = v
    BY DEF WritesReadBack
  <2>1. a \in Word /\ v \in Byte
    BY MmuAssumption
  <2>2. CASE IsArray(a)
    <3>1. ~IsRom(a)
      BY <2>1, <2>2 DEF IsArray, IsRom, Word
    <3>2. Write8(mmu, a, v).ram = Poke(mmu.ram, CellOf(a), v)
      BY <2>2, <3>1 DEF Write8, TypeOK, IsMemory
    <3>3. Read8(Write8(mmu, a, v), a) = Peek(Poke(mmu.ram, CellOf(a), v), CellOf(a))
      BY <2>2, <3>1, <3>2 DEF Read8
    <3> QED
      BY <2>1, <3>3, PeekAfterPoke
  <2>3. CASE a = \hFF42
    BY <2>3 DEF IsArray, IsRom, Read8, Write8, TypeOK, IsMemory
  <2> QED
    BY <2>2, <2>3
<1> QED
  BY <1>1, MemoryTypeOK, PTL

----------------------------------------------------------------------------
(* Refinement of the abstract store. *)

Visible(mem) == [x \in Distinct |-> Read8(mem, x)]

LEMMA DistinctAreWords == \A x \in Distinct : x \in Word /\ ~InEcho(x)
BY MmuAssumption DEF Distinct

(* A step that changes what is read at one writable location only. *)
LEMMA OneLocation ==
  ASSUME NEW l \in Writable, Read8(mmu', l) \in Byte,
         \A x \in Distinct : x # l => Read8(mmu', x) = Read8(mmu, x),
         UNCHANGED [x \in {b \in Distinct : b < \h100} |-> RomByte(mmu.image, x)]
  PROVE  Abstract!Next
<1>1. l \in Distinct \ (Distinct \ Writable)
  BY DEF Writable
<1>2. Visible(mmu') = [Visible(mmu) EXCEPT ![l] = Visible(mmu')[l]]
  BY <1>1 DEF Visible
<1>3. Abstract!Set(l)
  BY <1>1, <1>2 DEF Abstract!Set, Visible
<1> QED
  BY <1>1, <1>3 DEF Abstract!Next

(* A write sets one writable location, or uncovers the cartridge, or       *)
(* changes nothing that can be seen.                                       *)
LEMMA WriteRefines ==
  ASSUME TypeOK, TypeOK', NEW a \in Addresses, NEW v \in Data, Write(a, v)
  PROVE  [Abstract!Next]_(Abstract!vars)
<1> USE DEF TypeOK
<1>1. a \in Word /\ v \in Byte
  BY MmuAssumption
<1>2. mmu' = mmu \/ (mmu' = Write8(mmu, a, v) /\ WriteOutcome(a) = "ok")
  <2>1. CASE WriteOutcome(a) = "ok"
    BY <2>1 DEF Write
  <2>2. CASE WriteOutcome(a) # "ok"
    BY <2>2 DEF Write
  <2> QED
    BY <2>1, <2>2
<1>3. mmu'.image = mmu.image
  BY <1>2 DEF Write8, IsMemory
<1>4. UNCHANGED [x \in {b \in Distinct : b < \h100} |-> RomByte(mmu.image, x)]
  BY <1>3
<1>5. CASE mmu' = mmu
  BY <1>5 DEF Abstract!vars
<1>6. CASE mmu' = Write8(mmu, a, v) /\ WriteOutcome(a) = "ok" /\ a # \hFF50
  <2>1. \A x \in Distinct : x # Canon(a) => Read8(mmu', x) = Read8(mmu, x)
    BY <1>1, <1>6, WriteElsewhere, DistinctAreWords
  <2>2. CASE Canon(a) \in Writable
    <3>1. Read8(mmu', Canon(a)) \in Byte
      BY <2>2, ReadType, DistinctAreWords DEF Writable
    <3> QED
      BY <1>4, <2>1, <2>2, <3>1, OneLocation
  <2>3. CASE Canon(a) \notin Writable
    <3>1. Canon(a) \in Distinct => mmu' = mmu
      BY <1>1, <1>6, <2>3 DEF Writable, Canon, Write8, IsArray, InEcho, Word
    <3>2. \A x \in Distinct : Read8(mmu', x) = Read8(mmu, x)
      BY <2>1, <3>1
    <3> QED
      BY <1>4, <3>2 DEF Abstract!vars
  <2> QED
    BY <2>2, <2>3
<1>7. CASE mmu' = Write8(mmu, a, v) /\ a = \hFF50
  <2>1. mmu' = [mmu EXCEPT !.inBootrom = FALSE]
    BY <1>7 DEF Write8, IsArray
  <2>2. \A x \in Distinct :
          Read8(mmu', x) = IF x < \h100 THEN RomByte(mmu.image, x) ELSE Read8(mmu, x)
    BY <2>1, DistinctAreWords DEF Read8, IsRom, IsMemory, Word
  <2> QED
    BY <1>4, <2>2 DEF Abstract!Uncover, Abstract!Next
<1> QED
  BY <1>2, <1>5, <1>6, <1>7

(* The flag that EI, DI and RETI set is the location 0xFFFF. *)
LEMMA SetInterruptsRefines ==
  ASSUME TypeOK, NEW b \in BOOLEAN, SetInterrupts(b)
  PROVE  [Abstract!Next]_(Abstract!vars)
<1>1. mmu' = [mmu EXCEPT !.interruptsEnabled = b] /\ IsMemory(mmu)
  BY DEF SetInterrupts, TypeOK
<1>2. \A x \in Distinct : x # \hFFFF => Read8(mmu', x) = Read8(mmu, x)
  BY <1>1, DistinctAreWords DEF Read8, IsMemory
<1>3. UNCHANGED [x \in {y \in Distinct : y < \h100} |-> RomByte(mmu.image, x)]
  BY <1>1 DEF IsMemory
<1>4. CASE \hFFFF \in Distinct
  <2>1. \hFFFF \in Writable
    BY <1>4 DEF Writable
  <2>2. IsMemory(mmu')
    BY <1>1 DEF IsMemory
  <2>3. Read8(mmu', \hFFFF) \in Byte
    BY <2>2, ReadType DEF Word
  <2> QED
    BY <1>2, <1>3, <2>1, <2>3, OneLocation
<1>5. CASE \hFFFF \notin Distinct
  BY <1>2, <1>3, <1>5 DEF Abstract!vars
<1> QED
  BY <1>4, <1>5

(* The memory implements the store of independent locations. *)
THEOREM RefinesStore == Spec => ImplementsStore
<1>1. Init => Abstract!Init
  <2> SUFFICES ASSUME Init PROVE Abstract!Init
    OBVIOUS
  <2>1. IsMemory(mmu) /\ mmu.image \in Images
    BY InitialMemoryType DEF Init, IsMemory
  <2>2. \A x \in Distinct : Read8(mmu, x) \in Byte /\ RomByte(mmu.image, x) \in Byte
    BY <2>1, ReadType, RomByteType, DistinctAreWords
  <2> QED
    BY <2>2 DEF Abstract!Init
<1>2. TypeOK /\ TypeOK' /\ [Next]_vars => [Abstract!Next]_(Abstract!vars)
  <2> SUFFICES ASSUME TypeOK, TypeOK', [Next]_vars PROVE [Abstract!Next]_(Abstract!vars)
    OBVIOUS
  <2>1. ASSUME NEW a \in Addresses, NEW v \in Data, Write(a, v)
        PROVE  [Abstract!Next]_(Abstract!vars)
    BY <2>1, WriteRefines
  <2>2. ASSUME NEW a \in Addresses, Read(a) PROVE [Abstract!Next]_(Abstract!vars)
    BY <2>2 DEF Read, Abstract!vars
  <2>3. ASSUME NEW b \in BOOLEAN, SetInterrupts(b) PROVE [Abstract!Next]_(Abstract!vars)
    BY <2>3, SetInterruptsRefines
  <2>4. CASE UNCHANGED vars
    BY <2>4 DEF vars, Abstract!vars
  <2> QED
    BY <2>1, <2>2, <2>3, <2>4 DEF Next
<1> QED
  BY <1>1, <1>2, MemoryTypeOK, PTL DEF Spec, ImplementsStore, Abstract!Spec

=============================================================================
