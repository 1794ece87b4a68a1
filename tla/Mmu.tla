-------------------------------- MODULE Mmu --------------------------------
(***************************************************************************)
(* mmu.zig as a component: a memory that its clients, the CPU and the      *)
(* debugger, read and write one byte at a time, and whose interrupt flag   *)
(* the CPU also sets directly (EI, DI, RETI).                              *)
(***************************************************************************)
EXTENDS Memory, FiniteSets

CONSTANTS Addresses,  \* the addresses the clients use
          Data,       \* the bytes they write
          MaxCells    \* bound: how many array cells may hold something but 0

ASSUME MmuAssumption ==
  /\ Addresses \subseteq Word
  /\ Data \subseteq Byte
  /\ MaxCells \in Nat

VARIABLES mmu,     \* the memory
          status   \* "ok" until a call does not return

vars == <<mmu, status>>

Init ==
  /\ mmu \in {InitialMemory(i) : i \in Images}
  /\ status = "ok"

Write(a, v) ==
  /\ status = "ok"
  /\ status' = WriteOutcome(a)
  /\ mmu' = IF status' = "ok" THEN Write8(mmu, a, v) ELSE mmu
  /\ Cardinality(DOMAIN mmu'.ram) <= MaxCells

(* A read changes nothing, unless it does not return. *)
Read(a) ==
  /\ status = "ok"
  /\ status' = ReadOutcome(a)
  /\ UNCHANGED mmu

(* mmu.interruptsEnabled = b, in di, ei and reti *)
SetInterrupts(b) ==
  /\ status = "ok"
  /\ mmu' = [mmu EXCEPT !.interruptsEnabled = b]
  /\ UNCHANGED status

Next ==
  \/ \E a \in Addresses, v \in Data : Write(a, v)
  \/ \E a \in Addresses : Read(a)
  \/ \E b \in BOOLEAN : SetInterrupts(b)

Spec == Init /\ [][Next]_vars

----------------------------------------------------------------------------
TypeOK == IsMemory(mmu) /\ status \in Outcomes

(* The addresses that behave as locations of their own: not those of the   *)
(* echo, nor the first two of OAM, which index past the end of its array.  *)
Distinct  == {a \in Addresses : ~InEcho(a) /\ ReadOutcome(a) = "ok"}

Writable == {a \in Distinct : IsArray(a) \/ a \in {\hFF42, \hFFFF}}

(* Reading after writing: whatever the memory holds, a byte written to RAM *)
(* or to the scroll register is the byte that is then read back.           *)
WritesReadBack ==
  \A a \in Addresses, v \in Data :
    WriteOutcome(a) = "ok" /\ (IsArray(a) \/ a = \hFF42) => Read8(Write8(mmu, a, v), a) = v

(* The arrays, the registers, the flags and the boot overlay together      *)
(* implement independent locations: no write, the echo's included, changes *)
(* any address but its own, and the overlay comes off once and for all.    *)
Abstract ==
  INSTANCE Store WITH
    Locations <- Distinct, ReadOnly <- Distinct \ Writable,
    Overlay <- {a \in Distinct : a < \h100}, Values <- Byte,
    contents <- [a \in Distinct |-> Read8(mmu, a)],
    hidden <- [a \in {b \in Distinct : b < \h100} |-> RomByte(mmu.image, a)]

ImplementsStore == Abstract!Spec

=============================================================================
