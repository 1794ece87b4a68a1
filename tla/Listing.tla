------------------------------ MODULE Listing ------------------------------
(***************************************************************************)
(* The processor executes what the disassembler prints.  cpu.zig and       *)
(* disassembler.zig decode opcodes in two tables of 256 entries that       *)
(* nothing in the program compares.                                        *)
(***************************************************************************)
EXTENDS Operands

(* After an instruction that is no branch, and after a branch that falls   *)
(* through, PC is past exactly the operand bytes that the mnemonic shows.  *)
FallsThrough ==
  op \in Branches =>
    ~Taken /\ (\E first \in {\h20, \hC0, \hC2, \hC4} : Conditional(first))

LengthsAgree ==
  [][result' = "ok" /\ FallsThrough => PC' = PC + InstructionLength(op)]_vars

(* No instruction changes a register that its mnemonic does not name as    *)
(* the destination.  What follows PREFIX CB is not in the table. *)
DestinationsAgree ==
  [][op # \hCB => \A k \in Reg8 \ Destination(op) : r'[k] = r[k]]_vars

(* The processor gives up on exactly the opcodes that the table prints as  *)
(* INV, and on STOP and HALT. *)
HandlersAgree ==
  [][(result' = "error") <=> (op \in Invalid \cup Stops)]_vars

----------------------------------------------------------------------------
(* No instruction changes a byte of memory that its mnemonic does not      *)
(* store to, nor the scroll register.  The interrupt flag, which a store   *)
(* to 0xFFFF sets as well, is as EI, RETI and DI leave it.                 *)
FlagAfter ==
  IF op \in {\hFB, \hD9} THEN 1 ELSE IF op = \hF3 THEN 0 ELSE Read8(mmu, \hFFFF)

StoresAgree ==
  [][result' = "ok" =>
       LET written == {CellOf(a) : a \in {b \in Stored : IsArray(b)}}
       IN  /\ \A c \in (DOMAIN mmu.ram \cup DOMAIN mmu'.ram) \ written :
                Peek(mmu'.ram, c) = Peek(mmu.ram, c)
           /\ \hFF42 \notin Stored => mmu'.scy = mmu.scy
           /\ \hFFFF \notin Stored => Read8(mmu', \hFFFF) = FlagAfter]_vars

(* The addresses that no access returns from: past the end of OAM's array, *)
(* and past the last address.                                              *)
NoMemory == {\hFE00, \hFE01, \h10000}

OffTheEnd    == PC + InstructionLength(op) > \hFFFF
PastTheStack == (Pushing /\ SP < 2) \/ (Popping /\ SP > \hFFFD)

(* The emulator ends on an instruction only at an edge, and never survives *)
(* one: code that reaches 0xFFFF, a stack that passes either end of the    *)
(* address space, an operand where there is no memory, or a store to the   *)
(* upper half of the ROM, which alone exits without a panic.               *)
EndsAtEdges ==
  [][LET code    == PC .. PC + InstructionLength(op) - 1
         intoRom == \E a \in Stored : a >= \h4000 /\ a < \h8000
     IN  /\ result' = "ok" =>
              /\ ~OffTheEnd /\ ~PastTheStack /\ ~intoRom
              /\ ({PC} \cup Stored \cup Loaded) \cap NoMemory = {}
         /\ result' = "panic" =>
              OffTheEnd \/ PastTheStack \/ (code \cup Stored \cup Loaded) \cap NoMemory # {}
         /\ result' = "exit" => intoRom]_vars

----------------------------------------------------------------------------
(* Behind the prefix, each operation means the same on a register and on   *)
(* the byte at HL, which are handlers written separately: before is moved  *)
(* by one place, one bit falls out into c and another one comes in.  z     *)
(* tells that the result is zero, but for SLA of a register.               *)
Incoming(before) ==
  CASE cbBit \in {0, 1} -> F'.c
    [] cbBit \in {2, 3} -> F.c
    [] cbBit = 5        -> before \div 128
    [] cbBit \in {4, 7} -> 0

Moved(before, after) ==
  /\ cbBit \in {0, 2, 4} => \h100 * F'.c + after = 2 * before + Incoming(before)
  /\ cbBit \in {1, 3, 5, 7} => \h100 * Incoming(before) + before = 2 * after + F'.c
  /\ cbBit = 6 => after \div 16 = before % 16 /\ after % 16 = before \div 16 /\ F'.c = 0
  /\ (cbBit = 4 /\ cbTarget # 6) \/ F'.z = ToBit(after = 0)

FormsAgree ==
  [][op = \hCB /\ result' = "ok" /\ (cbTarget = 6 => IsArray(HL)) =>
       LET before == IF cbTarget = 6 THEN Read8(mmu, HL) ELSE r[cbTarget]
           after  == IF cbTarget = 6 THEN Read8(mmu', HL) ELSE r'[cbTarget]
           others == {j \in 0 .. 7 : j # cbBit}
       IN  /\ Prefixed(0) => Moved(before, after)
           /\ Prefixed(1) => after = before /\ F'.z = 1 - BitOf(before, cbBit)
           /\ Prefixed(2) \/ Prefixed(3) =>
                /\ BitOf(after, cbBit) = ToBit(Prefixed(3))
                /\ \A j \in others : BitOf(after, j) = BitOf(before, j)
                /\ F' = F]_vars

=============================================================================
