-------------------------------- MODULE Cpu --------------------------------
(***************************************************************************)
(* cpu.zig: the processor.  tick reads the opcode at PC and calls one      *)
(* handler; every handler is an action here, guarded by the opcodes that   *)
(* the switch sends to it.  The handlers of one family, which differ only  *)
(* in the register or the condition they name, are one action: the opcode  *)
(* holds the register in the fields src, dst and pair.                     *)
(***************************************************************************)
EXTENDS Alu, Memory

CONSTANTS Starts,     \* states of the registers and the memory to start from
          CycleLimit  \* bound: no instruction starts after so many cycles

(* A, B, C, D, E, H and L, by the number an opcode names them with. *)
Reg8 == {0, 1, 2, 3, 4, 5, 7}

(* main runs a script of the debugger before the first tick, which may set *)
(* any register and any byte of the memory.                                *)
IsStart(s) ==
  /\ s = [PC |-> s.PC, SP |-> s.SP, r |-> s.r, F |-> s.F, mmu |-> s.mmu]
  /\ s.PC \in Word
  /\ s.SP \in Word
  /\ s.r \in [Reg8 -> Byte]
  /\ s.F \in FlagSet
  /\ IsMemory(s.mmu)

ASSUME StartsAssumption == \A s \in Starts : IsStart(s) /\ s.F.unused = 0
ASSUME LimitAssumption  == CycleLimit \in Nat

VARIABLES
  PC, SP,   \* program counter and stack pointer
  r,        \* the 8-bit registers
  F,        \* the flags
  mCycles,  \* machine cycles spent
  halt,     \* set by an instruction that is not implemented
  mmu,      \* the memory
  result    \* "ok", or how the last tick ended: "panic", "exit" or "error"

state == <<PC, SP, r, F, mCycles, mmu>>
vars  == <<PC, SP, r, F, mCycles, halt, mmu, result>>

Init ==
  /\ \E s \in Starts :
       /\ PC = s.PC
       /\ SP = s.SP
       /\ r = s.r
       /\ F = s.F
       /\ mmu = s.mmu
  /\ mCycles = 0
  /\ halt = FALSE
  /\ result = "ok"

----------------------------------------------------------------------------
(* The instruction at PC *)

op  == Read8(mmu, PC)
src == op % 8
dst == (op \div 8) % 8

imm8  == Read8(mmu, PC + 1)
imm16 == Join(Read8(mmu, PC + 2), Read8(mmu, PC + 1))

(* The register pair that bits 4 and 5 name: BC, DE, HL or SP. *)
pair   == (op \div 16) % 4
BC     == Join(r[0], r[1])
DE     == Join(r[2], r[3])
HL     == Join(r[4], r[5])
Paired == IF pair = 0 THEN BC ELSE IF pair = 1 THEN DE ELSE IF pair = 2 THEN HL ELSE SP

(* Mutant: the bytes of a pair in the order of the other endianness. *)
WithPair_Swapped(p, w) == [r EXCEPT ![2 * p] = Lo(w), ![2 * p + 1] = Hi(w)]

WithPair(p, w) == [r EXCEPT ![2 * p] = Hi(w), ![2 * p + 1] = Lo(w)]

(* The condition that bits 3 and 4 name: NZ, Z, NC or C. *)
Taken == (IF dst % 4 < 2 THEN F.z ELSE F.c) = dst % 2

----------------------------------------------------------------------------
(* How a handler ends.  It makes its accesses in order, and the first that *)
(* does not return ends the process: PC += 1 and SP += 1 are checked for   *)
(* overflow, SP -= 1 for underflow, and an access may panic or exit.       *)

Check(p) == IF p THEN "ok" ELSE "panic"

first && second == IF first = "ok" THEN second ELSE first

(* Mutant: the last increment of PC is not checked. *)
Fetch_LastUnchecked(n) == Check(/\ PC + n <= \h10000
                                /\ \A i \in 0 .. n - 1 : ReadOutcome(PC + i) = "ok")

(* Reading an instruction of n bytes. *)
Fetch(n) == Check(/\ PC + n <= \hFFFF
                  /\ \A i \in 0 .. n - 1 : ReadOutcome(PC + i) = "ok")

(* Passing over an instruction of n bytes whose operand is not read. *)
Pass(n) == Fetch(1) && Check(PC + n <= \hFFFF)

Run(outcome, effect) ==
  /\ result = "ok"
  /\ mCycles < CycleLimit
  /\ result' = outcome
  /\ UNCHANGED halt
  /\ IF outcome = "ok" THEN effect ELSE UNCHANGED state

Continue(n, cycles) ==
  /\ PC' = PC + n
  /\ mCycles' = mCycles + cycles

(* The flags after an operation that assigns all four. *)
Flags(res, unused) ==
  [z |-> res.z, n |-> res.n, h |-> res.h, c |-> res.c, unused |-> unused]

(* Mutants: a stack pointer that wraps unnoticed, and a word written       *)
(* before SP moves.                                                        *)
PushOutcome_Unchecked ==
  WriteOutcome(Wrap16(SP - 1)) && WriteOutcome(Wrap16(SP - 2))

Pushed_BeforeMoving(w) == Write8(Write8(mmu, SP, Hi(w)), SP - 1, Lo(w))

(* Two bytes pushed, the high one first, and two bytes popped. *)
PushOutcome == Check(SP >= 1) && WriteOutcome(SP - 1)
                 && Check(SP >= 2) && WriteOutcome(SP - 2)
Pushed(w)   == Write8(Write8(mmu, SP - 1, Hi(w)), SP - 2, Lo(w))

PopOutcome == ReadOutcome(SP) && Check(SP + 1 <= \hFFFF)
                && ReadOutcome(SP + 1) && Check(SP + 2 <= \hFFFF)
Popped     == Join(Read8(mmu, SP + 1), Read8(mmu, SP))

----------------------------------------------------------------------------
(* Loads *)

nop ==
  /\ op = 0
  /\ Run(Fetch(1), Continue(1, 4) /\ UNCHANGED <<SP, r, F, mmu>>)

ld_r_d8 ==
  /\ op < \h40 /\ src = 6 /\ dst # 6
  /\ Run(Fetch(2), /\ Continue(2, 8)
                   /\ r' = [r EXCEPT ![dst] = imm8]
                   /\ UNCHANGED <<SP, F, mmu>>)

ld_dhl_d8 ==
  /\ op = \h36
  /\ Run(Fetch(2) && WriteOutcome(HL),
         /\ Continue(2, 12)
         /\ mmu' = Write8(mmu, HL, imm8)
         /\ UNCHANGED <<SP, r, F>>)

(* Mutant: the two registers swapped. *)
ld_r_r_Swapped ==
  /\ op \div 64 = 1 /\ src # 6 /\ dst # 6
  /\ Run(Fetch(1), /\ Continue(1, 4)
                   /\ r' = [r EXCEPT ![src] = r[dst]]
                   /\ UNCHANGED <<SP, F, mmu>>)

ld_r_r ==
  /\ op \div 64 = 1 /\ src # 6 /\ dst # 6
  /\ Run(Fetch(1), /\ Continue(1, 4)
                   /\ r' = [r EXCEPT ![dst] = r[src]]
                   /\ UNCHANGED <<SP, F, mmu>>)

LoadPair(w) ==
  IF pair = 3 THEN SP' = w /\ UNCHANGED r ELSE r' = WithPair(pair, w) /\ UNCHANGED SP

ld_rr_d16 ==
  /\ op < \h40 /\ op % 16 = 1
  /\ Run(Fetch(3), Continue(3, 12) /\ LoadPair(imm16) /\ UNCHANGED <<F, mmu>>)

(* An 8-bit register loaded from a, the instruction being n bytes long. *)
LoadFrom(k, a, n, cycles) ==
  Run(Fetch(n) && ReadOutcome(a),
      /\ Continue(n, cycles)
      /\ r' = [r EXCEPT ![k] = Read8(mmu, a)]
      /\ UNCHANGED <<SP, F, mmu>>)

(* Register k stored at a. *)
StoreAt(a, k, n, cycles) ==
  Run(Fetch(n) && WriteOutcome(a),
      /\ Continue(n, cycles)
      /\ mmu' = Write8(mmu, a, r[k])
      /\ UNCHANGED <<SP, r, F>>)

ld_r_rr ==
  \/ op \in {\h0A, \h1A} /\ LoadFrom(7, Paired, 1, 8)
  \/ op \div 64 = 1 /\ src = 6 /\ dst # 6 /\ LoadFrom(dst, HL, 1, 8)

ld_rr_r ==
  \/ op \in {\h02, \h12} /\ StoreAt(Paired, 7, 1, 8)
  \/ op \div 64 = 1 /\ dst = 6 /\ src # 6 /\ StoreAt(HL, src, 1, 8)

ldh_a_a8 == op = \hF0 /\ LoadFrom(7, \hFF00 + imm8, 2, 12)
ldh_a8_a == op = \hE0 /\ StoreAt(\hFF00 + imm8, 7, 2, 12)
ld_a_c   == op = \hF2 /\ LoadFrom(7, \hFF00 + r[1], 1, 8)
ld_c_a   == op = \hE2 /\ StoreAt(\hFF00 + r[1], 7, 1, 8)
ld_a_a16 == op = \hFA /\ LoadFrom(7, imm16, 3, 16)
ld_a16_a == op = \hEA /\ StoreAt(imm16, 7, 3, 16)

(* HL after the access: 2 and 3 in the pair field are HL+ and HL-. *)
Stepped == Wrap16(IF pair = 2 THEN HL + 1 ELSE HL - 1)

(* LD (HL+),A and LD (HL-),A *)
ld_hli_r ==
  /\ op \in {\h22, \h32}
  /\ Run(Fetch(1) && WriteOutcome(HL),
         /\ Continue(1, 8)
         /\ mmu' = Write8(mmu, HL, r[7])
         /\ r' = WithPair(2, Stepped)
         /\ UNCHANGED <<SP, F>>)

(* LD A,(HL+) and LD A,(HL-) *)
ld_a_hli ==
  /\ op \in {\h2A, \h3A}
  /\ Run(Fetch(1) && ReadOutcome(HL),
         /\ Continue(1, 8)
         /\ r' = [WithPair(2, Stepped) EXCEPT ![7] = Read8(mmu, HL)]
         /\ UNCHANGED <<SP, F, mmu>>)

ld_da16_sp ==
  /\ op = \h08
  /\ Run(Fetch(3) && WriteOutcome(imm16) && Check(imm16 + 1 <= \hFFFF)
           && WriteOutcome(imm16 + 1),
         /\ Continue(3, 20)
         /\ mmu' = Write8(Write8(mmu, imm16, Lo(SP)), imm16 + 1, Hi(SP))
         /\ UNCHANGED <<SP, r, F>>)

ld_hl_sp_r8 ==
  /\ op = \hF8
  /\ Run(Fetch(2), /\ Continue(2, 12)
                   /\ r' = WithPair(2, AddOffset(SP, imm8).v)
                   /\ F' = Flags(AddOffset(SP, imm8), 0)
                   /\ UNCHANGED <<SP, mmu>>)

ld_sp_hl ==
  /\ op = \hF9
  /\ Run(Fetch(1), Continue(1, 8) /\ SP' = HL /\ UNCHANGED <<r, F, mmu>>)

----------------------------------------------------------------------------
(* Arithmetic and logic *)

inc_r ==
  /\ op < \h40 /\ src = 4 /\ dst # 6
  /\ Run(Fetch(1),
         LET res == Inc8(r[dst])
         IN  /\ Continue(1, 4)
             /\ r' = [r EXCEPT ![dst] = res.v]
             /\ F' = [F EXCEPT !.z = res.z, !.n = res.n, !.h = res.h]
             /\ UNCHANGED <<SP, mmu>>)

dec_r ==
  /\ op < \h40 /\ src = 5 /\ dst # 6
  /\ Run(Fetch(1),
         LET res == Dec8(r[dst])
         IN  /\ Continue(1, 4)
             /\ r' = [r EXCEPT ![dst] = res.v]
             /\ F' = [F EXCEPT !.z = res.z, !.n = res.n, !.h = res.h]
             /\ UNCHANGED <<SP, mmu>>)

(* INC (HL) and DEC (HL): res is the result for the byte at HL. *)
Modify(res) ==
  Run(Fetch(1) && ReadOutcome(HL) && WriteOutcome(HL),
      /\ Continue(1, 12)
      /\ mmu' = Write8(mmu, HL, res.v)
      /\ F' = [F EXCEPT !.z = res.z, !.n = res.n, !.h = res.h]
      /\ UNCHANGED <<SP, r>>)

inc_dhl == op = \h34 /\ Modify(Inc8(Read8(mmu, HL)))
dec_dhl == op = \h35 /\ Modify(Dec8(Read8(mmu, HL)))

inc_rr ==
  /\ op < \h40 /\ op % 16 = 3
  /\ Run(Fetch(1), Continue(1, 8) /\ LoadPair(Wrap16(Paired + 1)) /\ UNCHANGED <<F, mmu>>)

dec_rr ==
  /\ op < \h40 /\ op % 16 = 11
  /\ Run(Fetch(1), Continue(1, 8) /\ LoadPair(Wrap16(Paired - 1)) /\ UNCHANGED <<F, mmu>>)

add_hl_rr ==
  /\ op < \h40 /\ op % 16 = 9
  /\ Run(Fetch(1),
         LET res == Add16(HL, Paired)
         IN  /\ Continue(1, 8)
             /\ r' = WithPair(2, res.v)
             /\ F' = [F EXCEPT !.n = res.n, !.h = res.h, !.c = res.c]
             /\ UNCHANGED <<SP, mmu>>)

add_sp_r8 ==
  /\ op = \hE8
  /\ Run(Fetch(2), /\ Continue(2, 16)
                   /\ SP' = AddOffset(SP, imm8).v
                   /\ F' = Flags(AddOffset(SP, imm8), 0)
                   /\ UNCHANGED <<r, mmu>>)

(* The eight operations of the accumulator, in the order of their opcodes: *)
(* ADD, ADC, SUB, SBC, AND, XOR, OR, CP. *)
Result(x) ==
  IF dst = 0      THEN Add8(r[7], x, 0)
  ELSE IF dst = 1 THEN Add8(r[7], x, F.c)
  ELSE IF dst = 3 THEN Sub8(r[7], x, F.c)
  ELSE IF dst = 4 THEN Logic8(And8(r[7], x), 1)
  ELSE IF dst = 5 THEN Logic8(Xor8(r[7], x), 0)
  ELSE IF dst = 6 THEN Logic8(Or8(r[7], x), 0)
  ELSE Sub8(r[7], x, 0)

(* CP keeps A.  AND and CP clear the low nibble of F, the others keep it. *)
Accumulate(x, n, cycles) ==
  /\ Continue(n, cycles)
  /\ r' = IF dst = 7 THEN r ELSE [r EXCEPT ![7] = Result(x).v]
  /\ F' = Flags(Result(x), IF dst \in {4, 7} THEN 0 ELSE F.unused)
  /\ UNCHANGED <<SP, mmu>>

alu_r ==
  /\ op \div 64 = 2 /\ src # 6
  /\ Run(Fetch(1), Accumulate(r[src], 1, IF dst = 5 THEN 1 ELSE 4))

alu_hl ==
  /\ op \div 64 = 2 /\ src = 6
  /\ Run(Fetch(1) && ReadOutcome(HL), Accumulate(Read8(mmu, HL), 1, 8))

alu_d8 ==
  /\ op \div 64 = 3 /\ src = 6
  /\ Run(Fetch(2), Accumulate(imm8, 2, IF dst = 3 THEN 4 ELSE 8))

(* The rotates of A clear z.  RRA alone keeps the low nibble of F. *)
RotateA(res, unused) ==
  Run(Fetch(1), /\ Continue(1, 4)
                /\ r' = [r EXCEPT ![7] = res.v]
                /\ F' = Flags([res EXCEPT !.z = 0], unused)
                /\ UNCHANGED <<SP, mmu>>)

rlca == op = \h07 /\ RotateA(RotateLeftCircular(r[7]), 0)
rrca == op = \h0F /\ RotateA(RotateRightCircular(r[7]), 0)
rla  == op = \h17 /\ RotateA(RotateLeft(r[7], F.c), 0)
rra  == op = \h1F /\ RotateA(RotateRight(r[7], F.c), F.unused)

daa ==
  /\ op = \h27
  /\ Run(Fetch(1),
         LET res == DecimalAdjust(r[7], F)
         IN  /\ Continue(1, 0)
             /\ r' = [r EXCEPT ![7] = res.v]
             /\ F' = [F EXCEPT !.z = res.z, !.h = res.h, !.c = res.c]
             /\ UNCHANGED <<SP, mmu>>)

cpl ==
  /\ op = \h2F
  /\ Run(Fetch(1), /\ Continue(1, 4)
                   /\ r' = [r EXCEPT ![7] = \hFF - @]
                   /\ F' = [F EXCEPT !.n = 1, !.h = 1]
                   /\ UNCHANGED <<SP, mmu>>)

SetCarry(c) ==
  Run(Fetch(1), /\ Continue(1, 4)
                /\ F' = [F EXCEPT !.c = c, !.h = 0, !.n = 0]
                /\ UNCHANGED <<SP, r, mmu>>)

scf == op = \h37 /\ SetCarry(1)
ccf == op = \h3F /\ SetCarry(1 - F.c)

----------------------------------------------------------------------------
(* The second table, behind the prefix 0xCB *)

cbTarget == imm8 % 8
cbBit    == (imm8 \div 8) % 8

(* The four quarters of the table: shifts, BIT, RES and SET. *)
Prefixed(quarter) == op = \hCB /\ imm8 \div 64 = quarter

(* RLC, RRC, RL, RR, SLA, SRA, SWAP, SRL; shiftLeft is SLA's result. *)
Rotated(b, shiftLeft) ==
  IF cbBit = 0      THEN RotateLeftCircular(b)
  ELSE IF cbBit = 1 THEN RotateRightCircular(b)
  ELSE IF cbBit = 2 THEN RotateLeft(b, F.c)
  ELSE IF cbBit = 3 THEN RotateRight(b, F.c)
  ELSE IF cbBit = 4 THEN shiftLeft
  ELSE IF cbBit = 5 THEN ShiftRightArithmetic(b)
  ELSE IF cbBit = 6 THEN SwapNibbles(b)
  ELSE ShiftRightLogical(b)

(* A handler of the second table on a register, and on the byte at HL. *)
OnRegister(effect) ==
  cbTarget # 6 /\ Run(Fetch(2), Continue(2, 8) /\ effect /\ UNCHANGED <<SP, mmu>>)

(* Mutant: the form for (HL) forgets the flags. *)
OnMemory_KeepsFlags(res, flags, cycles) ==
  /\ cbTarget = 6
  /\ Run(Fetch(2) && ReadOutcome(HL) && WriteOutcome(HL),
         /\ Continue(2, cycles)
         /\ mmu' = Write8(mmu, HL, res)
         /\ UNCHANGED <<SP, r, F>>)

OnMemory(res, flags, cycles) ==
  /\ cbTarget = 6
  /\ Run(Fetch(2) && ReadOutcome(HL) && WriteOutcome(HL),
         /\ Continue(2, cycles)
         /\ mmu' = Write8(mmu, HL, res)
         /\ F' = flags
         /\ UNCHANGED <<SP, r>>)

shift_r ==
  /\ Prefixed(0)
  /\ OnRegister(LET b   == r[cbTarget]
                    res == Rotated(b, ShiftLeftRegister(b))
                IN  r' = [r EXCEPT ![cbTarget] = res.v] /\ F' = Flags(res, 0))

(* RRC (HL) counts its access twice, SRL (HL) never. *)
shift_hl ==
  /\ Prefixed(0)
  /\ LET b   == Read8(mmu, HL)
         res == Rotated(b, ShiftLeftMemory(b))
     IN  OnMemory(res.v, Flags(res, 0),
                  IF cbBit = 1 THEN 24 ELSE IF cbBit = 7 THEN 8 ELSE 16)

Tested(b) == [F EXCEPT !.z = 1 - BitOf(b, cbBit), !.n = 0, !.h = 1]

bit_r == Prefixed(1) /\ OnRegister(F' = Tested(r[cbTarget]) /\ UNCHANGED r)

bit_hl ==
  /\ Prefixed(1) /\ cbTarget = 6
  /\ Run(Fetch(2) && ReadOutcome(HL),
         /\ Continue(2, 16)
         /\ F' = Tested(Read8(mmu, HL))
         /\ UNCHANGED <<SP, r, mmu>>)

res_r ==
  /\ Prefixed(2)
  /\ OnRegister(r' = [r EXCEPT ![cbTarget] = ClearBit(@, cbBit)] /\ UNCHANGED F)

set_r ==
  /\ Prefixed(3)
  /\ OnRegister(r' = [r EXCEPT ![cbTarget] = SetBit(@, cbBit)] /\ UNCHANGED F)

res_hl == Prefixed(2) /\ OnMemory(ClearBit(Read8(mmu, HL), cbBit), F, 16)
set_hl == Prefixed(3) /\ OnMemory(SetBit(Read8(mmu, HL), cbBit), F, 16)

----------------------------------------------------------------------------
(* The stack, jumps and interrupts *)

(* Mutant: PUSH, unlike CALL and RST, writes the low byte first. *)
push_rr_LowFirst ==
  /\ op \in {\hC5, \hD5, \hE5, \hF5}
  /\ Run(Fetch(1) && PushOutcome,
         LET w == IF pair = 3 THEN Join(r[7], FlagsByte(F)) ELSE Paired
         IN  /\ Continue(1, 16)
             /\ SP' = SP - 2
             /\ mmu' = Pushed(Join(Lo(w), Hi(w)))
             /\ UNCHANGED <<r, F>>)

push_rr ==
  /\ op \in {\hC5, \hD5, \hE5, \hF5}
  /\ Run(Fetch(1) && PushOutcome,
         /\ Continue(1, 16)
         /\ SP' = SP - 2
         /\ mmu' = Pushed(IF pair = 3 THEN Join(r[7], FlagsByte(F)) ELSE Paired)
         /\ UNCHANGED <<r, F>>)

(* Mutant: POP AF keeps the low nibble. *)
pop_rr_KeepsLowNibble ==
  /\ op \in {\hC1, \hD1, \hE1, \hF1}
  /\ Run(Fetch(1) && PopOutcome,
         /\ Continue(1, 16)
         /\ SP' = SP + 2
         /\ r' = IF pair = 3 THEN [r EXCEPT ![7] = Hi(Popped)] ELSE WithPair(pair, Popped)
         /\ F' = IF pair = 3 THEN ByteToFlags(Lo(Popped)) ELSE F
         /\ UNCHANGED mmu)

(* Every POP clears the low nibble of F, whatever it pops into. *)
pop_rr ==
  /\ op \in {\hC1, \hD1, \hE1, \hF1}
  /\ Run(Fetch(1) && PopOutcome,
         /\ Continue(1, 16)
         /\ SP' = SP + 2
         /\ r' = IF pair = 3 THEN [r EXCEPT ![7] = Hi(Popped)] ELSE WithPair(pair, Popped)
         /\ F' = [(IF pair = 3 THEN ByteToFlags(Lo(Popped)) ELSE F) EXCEPT !.unused = 0]
         /\ UNCHANGED mmu)

(* Mutant: the address of the CALL is pushed instead of the next one. *)
Call_PushesOwnAddress(n, target, cycles) ==
  Run(Fetch(n) && PushOutcome,
      /\ PC' = target
      /\ mCycles' = mCycles + cycles
      /\ SP' = SP - 2
      /\ mmu' = Pushed(PC)
      /\ UNCHANGED <<r, F>>)

Call(n, target, cycles) ==
  Run(Fetch(n) && PushOutcome,
      /\ PC' = target
      /\ mCycles' = mCycles + cycles
      /\ SP' = SP - 2
      /\ mmu' = Pushed(PC + n)
      /\ UNCHANGED <<r, F>>)

Conditional(first) == op \in {first, first + 8, first + 16, first + 24}

call_a16 == (op = \hCD \/ (Conditional(\hC4) /\ Taken)) /\ Call(3, imm16, 24)

(* RST n: the opcode holds the target. *)
rst == op \div 64 = 3 /\ src = 7 /\ Call(1, 8 * dst, 16)

(* Mutant: the operand is passed over one byte short. *)
Skip_OneByteShort ==
  /\ Conditional(\hC4) \/ Conditional(\hC2)
  /\ ~Taken
  /\ Run(Pass(2), Continue(2, 12) /\ UNCHANGED <<SP, r, F, mmu>>)

(* A conditional CALL or JP that is not taken does not read its operand. *)
Skip ==
  /\ Conditional(\hC4) \/ Conditional(\hC2)
  /\ ~Taken
  /\ Run(Pass(3), Continue(3, 12) /\ UNCHANGED <<SP, r, F, mmu>>)

Return(cycles) ==
  /\ PC' = Popped
  /\ mCycles' = mCycles + cycles
  /\ SP' = SP + 2
  /\ UNCHANGED <<r, F>>

ret == op = \hC9 /\ Run(Fetch(1) && PopOutcome, Return(16) /\ UNCHANGED mmu)

(* Mutant: RETI is a RET. *)
reti_ForgetsFlag ==
  /\ op = \hD9
  /\ Run(Fetch(1) && PopOutcome, Return(16) /\ UNCHANGED mmu)

reti ==
  /\ op = \hD9
  /\ Run(Fetch(1) && PopOutcome, /\ Return(16)
                                 /\ mmu' = [mmu EXCEPT !.interruptsEnabled = TRUE])

ret_cc ==
  /\ Conditional(\hC0)
  /\ IF Taken
     THEN Run(Fetch(1) && PopOutcome, Return(20) /\ UNCHANGED mmu)
     ELSE Run(Fetch(1), Continue(1, 8) /\ UNCHANGED <<SP, r, F, mmu>>)

Jump(n, target, cycles) ==
  Run(Fetch(n), /\ PC' = target
                /\ mCycles' = mCycles + cycles
                /\ UNCHANGED <<SP, r, F, mmu>>)

jp_a16 == (op = \hC3 \/ (Conditional(\hC2) /\ Taken)) /\ Jump(3, imm16, 16)
jp_hl  == op = \hE9 /\ Jump(1, HL, 4)

(* The relative jumps: JR counts no cycles when it is unconditional. *)
Relative == Wrap16(PC + 2 + Signed(imm8))

jr_r8 == op = \h18 /\ Jump(2, Relative, 0)

jr_cc ==
  /\ Conditional(\h20)
  /\ IF Taken THEN Jump(2, Relative, 12) ELSE Jump(2, PC + 2, 8)

SetInterrupts(b) ==
  Run(Fetch(1), /\ Continue(1, 4)
                /\ mmu' = [mmu EXCEPT !.interruptsEnabled = b]
                /\ UNCHANGED <<SP, r, F>>)

di == op = \hF3 /\ SetInterrupts(FALSE)
ei == op = \hFB /\ SetInterrupts(TRUE)

(* Mutant: LD (C),A is not implemented. *)
Missing_WithLdC ==
  {\h10, \h76, \hD3, \hDB, \hDD, \hE2, \hE3, \hE4, \hEB, \hEC, \hED, \hF4, \hFC, \hFD}

(* The opcodes that the switch leaves to its else branch. *)
Missing == {\h10, \h76, \hD3, \hDB, \hDD, \hE3, \hE4, \hEB, \hEC, \hED, \hF4, \hFC, \hFD}

Unimplemented ==
  /\ op \in Missing
  /\ result = "ok"
  /\ mCycles < CycleLimit
  /\ halt' = TRUE
  /\ result' = "error"
  /\ UNCHANGED state

----------------------------------------------------------------------------
Load ==
  \/ nop \/ ld_r_d8 \/ ld_dhl_d8 \/ ld_r_r \/ ld_rr_d16 \/ ld_r_rr \/ ld_rr_r
  \/ ldh_a_a8 \/ ldh_a8_a \/ ld_a_c \/ ld_c_a \/ ld_a_a16 \/ ld_a16_a
  \/ ld_hli_r \/ ld_a_hli \/ ld_da16_sp \/ ld_hl_sp_r8 \/ ld_sp_hl

Arithmetic ==
  \/ inc_r \/ dec_r \/ inc_dhl \/ dec_dhl \/ inc_rr \/ dec_rr \/ add_hl_rr
  \/ add_sp_r8 \/ alu_r \/ alu_hl \/ alu_d8
  \/ rlca \/ rrca \/ rla \/ rra \/ daa \/ cpl \/ scf \/ ccf

PrefixCB ==
  \/ shift_r \/ shift_hl \/ bit_r \/ bit_hl \/ res_r \/ set_r \/ res_hl \/ set_hl

Control ==
  \/ push_rr \/ pop_rr \/ call_a16 \/ rst \/ Skip \/ ret \/ reti \/ ret_cc
  \/ jp_a16 \/ jp_hl \/ jr_r8 \/ jr_cc \/ di \/ ei \/ Unimplemented

Next == Load \/ Arithmetic \/ PrefixCB \/ Control

(* Core.tick calls tick in every round of main's loop, for as long as no   *)
(* tick has failed: the processor always takes its next step.              *)
Spec == Init /\ [][Next]_vars /\ WF_vars(Next)

----------------------------------------------------------------------------
(* Types.  A register outside its width would be a panic that the guards   *)
(* of the handlers missed.                                                 *)
TypeOK ==
  /\ PC \in Word
  /\ SP \in Word
  /\ r \in [Reg8 -> Byte]
  /\ F \in FlagSet
  /\ mCycles \in Nat
  /\ halt \in BOOLEAN
  /\ IsMemory(mmu)
  /\ result \in Outcomes \cup {"error"}

(* The low nibble of F stays zero, whatever is executed and popped: the    *)
(* handlers that assign the flags one by one never set it, and POP AF,     *)
(* which loads F from memory, clears it.  compare.ex calls a trace line    *)
(* with another low nibble invalid.                                        *)
FlagsValid == F.unused = 0

=============================================================================
