----------------------------- MODULE CpuProofs -----------------------------
(***************************************************************************)
(* The processor for every program, every cartridge and every start: no    *)
(* instruction leaves a register outside its width, and the low nibble of  *)
(* F stays zero.                                                           *)
(***************************************************************************)
EXTENDS Cpu, AluProofs, MemoryProofs

(* The state that an instruction leaves behind when it completes. *)
Valid ==
  /\ PC \in Word
  /\ SP \in Word
  /\ r \in [Reg8 -> Byte]
  /\ F \in FlagSet
  /\ F.unused = 0
  /\ mCycles \in Nat
  /\ IsMemory(mmu)

(* The inductive invariant: the two properties together, since POP AF and  *)
(* PUSH AF carry the nibble between F and the memory. *)
IInv == Valid /\ halt \in BOOLEAN /\ result \in Outcomes \cup {"error"}

LEMMA IInvSplits == IInv <=> TypeOK /\ FlagsValid
BY DEF IInv, Valid, TypeOK, FlagsValid

----------------------------------------------------------------------------
(* The parts of an instruction *)

(* The fields of an opcode name registers, and operands are bytes and      *)
(* words, wherever PC points.                                              *)
LEMMA OperandType ==
  ASSUME Valid
  PROVE  /\ op \in Byte /\ imm8 \in Byte /\ imm16 \in Word
         /\ src \in 0 .. 7 /\ dst \in 0 .. 7 /\ pair \in 0 .. 3
         /\ src # 6 => src \in Reg8
         /\ dst # 6 => dst \in Reg8
         /\ cbTarget \in 0 .. 7 /\ cbBit \in 0 .. 7
         /\ cbTarget # 6 => cbTarget \in Reg8
<1>1. op \in Byte /\ imm8 \in Byte /\ Read8(mmu, PC + 2) \in Byte
  BY ReadType DEF Valid, op, imm8
<1>2. imm16 \in Word
  BY <1>1, JoinType DEF imm16, imm8
<1>3. src \in 0 .. 7 /\ dst \in 0 .. 7 /\ pair \in 0 .. 3
  BY <1>1, SMT DEF src, dst, pair, Byte
<1>4. cbTarget \in 0 .. 7 /\ cbBit \in 0 .. 7
  BY <1>1, SMT DEF cbTarget, cbBit, Byte
<1> QED
  BY <1>1, <1>2, <1>3, <1>4 DEF Reg8

LEMMA PairsType ==
  ASSUME Valid
  PROVE  BC \in Word /\ DE \in Word /\ HL \in Word /\ Paired \in Word
<1>1. \A k \in Reg8 : r[k] \in Byte
  BY DEF Valid
<1>2. BC \in Word /\ DE \in Word /\ HL \in Word
  BY <1>1, JoinType DEF BC, DE, HL, Reg8
<1> QED
  BY <1>2 DEF Paired, Valid

(* Storing a byte in a register and a word in a pair. *)
LEMMA RegisterType ==
  ASSUME NEW q \in [Reg8 -> Byte], NEW k \in Reg8, NEW b \in Byte
  PROVE  [q EXCEPT ![k] = b] \in [Reg8 -> Byte]
OBVIOUS

LEMMA WithPairType ==
  ASSUME Valid, NEW p \in {0, 1, 2}, NEW w \in Word
  PROVE  WithPair(p, w) \in [Reg8 -> Byte]
<1>1. Hi(w) \in Byte /\ Lo(w) \in Byte
  BY HalvesType
<1>2. 2 * p \in Reg8 /\ 2 * p + 1 \in Reg8
  BY DEF Reg8
<1>3. [r EXCEPT ![2 * p] = Hi(w)] \in [Reg8 -> Byte]
  BY <1>1, <1>2, RegisterType DEF Valid
<1> QED
  BY <1>1, <1>2, <1>3, RegisterType DEF WithPair

(* Assigning all flags *)
LEMMA FlagsType ==
  ASSUME NEW res, res.z \in Bit, res.n \in Bit, res.h \in Bit, res.c \in Bit
  PROVE  Flags(res, 0) \in FlagSet /\ Flags(res, 0).unused = 0
BY DEF Flags, FlagSet, Nibble

(* How accesses end, one by one and in sequence. *)
LEMMA OutcomeTypes ==
  /\ \A a : ReadOutcome(a) \in Outcomes /\ WriteOutcome(a) \in Outcomes
  /\ \A n : Fetch(n) \in Outcomes /\ Pass(n) \in Outcomes
  /\ PushOutcome \in Outcomes /\ PopOutcome \in Outcomes
<1>1. \A a : ReadOutcome(a) \in Outcomes /\ WriteOutcome(a) \in Outcomes
  BY DEF ReadOutcome, WriteOutcome, Outcomes
<1>2. ASSUME NEW n PROVE Fetch(n) \in Outcomes
  BY DEF Fetch, Check, Outcomes
<1>3. ASSUME NEW n PROVE Pass(n) \in Outcomes
  BY <1>2 DEF Pass, &&, Check, Outcomes
<1>4. PushOutcome \in Outcomes /\ PopOutcome \in Outcomes
  BY <1>1 DEF PushOutcome, PopOutcome, &&, Check, Outcomes
<1> QED
  BY <1>1, <1>2, <1>3, <1>4

LEMMA Sequenced ==
  ASSUME NEW a \in Outcomes, NEW b \in Outcomes
  PROVE  (a && b) \in Outcomes /\ ((a && b) = "ok" <=> a = "ok" /\ b = "ok")
BY DEF &&

(* What an instruction has passed when it completes. *)
LEMMA Passed ==
  ASSUME Valid, NEW n \in {1, 2, 3}
  PROVE  /\ Fetch(n) = "ok" => PC + n \in Word
         /\ Pass(n) = "ok" => PC + n \in Word
         /\ PushOutcome = "ok" => SP - 2 \in Word
         /\ PopOutcome = "ok" => SP + 2 \in Word
<1>1. Fetch(n) = "ok" => PC + n \in Word
  BY DEF Fetch, Check, Valid, Word
<1>2. Pass(n) = "ok" => PC + n \in Word
  BY DEF Pass, &&, Check, Valid, Word
<1>3. PushOutcome = "ok" => SP - 2 \in Word
  BY DEF PushOutcome, &&, Check, Valid, Word
<1>4. PopOutcome = "ok" => SP + 2 \in Word
  BY DEF PopOutcome, &&, Check, Valid, Word
<1> QED
  BY <1>1, <1>2, <1>3, <1>4

(* The stack moves words. *)
LEMMA StackType ==
  ASSUME Valid
  PROVE  /\ Popped \in Word
         /\ \A w \in Word : IsMemory(Pushed(w))
<1>1. Popped \in Word
  BY ReadType, JoinType DEF Valid, Popped
<1>2. ASSUME NEW w \in Word PROVE IsMemory(Pushed(w))
  BY HalvesType, WriteType DEF Valid, Pushed
<1> QED
  BY <1>1, <1>2

(* An instruction that completes must leave a valid state; one that does   *)
(* not leaves the state it found. *)
LEMMA Completes ==
  ASSUME IInv, NEW outcome \in Outcomes, result' = outcome, UNCHANGED halt,
         outcome = "ok" => Valid', outcome # "ok" => UNCHANGED state
  PROVE  IInv'
BY DEF IInv, Valid, state

----------------------------------------------------------------------------
(* Loads keep the invariant. *)

LEMMA LoadFromStep ==
  ASSUME IInv, NEW k \in Reg8, NEW a, NEW n \in {1, 2, 3}, NEW cycles \in Nat,
         LoadFrom(k, a, n, cycles)
  PROVE  IInv'
<1> DEFINE outcome == Fetch(n) && ReadOutcome(a)
<1>1. outcome \in Outcomes /\ (outcome = "ok" => PC + n \in Word)
  BY OutcomeTypes, Sequenced, Passed DEF IInv
<1>2. result' = outcome /\ UNCHANGED halt /\ (outcome # "ok" => UNCHANGED state)
  BY DEF LoadFrom, Run
<1>3. ASSUME outcome = "ok" PROVE Valid'
  <2>1. [r EXCEPT ![k] = Read8(mmu, a)] \in [Reg8 -> Byte]
    BY ReadType, RegisterType DEF IInv, Valid
  <2> QED
    BY <1>1, <1>3, <2>1 DEF LoadFrom, Run, Continue, IInv, Valid
<1> QED
  BY <1>1, <1>2, <1>3, Completes

LEMMA StoreAtStep ==
  ASSUME IInv, NEW a, NEW k \in Reg8, NEW n \in {1, 2, 3}, NEW cycles \in Nat,
         StoreAt(a, k, n, cycles)
  PROVE  IInv'
<1> DEFINE outcome == Fetch(n) && WriteOutcome(a)
<1>1. outcome \in Outcomes /\ (outcome = "ok" => PC + n \in Word)
  BY OutcomeTypes, Sequenced, Passed DEF IInv
<1>2. result' = outcome /\ UNCHANGED halt /\ (outcome # "ok" => UNCHANGED state)
  BY DEF StoreAt, Run
<1>3. ASSUME outcome = "ok" PROVE Valid'
  <2>1. IsMemory(Write8(mmu, a, r[k]))
    BY WriteType DEF IInv, Valid
  <2> QED
    BY <1>1, <1>3, <2>1 DEF StoreAt, Run, Continue, IInv, Valid
<1> QED
  BY <1>1, <1>2, <1>3, Completes

(* An instruction of n bytes whose only accesses are its own bytes. *)
LEMMA FetchOnly ==
  ASSUME IInv, NEW n \in {1, 2, 3}, result' = Fetch(n), UNCHANGED halt,
         Fetch(n) = "ok" /\ PC + n \in Word => Valid', Fetch(n) # "ok" => UNCHANGED state
  PROVE  IInv'
BY OutcomeTypes, Passed, Completes DEF IInv

LEMMA LoadStep == ASSUME IInv, Load PROVE IInv'
<1>0. Valid
  BY DEF IInv
<1>1. CASE nop
  BY <1>0, <1>1, FetchOnly DEF nop, Run, Continue, Valid
<1>2. CASE ld_r_d8
  <2>1. [r EXCEPT ![dst] = imm8] \in [Reg8 -> Byte]
    BY <1>0, <1>2, OperandType, RegisterType DEF ld_r_d8, Valid
  <2> QED
    BY <1>0, <1>2, <2>1, FetchOnly DEF ld_r_d8, Run, Continue, Valid
<1>3. CASE ld_dhl_d8
  <2> DEFINE outcome == Fetch(2) && WriteOutcome(HL)
  <2>1. outcome \in Outcomes /\ (outcome = "ok" => PC + 2 \in Word)
    BY <1>0, OutcomeTypes, Sequenced, Passed
  <2>2. IsMemory(Write8(mmu, HL, imm8))
    BY <1>0, OperandType, WriteType DEF Valid
  <2>3. outcome = "ok" => Valid'
    BY <1>0, <1>3, <2>1, <2>2 DEF ld_dhl_d8, Run, Continue, Valid
  <2>4. result' = outcome /\ UNCHANGED halt /\ (outcome # "ok" => UNCHANGED state)
    BY <1>3 DEF ld_dhl_d8, Run
  <2> QED
    BY <2>1, <2>3, <2>4, Completes
<1>4. CASE ld_r_r
  <2>1. [r EXCEPT ![dst] = r[src]] \in [Reg8 -> Byte]
    BY <1>0, <1>4, OperandType, RegisterType DEF ld_r_r, Valid
  <2> QED
    BY <1>0, <1>4, <2>1, FetchOnly DEF ld_r_r, Run, Continue, Valid
<1>5. CASE ld_rr_d16
  <2>1. imm16 \in Word /\ (pair # 3 => WithPair(pair, imm16) \in [Reg8 -> Byte])
    BY <1>0, OperandType, WithPairType
  <2> QED
    BY <1>0, <1>5, <2>1, FetchOnly DEF ld_rr_d16, LoadPair, Run, Continue, Valid
<1>6. CASE ld_r_rr
  <2>1. 7 \in Reg8 /\ 8 \in Nat /\ 1 \in {1, 2, 3} /\ (dst # 6 => dst \in Reg8)
    BY <1>0, OperandType DEF Reg8
  <2>2. CASE LoadFrom(7, Paired, 1, 8)
    BY <2>1, <2>2, LoadFromStep
  <2>3. CASE dst # 6 /\ LoadFrom(dst, HL, 1, 8)
    BY <2>1, <2>3, LoadFromStep
  <2> QED
    BY <1>6, <2>2, <2>3 DEF ld_r_rr
<1>7. CASE ld_rr_r
  <2>1. 7 \in Reg8 /\ 8 \in Nat /\ 1 \in {1, 2, 3} /\ (src # 6 => src \in Reg8)
    BY <1>0, OperandType DEF Reg8
  <2>2. CASE StoreAt(Paired, 7, 1, 8)
    BY <2>1, <2>2, StoreAtStep
  <2>3. CASE src # 6 /\ StoreAt(HL, src, 1, 8)
    BY <2>1, <2>3, StoreAtStep
  <2> QED
    BY <1>7, <2>2, <2>3 DEF ld_rr_r
<1>8. CASE ldh_a_a8 \/ ld_a_c \/ ld_a_a16
  BY <1>8, LoadFromStep DEF ldh_a_a8, ld_a_c, ld_a_a16, Reg8
<1>9. CASE ldh_a8_a \/ ld_c_a \/ ld_a16_a
  <2>1. 7 \in Reg8 /\ 8 \in Nat /\ 12 \in Nat /\ 16 \in Nat
    BY DEF Reg8
  <2>2. CASE ldh_a8_a
    BY <2>1, <2>2, StoreAtStep DEF ldh_a8_a
  <2>3. CASE ld_c_a
    BY <2>1, <2>3, StoreAtStep DEF ld_c_a
  <2>4. CASE ld_a16_a
    BY <2>1, <2>4, StoreAtStep DEF ld_a16_a
  <2> QED
    BY <1>9, <2>2, <2>3, <2>4
<1>10. Stepped \in Word
  <2>1. HL + 1 \in Int /\ HL - 1 \in Int
    BY <1>0, PairsType DEF Word
  <2> QED
    BY <2>1, WrapType DEF Stepped
<1>11. CASE ld_hli_r
  <2> DEFINE outcome == Fetch(1) && WriteOutcome(HL)
  <2>1. outcome \in Outcomes /\ (outcome = "ok" => PC + 1 \in Word)
    BY <1>0, OutcomeTypes, Sequenced, Passed
  <2>2. IsMemory(Write8(mmu, HL, r[7])) /\ WithPair(2, Stepped) \in [Reg8 -> Byte]
    BY <1>0, <1>10, WriteType, WithPairType DEF Valid, Reg8
  <2>3. outcome = "ok" => Valid'
    BY <1>0, <1>11, <2>1, <2>2 DEF ld_hli_r, Run, Continue, Valid
  <2>4. result' = outcome /\ UNCHANGED halt /\ (outcome # "ok" => UNCHANGED state)
    BY <1>11 DEF ld_hli_r, Run
  <2> QED
    BY <2>1, <2>3, <2>4, Completes
<1>12. CASE ld_a_hli
  <2> DEFINE outcome == Fetch(1) && ReadOutcome(HL)
  <2>1. outcome \in Outcomes /\ (outcome = "ok" => PC + 1 \in Word)
    BY <1>0, OutcomeTypes, Sequenced, Passed
  <2>2. [WithPair(2, Stepped) EXCEPT ![7] = Read8(mmu, HL)] \in [Reg8 -> Byte]
    BY <1>0, <1>10, ReadType, WithPairType, RegisterType DEF Valid, Reg8
  <2>3. outcome = "ok" => Valid'
    BY <1>0, <1>12, <2>1, <2>2 DEF ld_a_hli, Run, Continue, Valid
  <2>4. result' = outcome /\ UNCHANGED halt /\ (outcome # "ok" => UNCHANGED state)
    BY <1>12 DEF ld_a_hli, Run
  <2> QED
    BY <2>1, <2>3, <2>4, Completes
<1>13. CASE ld_da16_sp
  <2> DEFINE outcome == Fetch(3) && WriteOutcome(imm16) && Check(imm16 + 1 <= \hFFFF)
                          && WriteOutcome(imm16 + 1)
  <2>0. Check(imm16 + 1 <= \hFFFF) \in Outcomes
    BY DEF Check, Outcomes
  <2>1. outcome \in Outcomes /\ (outcome = "ok" => PC + 3 \in Word)
    BY <1>0, <2>0, OutcomeTypes, Sequenced, Passed
  <2>2. IsMemory(Write8(Write8(mmu, imm16, Lo(SP)), imm16 + 1, Hi(SP)))
    BY <1>0, HalvesType, WriteType DEF Valid
  <2>3. outcome = "ok" => Valid'
    BY <1>0, <1>13, <2>1, <2>2 DEF ld_da16_sp, Run, Continue, Valid
  <2>4. result' = outcome /\ UNCHANGED halt /\ (outcome # "ok" => UNCHANGED state)
    BY <1>13 DEF ld_da16_sp, Run
  <2> QED
    BY <2>1, <2>3, <2>4, Completes
<1>14. CASE ld_hl_sp_r8
  <2>1. /\ WithPair(2, AddOffset(SP, imm8).v) \in [Reg8 -> Byte]
        /\ Flags(AddOffset(SP, imm8), 0) \in FlagSet
        /\ Flags(AddOffset(SP, imm8), 0).unused = 0
    BY <1>0, OperandType, AddOffsetType, WithPairType, FlagsType DEF Valid
  <2> QED
    BY <1>0, <1>14, <2>1, FetchOnly DEF ld_hl_sp_r8, Run, Continue, Valid
<1>15. CASE ld_sp_hl
  BY <1>0, <1>15, PairsType, FetchOnly DEF ld_sp_hl, Run, Continue, Valid
<1> QED
  BY <1>1, <1>2, <1>3, <1>4, <1>5, <1>6, <1>7, <1>8, <1>9, <1>11, <1>12, <1>13, <1>14, <1>15
  DEF Load

----------------------------------------------------------------------------
(* Arithmetic and logic keep the invariant. *)

LEMMA ModifyStep ==
  ASSUME IInv, NEW res, res.v \in Byte, res.z \in Bit, res.n \in Bit, res.h \in Bit, Modify(res)
  PROVE  IInv'
<1> DEFINE outcome == Fetch(1) && ReadOutcome(HL) && WriteOutcome(HL)
<1>0. Valid
  BY DEF IInv
<1>1. outcome \in Outcomes /\ (outcome = "ok" => PC + 1 \in Word)
  BY <1>0, OutcomeTypes, Sequenced, Passed
<1>2. IsMemory(Write8(mmu, HL, res.v))
  BY <1>0, WriteType DEF Valid
<1>3. outcome = "ok" => F' \in FlagSet /\ F'.unused = 0
  BY <1>0 DEF Modify, Run, Valid, FlagSet
<1>4. outcome = "ok" => Valid'
  BY <1>0, <1>1, <1>2, <1>3 DEF Modify, Run, Continue, Valid
<1>5. result' = outcome /\ UNCHANGED halt /\ (outcome # "ok" => UNCHANGED state)
  BY DEF Modify, Run
<1> QED
  BY <1>1, <1>4, <1>5, Completes

(* The eight operations of the accumulator *)
LEMMA ResultType == ASSUME Valid, NEW x \in Byte PROVE IsResult(Result(x))
<1>1. r[7] \in Byte /\ F.c \in Bit /\ 0 \in Bit /\ 1 \in Bit
  BY DEF Valid, FlagSet, Reg8, Bit
<1> QED
  BY <1>1, AddType, LogicType, BitwiseType DEF Result

LEMMA AccumulateStep ==
  ASSUME Valid, NEW x \in Byte, NEW n \in {1, 2}, PC + n \in Word, NEW cycles \in Nat,
         Accumulate(x, n, cycles)
  PROVE  Valid'
<1>1. IsResult(Result(x))
  BY ResultType
<1>2. [r EXCEPT ![7] = Result(x).v] \in [Reg8 -> Byte]
  BY <1>1, RegisterType DEF IsResult, Valid, Reg8
<1>3. Flags(Result(x), 0) \in FlagSet /\ Flags(Result(x), 0).unused = 0
  BY <1>1, FlagsType DEF IsResult
<1>4. F' = Flags(Result(x), 0)
  BY DEF Accumulate, Valid
<1>5. r' \in [Reg8 -> Byte]
  BY <1>2 DEF Accumulate, Valid
<1> QED
  BY <1>3, <1>4, <1>5 DEF Accumulate, Continue, Valid

LEMMA RotateAStep ==
  ASSUME IInv, NEW res, IsResult(res), RotateA(res, 0) PROVE IInv'
<1>0. Valid
  BY DEF IInv
<1>1. [r EXCEPT ![7] = res.v] \in [Reg8 -> Byte]
  BY <1>0, RegisterType DEF IsResult, Valid, Reg8
<1>2. Flags([res EXCEPT !.z = 0], 0) \in FlagSet /\ Flags([res EXCEPT !.z = 0], 0).unused = 0
  BY <1>0 DEF Flags, IsResult, FlagSet, Nibble, Bit
<1> QED
  BY <1>0, <1>1, <1>2, FetchOnly DEF RotateA, Run, Continue, Valid

LEMMA SetCarryStep == ASSUME IInv, NEW c \in Bit, SetCarry(c) PROVE IInv'
<1>0. Valid
  BY DEF IInv
<1>1. 0 \in Bit
  BY DEF Bit
<1>2. Fetch(1) = "ok" => F' \in FlagSet /\ F'.unused = 0
  BY <1>0, <1>1 DEF SetCarry, Run, Valid, FlagSet
<1> QED
  BY <1>0, <1>2, FetchOnly DEF SetCarry, Run, Continue, Valid

LEMMA ArithmeticStep == ASSUME IInv, Arithmetic PROVE IInv'
<1>0. Valid /\ 0 \in Bit /\ 1 \in Bit /\ 7 \in Reg8
  BY DEF IInv, Bit, Reg8
<1>1. CASE inc_r
  <2>1. dst \in Reg8 /\ r[dst] \in Byte
    BY <1>0, <1>1, OperandType DEF inc_r, Valid
  <2> DEFINE res == Inc8(r[dst])
  <2>2. [r EXCEPT ![dst] = res.v] \in [Reg8 -> Byte]
    BY <1>0, <2>1, IncDecType, RegisterType DEF Valid
  <2>3. Fetch(1) = "ok" => F' \in FlagSet /\ F'.unused = 0
    BY <1>0, <1>1, <2>1, IncDecType DEF inc_r, Run, Valid, FlagSet
  <2> HIDE DEF res
  <2> QED
    BY <1>0, <1>1, <2>2, <2>3, FetchOnly DEF inc_r, res, Run, Continue, Valid
<1>2. CASE dec_r
  <2>1. dst \in Reg8 /\ r[dst] \in Byte
    BY <1>0, <1>2, OperandType DEF dec_r, Valid
  <2> DEFINE res == Dec8(r[dst])
  <2>2. [r EXCEPT ![dst] = res.v] \in [Reg8 -> Byte]
    BY <1>0, <2>1, IncDecType, RegisterType DEF Valid
  <2>3. Fetch(1) = "ok" => F' \in FlagSet /\ F'.unused = 0
    BY <1>0, <1>2, <2>1, IncDecType DEF dec_r, Run, Valid, FlagSet
  <2> HIDE DEF res
  <2> QED
    BY <1>0, <1>2, <2>2, <2>3, FetchOnly DEF dec_r, res, Run, Continue, Valid
<1>3. CASE inc_dhl \/ dec_dhl
  <2>1. Read8(mmu, HL) \in Byte
    BY <1>0, ReadType DEF Valid
  <2> QED
    BY <1>3, <2>1, IncDecType, ModifyStep DEF inc_dhl, dec_dhl
<1>4. Wrap16(Paired + 1) \in Word /\ Wrap16(Paired - 1) \in Word
  <2>1. Paired + 1 \in Int /\ Paired - 1 \in Int
    BY <1>0, PairsType DEF Word
  <2> QED
    BY <2>1, WrapType
<1>5. CASE inc_rr
  <2>1. pair # 3 => WithPair(pair, Wrap16(Paired + 1)) \in [Reg8 -> Byte]
    BY <1>0, <1>4, OperandType, WithPairType
  <2> QED
    BY <1>0, <1>4, <1>5, <2>1, FetchOnly DEF inc_rr, LoadPair, Run, Continue, Valid
<1>6. CASE dec_rr
  <2>1. pair # 3 => WithPair(pair, Wrap16(Paired - 1)) \in [Reg8 -> Byte]
    BY <1>0, <1>4, OperandType, WithPairType
  <2> QED
    BY <1>0, <1>4, <1>6, <2>1, FetchOnly DEF dec_rr, LoadPair, Run, Continue, Valid
<1>7. CASE add_hl_rr
  <2> DEFINE res == Add16(HL, Paired)
  <2>1. res.v \in Word /\ res.n \in Bit /\ res.h \in Bit /\ res.c \in Bit
    BY <1>0, PairsType, Add16Type
  <2>2. WithPair(2, res.v) \in [Reg8 -> Byte]
    BY <1>0, <2>1, WithPairType
  <2>3. Fetch(1) = "ok" => F' \in FlagSet /\ F'.unused = 0
    BY <1>0, <1>7, <2>1 DEF add_hl_rr, Run, Valid, FlagSet
  <2> HIDE DEF res
  <2> QED
    BY <1>0, <1>7, <2>2, <2>3, FetchOnly DEF add_hl_rr, res, Run, Continue, Valid
<1>8. CASE add_sp_r8
  <2>1. /\ AddOffset(SP, imm8).v \in Word
        /\ Flags(AddOffset(SP, imm8), 0) \in FlagSet
        /\ Flags(AddOffset(SP, imm8), 0).unused = 0
    BY <1>0, OperandType, AddOffsetType, FlagsType DEF Valid
  <2> QED
    BY <1>0, <1>8, <2>1, FetchOnly DEF add_sp_r8, Run, Continue, Valid
<1>9. CASE alu_r
  <2>1. r[src] \in Byte
    BY <1>0, <1>9, OperandType DEF alu_r, Valid
  <2>2. Fetch(1) = "ok" => Accumulate(r[src], 1, IF dst = 5 THEN 1 ELSE 4)
    BY <1>9 DEF alu_r, Run
  <2>3. Fetch(1) = "ok" /\ PC + 1 \in Word => Valid'
    BY <1>0, <2>1, <2>2, AccumulateStep
  <2> QED
    BY <1>9, <2>3, FetchOnly DEF alu_r, Run
<1>10. CASE alu_hl
  <2> DEFINE outcome == Fetch(1) && ReadOutcome(HL)
  <2>1. outcome \in Outcomes /\ (outcome = "ok" => PC + 1 \in Word)
    BY <1>0, OutcomeTypes, Sequenced, Passed
  <2>2. Read8(mmu, HL) \in Byte
    BY <1>0, ReadType DEF Valid
  <2>3. outcome = "ok" => Accumulate(Read8(mmu, HL), 1, 8)
    BY <1>10 DEF alu_hl, Run
  <2>4. outcome = "ok" => Valid'
    BY <1>0, <2>1, <2>2, <2>3, AccumulateStep
  <2>5. result' = outcome /\ UNCHANGED halt /\ (outcome # "ok" => UNCHANGED state)
    BY <1>10 DEF alu_hl, Run
  <2> QED
    BY <2>1, <2>4, <2>5, Completes
<1>11. CASE alu_d8
  <2>1. imm8 \in Byte
    BY <1>0, OperandType
  <2>2. Fetch(2) = "ok" => Accumulate(imm8, 2, IF dst = 3 THEN 4 ELSE 8)
    BY <1>11 DEF alu_d8, Run
  <2>3. Fetch(2) = "ok" /\ PC + 2 \in Word => Valid'
    BY <1>0, <2>1, <2>2, AccumulateStep
  <2> QED
    BY <1>11, <2>3, FetchOnly DEF alu_d8, Run
<1>12. r[7] \in Byte /\ F.c \in Bit /\ F.unused = 0
  BY <1>0 DEF Valid, FlagSet
<1>13. CASE rlca \/ rrca \/ rla \/ rra
  BY <1>12, <1>13, RotatesType, RotateAStep DEF rlca, rrca, rla, rra
<1>14. CASE daa
  <2> DEFINE res == DecimalAdjust(r[7], F)
  <2>1. res.v \in Byte /\ res.z \in Bit /\ res.h \in Bit /\ res.c \in Bit
    BY <1>0, <1>12, DecimalAdjustType DEF Valid
  <2>2. [r EXCEPT ![7] = res.v] \in [Reg8 -> Byte]
    BY <1>0, <2>1, RegisterType DEF Valid
  <2>3. Fetch(1) = "ok" => F' \in FlagSet /\ F'.unused = 0
    BY <1>0, <1>14, <2>1 DEF daa, Run, Valid, FlagSet
  <2> HIDE DEF res
  <2> QED
    BY <1>0, <1>14, <2>2, <2>3, FetchOnly DEF daa, res, Run, Continue, Valid
<1>15. CASE cpl
  <2>1. \hFF - r[7] \in Byte
    BY <1>12 DEF Byte
  <2>2. [r EXCEPT ![7] = \hFF - r[7]] \in [Reg8 -> Byte]
    BY <1>0, <2>1, RegisterType DEF Valid
  <2>3. Fetch(1) = "ok" => F' \in FlagSet /\ F'.unused = 0
    <3>1. ASSUME NEW b \in Bit, F' = [F EXCEPT !.n = b, !.h = b]
          PROVE  F' \in FlagSet /\ F'.unused = 0
      BY <1>0, <3>1 DEF Valid, FlagSet
    <3> QED
      BY <1>0, <1>15, <3>1 DEF cpl, Run
  <2> QED
    BY <1>0, <1>15, <2>2, <2>3, FetchOnly DEF cpl, Run, Continue, Valid
<1>16. CASE scf \/ ccf
  <2>1. 1 - F.c \in Bit
    BY <1>12 DEF Bit
  <2> QED
    BY <1>0, <1>16, <2>1, SetCarryStep DEF scf, ccf
<1> QED
  BY <1>1, <1>2, <1>3, <1>5, <1>6, <1>7, <1>8, <1>9, <1>10, <1>11, <1>13, <1>14, <1>15, <1>16
  DEF Arithmetic

----------------------------------------------------------------------------
(* The instructions behind the prefix keep the invariant. *)

LEMMA RotatedType ==
  ASSUME Valid, NEW b \in Byte, NEW shiftLeft, IsResult(shiftLeft)
  PROVE  IsResult(Rotated(b, shiftLeft))
<1>1. F.c \in Bit
  BY DEF Valid, FlagSet
<1> QED
  BY <1>1, RotatesType DEF Rotated

LEMMA TestedType == ASSUME Valid, NEW b \in Byte PROVE Tested(b) \in FlagSet /\ Tested(b).unused = 0
<1>1. 1 - BitOf(b, cbBit) \in Bit /\ 0 \in Bit /\ 1 \in Bit
  BY OperandType, BitOfType DEF Bit
<1>2. ASSUME NEW z \in Bit, NEW n \in Bit, NEW h \in Bit
      PROVE  /\ [F EXCEPT !.z = z, !.n = n, !.h = h] \in FlagSet
             /\ [F EXCEPT !.z = z, !.n = n, !.h = h].unused = 0
  BY DEF Valid, FlagSet
<1> QED
  BY ONLY <1>1, <1>2 DEF Tested

LEMMA OnMemoryStep ==
  ASSUME IInv, NEW res \in Byte, NEW flags \in FlagSet, flags.unused = 0, NEW cycles \in Nat,
         OnMemory(res, flags, cycles)
  PROVE  IInv'
<1> DEFINE outcome == Fetch(2) && ReadOutcome(HL) && WriteOutcome(HL)
<1>0. Valid
  BY DEF IInv
<1>1. outcome \in Outcomes /\ (outcome = "ok" => PC + 2 \in Word)
  BY <1>0, OutcomeTypes, Sequenced, Passed
<1>2. IsMemory(Write8(mmu, HL, res))
  BY <1>0, WriteType DEF Valid
<1>3. outcome = "ok" => Valid'
  BY <1>0, <1>1, <1>2 DEF OnMemory, Run, Continue, Valid
<1>4. result' = outcome /\ UNCHANGED halt /\ (outcome # "ok" => UNCHANGED state)
  BY DEF OnMemory, Run
<1> QED
  BY <1>1, <1>3, <1>4, Completes

LEMMA PrefixStep == ASSUME IInv, PrefixCB PROVE IInv'
<1>0. Valid /\ F \in FlagSet /\ F.unused = 0
  BY DEF IInv, Valid
<1>1. Read8(mmu, HL) \in Byte /\ cbBit \in 0 .. 7 /\ \A k \in Reg8 : r[k] \in Byte
  BY <1>0, OperandType, ReadType DEF Valid
<1>2. ASSUME NEW b \in Byte
      PROVE  /\ IsResult(Rotated(b, ShiftLeftRegister(b)))
             /\ IsResult(Rotated(b, ShiftLeftMemory(b)))
             /\ ClearBit(b, cbBit) \in Byte /\ SetBit(b, cbBit) \in Byte
  <2>1. F.c \in Bit
    BY <1>0 DEF FlagSet
  <2> QED
    BY <1>0, <1>1, <2>1, RotatesType, RotatedType, ClearSetType
<1>3. CASE shift_r
  <2> DEFINE b == r[cbTarget]
             res == Rotated(b, ShiftLeftRegister(b))
  <2>1. cbTarget \in Reg8
    BY <1>0, <1>3, OperandType DEF shift_r, OnRegister
  <2>2. IsResult(res)
    BY <1>1, <1>2, <2>1
  <2>3. [r EXCEPT ![cbTarget] = res.v] \in [Reg8 -> Byte]
    BY <1>0, <2>1, <2>2, RegisterType DEF Valid, IsResult
  <2>4. Flags(res, 0) \in FlagSet /\ Flags(res, 0).unused = 0
    BY <2>2, FlagsType DEF IsResult
  <2> HIDE DEF res
  <2> QED
    BY <1>0, <1>3, <2>3, <2>4, FetchOnly DEF shift_r, OnRegister, res, Run, Continue, Valid
<1>4. CASE shift_hl
  <2> DEFINE res == Rotated(Read8(mmu, HL), ShiftLeftMemory(Read8(mmu, HL)))
  <2>1. IsResult(res)
    BY <1>1, <1>2
  <2>2. Flags(res, 0) \in FlagSet /\ Flags(res, 0).unused = 0
    BY <2>1, FlagsType DEF IsResult
  <2>3. \E cycles \in Nat : OnMemory(res.v, Flags(res, 0), cycles)
    BY <1>4 DEF shift_hl
  <2> QED
    BY <2>1, <2>2, <2>3, OnMemoryStep DEF IsResult
<1>5. CASE bit_r
  <2>1. cbTarget \in Reg8
    BY <1>0, <1>5, OperandType DEF bit_r, OnRegister
  <2>2. Tested(r[cbTarget]) \in FlagSet /\ Tested(r[cbTarget]).unused = 0
    BY <1>0, <1>1, <2>1, TestedType
  <2> QED
    BY <1>0, <1>5, <2>2, FetchOnly DEF bit_r, OnRegister, Run, Continue, Valid
<1>6. CASE bit_hl
  <2> DEFINE outcome == Fetch(2) && ReadOutcome(HL)
  <2>1. outcome \in Outcomes /\ (outcome = "ok" => PC + 2 \in Word)
    BY <1>0, OutcomeTypes, Sequenced, Passed
  <2>2. Tested(Read8(mmu, HL)) \in FlagSet /\ Tested(Read8(mmu, HL)).unused = 0
    BY <1>0, <1>1, TestedType
  <2>3. outcome = "ok" => Valid'
    BY <1>0, <1>6, <2>1, <2>2 DEF bit_hl, Run, Continue, Valid
  <2>4. result' = outcome /\ UNCHANGED halt /\ (outcome # "ok" => UNCHANGED state)
    BY <1>6 DEF bit_hl, Run
  <2> QED
    BY <2>1, <2>3, <2>4, Completes
<1>7. CASE res_r
  <2>1. cbTarget \in Reg8
    BY <1>0, <1>7, OperandType DEF res_r, OnRegister
  <2>2. [r EXCEPT ![cbTarget] = ClearBit(r[cbTarget], cbBit)] \in [Reg8 -> Byte]
    BY <1>0, <1>1, <1>2, <2>1, RegisterType DEF Valid
  <2> QED
    BY <1>0, <1>7, <2>2, FetchOnly DEF res_r, OnRegister, Run, Continue, Valid
<1>8. CASE set_r
  <2>1. cbTarget \in Reg8
    BY <1>0, <1>8, OperandType DEF set_r, OnRegister
  <2>2. [r EXCEPT ![cbTarget] = SetBit(r[cbTarget], cbBit)] \in [Reg8 -> Byte]
    BY <1>0, <1>1, <1>2, <2>1, RegisterType DEF Valid
  <2> QED
    BY <1>0, <1>8, <2>2, FetchOnly DEF set_r, OnRegister, Run, Continue, Valid
<1>9. CASE res_hl \/ set_hl
  BY <1>0, <1>1, <1>2, <1>9, OnMemoryStep DEF res_hl, set_hl
<1> QED
  BY <1>3, <1>4, <1>5, <1>6, <1>7, <1>8, <1>9 DEF PrefixCB

----------------------------------------------------------------------------
(* The stack, jumps and interrupts keep the invariant. *)

LEMMA CallStep ==
  ASSUME IInv, NEW n \in {1, 2, 3}, NEW target \in Word, NEW cycles \in Nat, Call(n, target, cycles)
  PROVE  IInv'
<1> DEFINE outcome == Fetch(n) && PushOutcome
<1>0. Valid
  BY DEF IInv
<1>1. outcome \in Outcomes /\ (outcome = "ok" => PC + n \in Word /\ SP - 2 \in Word)
  BY <1>0, OutcomeTypes, Sequenced, Passed
<1>2. outcome = "ok" => IsMemory(Pushed(PC + n))
  BY <1>0, <1>1, StackType
<1>3. outcome = "ok" => Valid'
  BY <1>0, <1>1, <1>2 DEF Call, Run, Valid
<1>4. result' = outcome /\ UNCHANGED halt /\ (outcome # "ok" => UNCHANGED state)
  BY DEF Call, Run
<1> QED
  BY <1>1, <1>3, <1>4, Completes

LEMMA JumpStep ==
  ASSUME IInv, NEW n \in {1, 2, 3}, NEW target, Fetch(n) = "ok" => target \in Word,
         NEW cycles \in Nat, Jump(n, target, cycles)
  PROVE  IInv'
<1>0. Valid
  BY DEF IInv
<1> QED
  BY <1>0, FetchOnly DEF Jump, Run, Valid

LEMMA SetInterruptsStep == ASSUME IInv, NEW b \in BOOLEAN, SetInterrupts(b) PROVE IInv'
<1>0. Valid
  BY DEF IInv
<1>1. IsMemory([mmu EXCEPT !.interruptsEnabled = b])
  BY <1>0 DEF Valid, IsMemory
<1> QED
  BY <1>0, <1>1, FetchOnly DEF SetInterrupts, Run, Continue, Valid

LEMMA ControlStep == ASSUME IInv, Control PROVE IInv'
<1>0. Valid /\ r \in [Reg8 -> Byte] /\ F \in FlagSet
  BY DEF IInv, Valid
<1> DEFINE pops == Fetch(1) && PopOutcome
<1>1. pops \in Outcomes /\ (pops = "ok" => PC + 1 \in Word /\ SP + 2 \in Word)
  BY <1>0, OutcomeTypes, Sequenced, Passed
<1>2. Popped \in Word /\ Hi(Popped) \in Byte /\ Lo(Popped) \in Byte
  BY <1>0, StackType, HalvesType
<1>3. CASE push_rr
  <2> DEFINE outcome == Fetch(1) && PushOutcome
             w       == IF pair = 3 THEN Join(r[7], FlagsByte(F)) ELSE Paired
  <2>1. outcome \in Outcomes /\ (outcome = "ok" => PC + 1 \in Word /\ SP - 2 \in Word)
    BY <1>0, OutcomeTypes, Sequenced, Passed
  <2>2. r[7] \in Byte
    BY <1>0 DEF Reg8
  <2>3. IsMemory(Pushed(w))
    BY <1>0, <2>2, FlagsByteType, JoinType, PairsType, StackType
  <2> HIDE DEF w
  <2>4. outcome = "ok" => Valid'
    BY <1>0, <1>3, <2>1, <2>3 DEF push_rr, w, Run, Continue, Valid
  <2>5. result' = outcome /\ UNCHANGED halt /\ (outcome # "ok" => UNCHANGED state)
    BY <1>3 DEF push_rr, Run
  <2> QED
    BY <2>1, <2>4, <2>5, Completes
<1>4. CASE pop_rr
  <2> DEFINE regs == IF pair = 3 THEN [r EXCEPT ![7] = Hi(Popped)] ELSE WithPair(pair, Popped)
             low  == IF pair = 3 THEN ByteToFlags(Lo(Popped)) ELSE F
  <2>1. regs \in [Reg8 -> Byte]
    BY <1>0, <1>2, OperandType, RegisterType, WithPairType DEF Reg8
  <2>2. low \in FlagSet
    BY <1>0, <1>2, FlagsByteType
  <2> HIDE DEF regs, low
  <2>3. pops = "ok" => F' \in FlagSet /\ F'.unused = 0
    <3>1. ASSUME NEW u \in Nibble, F' = [low EXCEPT !.unused = u]
          PROVE  F' \in FlagSet /\ F'.unused = u
      BY <2>2, <3>1 DEF FlagSet
    <3>2. 0 \in Nibble
      BY DEF Nibble
    <3>3. pops = "ok" => F' = [low EXCEPT !.unused = 0]
      BY <1>4 DEF pop_rr, low, Run
    <3> QED
      BY ONLY <3>1, <3>2, <3>3
  <2>4. pops = "ok" => Valid'
    BY <1>0, <1>1, <1>4, <2>1, <2>3 DEF pop_rr, regs, low, Run, Continue, Valid
  <2>5. result' = pops /\ UNCHANGED halt /\ (pops # "ok" => UNCHANGED state)
    BY <1>4 DEF pop_rr, Run
  <2> QED
    BY <1>1, <2>4, <2>5, Completes
<1>5. CASE call_a16
  BY <1>0, <1>5, OperandType, CallStep DEF call_a16
<1>6. CASE rst
  <2>1. 8 * dst \in Word
    BY <1>0, OperandType DEF Word
  <2> QED
    BY <1>6, <2>1, CallStep DEF rst
<1>7. CASE Skip
  <2>1. Pass(3) \in Outcomes /\ (Pass(3) = "ok" => PC + 3 \in Word)
    BY <1>0, OutcomeTypes, Passed
  <2>2. Pass(3) = "ok" => Valid'
    BY <1>0, <1>7, <2>1 DEF Skip, Run, Continue, Valid
  <2> QED
    BY <1>7, <2>1, <2>2, Completes DEF Skip, Run
<1>8. CASE ret
  <2>1. pops = "ok" => Valid'
    BY <1>0, <1>1, <1>2, <1>8 DEF ret, Return, Run, Valid
  <2> QED
    BY <1>1, <1>8, <2>1, Completes DEF ret, Run
<1>9. CASE reti
  <2>1. ASSUME NEW b \in BOOLEAN, mmu' = [mmu EXCEPT !.interruptsEnabled = b]
        PROVE  IsMemory(mmu')
    BY <1>0, <2>1 DEF Valid, IsMemory
  <2>2. pops = "ok" => mmu' = [mmu EXCEPT !.interruptsEnabled = TRUE]
    BY <1>9 DEF reti, Run
  <2>3. pops = "ok" => IsMemory(mmu')
    BY ONLY <2>1, <2>2
  <2>4. pops = "ok" => Valid'
    BY <1>0, <1>1, <1>2, <1>9, <2>3 DEF reti, Return, Run, Valid
  <2> QED
    BY <1>1, <1>9, <2>4, Completes DEF reti, Run
<1>10. CASE ret_cc
  <2>1. CASE Taken
    <3>1. pops = "ok" => Valid'
      BY <1>0, <1>1, <1>2, <1>10, <2>1 DEF ret_cc, Return, Run, Valid
    <3> QED
      BY <1>1, <1>10, <2>1, <3>1, Completes DEF ret_cc, Run
  <2>2. CASE ~Taken
    BY <1>0, <1>10, <2>2, FetchOnly DEF ret_cc, Run, Continue, Valid
  <2> QED
    BY <2>1, <2>2
<1>11. CASE jp_a16
  BY <1>0, <1>11, OperandType, JumpStep DEF jp_a16
<1>12. CASE jp_hl
  BY <1>0, <1>12, PairsType, JumpStep DEF jp_hl
<1>13. Relative \in Word
  <2>1. PC + 2 + Signed(imm8) \in Int
    BY <1>0, OperandType, SignedType DEF Valid, Word
  <2> QED
    BY <2>1, WrapType DEF Relative
<1>14. CASE jr_r8
  BY <1>13, <1>14, JumpStep DEF jr_r8
<1>15. CASE jr_cc
  <2>1. Fetch(2) = "ok" => PC + 2 \in Word
    BY <1>0, Passed
  <2> QED
    BY <1>13, <1>15, <2>1, JumpStep DEF jr_cc
<1>16. CASE di \/ ei
  BY <1>16, SetInterruptsStep DEF di, ei
<1>17. CASE Unimplemented
  BY <1>17 DEF Unimplemented, IInv, Valid, state
<1> QED
  BY <1>3, <1>4, <1>5, <1>6, <1>7, <1>8, <1>9, <1>10, <1>11, <1>12, <1>14, <1>15, <1>16, <1>17
  DEF Control

----------------------------------------------------------------------------
(* The registers keep their widths and the low nibble of F stays zero, in  *)
(* every state of every program. *)
THEOREM Invariant == Spec => []IInv
<1>1. Init => IInv
  <2> SUFFICES ASSUME Init PROVE IInv
    OBVIOUS
  <2>1. PICK s \in Starts : PC = s.PC /\ SP = s.SP /\ r = s.r /\ F = s.F /\ mmu = s.mmu
    BY DEF Init
  <2> QED
    BY <2>1, StartsAssumption DEF Init, IsStart, IInv, Valid, Outcomes
<1>2. IInv /\ [Next]_vars => IInv'
  <2> SUFFICES ASSUME IInv, [Next]_vars PROVE IInv'
    OBVIOUS
  <2>1. CASE UNCHANGED vars
    BY <2>1 DEF vars, IInv, Valid
  <2> QED
    BY <2>1, LoadStep, ArithmeticStep, PrefixStep, ControlStep DEF Next
<1> QED
  BY <1>1, <1>2, PTL DEF Spec

(* No instruction, at any address and on any operands, leaves a register   *)
(* outside its width: where it would, the emulator panics instead.         *)
THEOREM CpuTypeOK == Spec => []TypeOK
BY Invariant, IInvSplits, PTL

(* The low nibble of F stays zero: compare.ex never sees an invalid F.     *)
THEOREM LowNibbleZero == Spec => []FlagsValid
BY Invariant, IInvSplits, PTL

=============================================================================
