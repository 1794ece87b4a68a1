-------------------------------- MODULE Alu --------------------------------
(***************************************************************************)
(* What the arithmetic, logic, rotate and adjust handlers of cpu.zig       *)
(* compute, as pure operators.  A result is a record: v is the value       *)
(* stored, and z, n, h, c are the flags the handler assigns.               *)
(***************************************************************************)
EXTENDS Bytes

(* The flags register F of the union AF: the four flags and the low nibble *)
(* that the packed struct names "unused".                                  *)
Nibble  == {i \in Nat : i < 16}
FlagSet == [z : Bit, n : Bit, h : Bit, c : Bit, unused : Nibble]

ClearFlags == [z |-> 0, n |-> 0, h |-> 0, c |-> 0, unused |-> 0]

(* F as a byte and back: the bit casts between F and the low byte of AF. *)
FlagsByte(f)   == 128 * f.z + 64 * f.n + 32 * f.h + 16 * f.c + f.unused
ByteToFlags(b) == [z |-> BitOf(b, 7), n |-> BitOf(b, 6), h |-> BitOf(b, 5),
                   c |-> BitOf(b, 4), unused |-> b % 16]

----------------------------------------------------------------------------
(* 8-bit arithmetic.  INC and DEC leave c alone. *)

Inc8(b) == LET v == Wrap8(b + 1)
           IN  [v |-> v, z |-> ToBit(v = 0), n |-> 0, h |-> ToBit(v % 16 = 0)]

Dec8(b) == LET v == Wrap8(b - 1)
           IN  [v |-> v, z |-> ToBit(v = 0), n |-> 1, h |-> ToBit(v % 16 = 15)]

(* Mutants: the half carry leaves the carry in out; z ignores the top bit. *)
Add8_HalfWithoutCarry(a, b, carry) ==
  LET v == Wrap8(a + b + carry)
  IN  [v |-> v, z |-> ToBit(v = 0), n |-> 0,
       h |-> ToBit((a % 16) + (b % 16) > 15),
       c |-> ToBit(a + b + carry > \hFF)]

Add8_MasksZero(a, b, carry) ==
  LET v == Wrap8(a + b + carry)
  IN  [v |-> v, z |-> ToBit(v % 128 = 0), n |-> 0,
       h |-> ToBit((a % 16) + (b % 16) + carry > 15),
       c |-> ToBit(a + b + carry > \hFF)]

(* ADD is Add8 with no carry in, ADC with the carry flag. *)
Add8(a, b, carry) ==
  LET v == Wrap8(a + b + carry)
  IN  [v |-> v, z |-> ToBit(v = 0), n |-> 0,
       h |-> ToBit((a % 16) + (b % 16) + carry > 15),
       c |-> ToBit(a + b + carry > \hFF)]

(* SUB and CP are Sub8 with no borrow in, SBC with the carry flag. *)
Sub8(a, b, carry) ==
  LET v == Wrap8(a - b - carry)
  IN  [v |-> v, z |-> ToBit(v = 0), n |-> 1,
       h |-> ToBit(a % 16 < (b % 16) + carry),
       c |-> ToBit(a - b - carry < 0)]

(* AND sets h; OR and XOR clear it; all three clear n and c. *)
Logic8(v, half) == [v |-> v, z |-> ToBit(v = 0), n |-> 0, h |-> half, c |-> 0]

----------------------------------------------------------------------------
(* 16-bit arithmetic *)

(* Mutant: h is the carry out of bit 7. *)
Add16_HalfOfLowByte(hl, rr) ==
  [v |-> Wrap16(hl + rr), n |-> 0,
   h |-> ToBit(Lo(hl) + Lo(rr) >= \h100),
   c |-> ToBit(hl + rr >= \h10000)]

(* ADD HL,rr: h is the carry out of bit 11, c out of bit 15; z is kept. *)
Add16(hl, rr) ==
  [v |-> Wrap16(hl + rr), n |-> 0,
   h |-> ToBit((hl % \h1000) + (rr % \h1000) >= \h1000),
   c |-> ToBit(hl + rr >= \h10000)]

(* SP plus a signed byte: the flags come from the unsigned low bytes. *)
AddOffset(sp, b) ==
  [v |-> Wrap16(sp + Signed(b)), z |-> 0, n |-> 0,
   h |-> ToBit((sp % 16) + (b % 16) > 15),
   c |-> ToBit(Lo(sp) + b > \hFF)]

----------------------------------------------------------------------------
(* Rotates and shifts: v, the bit that falls out, and z as the register    *)
(* form computes it.                                                       *)

Shifted(v, out) == [v |-> v, z |-> ToBit(v = 0), n |-> 0, h |-> 0, c |-> out]

(* Mutant: the carry is rotated out but not in. *)
RotateRight_DropsCarry(b, carry) == Shifted(b \div 2, b % 2)

RotateLeftCircular(b)      == Shifted(Wrap8(2 * b) + BitOf(b, 7), BitOf(b, 7))
RotateRightCircular(b)     == Shifted(b \div 2 + 128 * (b % 2), b % 2)
RotateLeft(b, carry)       == Shifted(Wrap8(2 * b) + carry, BitOf(b, 7))
RotateRight(b, carry)      == Shifted(b \div 2 + 128 * carry, b % 2)
ShiftRightArithmetic(b)    == Shifted(b \div 2 + 128 * BitOf(b, 7), b % 2)
ShiftRightLogical(b)       == Shifted(b \div 2, b % 2)
SwapNibbles(b)             == Shifted(b \div 16 + 16 * (b % 16), 0)

(* SLA (HL) sets z when the shifted byte is zero. SLA r tests only the low *)
(* seven bits of the shifted byte.                                         *)
ShiftLeftMemory(b)   == Shifted(Wrap8(2 * b), BitOf(b, 7))
ShiftLeftRegister(b) ==
  [ShiftLeftMemory(b) EXCEPT !.z = ToBit(Wrap8(2 * b) % 128 = 0)]

----------------------------------------------------------------------------
(* Mutant: the low digit is corrected by the half carry only. *)
DecimalAdjust_TrustsHalfCarry(a, f) ==
  LET high == f.c = 1 \/ (f.n = 0 /\ a > \h99)
      mid  == Wrap8(IF ~high THEN a ELSE IF f.n = 0 THEN a + \h60 ELSE a - \h60)
      v    == Wrap8(IF f.h = 0 THEN mid ELSE IF f.n = 0 THEN mid + 6 ELSE mid - 6)
  IN  [v |-> v, z |-> ToBit(v = 0), h |-> 0, c |-> ToBit(high)]

(* DAA: correct A after an addition (n = 0) or a subtraction (n = 1) of    *)
(* binary coded decimals.  n is kept.                                      *)
DecimalAdjust(a, f) ==
  LET high == f.c = 1 \/ (f.n = 0 /\ a > \h99)
      mid  == Wrap8(IF ~high THEN a ELSE IF f.n = 0 THEN a + \h60 ELSE a - \h60)
      low  == f.h = 1 \/ (f.n = 0 /\ mid % 16 > 9)
      v    == Wrap8(IF ~low THEN mid ELSE IF f.n = 0 THEN mid + 6 ELSE mid - 6)
  IN  [v |-> v, z |-> ToBit(v = 0), h |-> 0, c |-> ToBit(high)]

=============================================================================
