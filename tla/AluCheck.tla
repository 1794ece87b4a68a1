------------------------------ MODULE AluCheck ------------------------------
(***************************************************************************)
(* The arithmetic of cpu.zig against reference definitions of what the     *)
(* instructions are for: a ripple-carry adder built of bits, decimal       *)
(* arithmetic, and numbers shifted by powers of two.  The handlers compute *)
(* the same results with masks and comparisons, a flag at a time.          *)
(*                                                                         *)
(* The state is one operand, which runs through all bytes; the properties  *)
(* quantify over the other operand and the carry.                          *)
(***************************************************************************)
EXTENDS Alu

VARIABLE a

Init == a = 0
Next == a' = Wrap8(a + 1)
Spec == Init /\ [][Next]_a

AllBytes == 0 .. \hFF

(* The carry into each bit of x + y + carry, up to the carry out of bit 7. *)
Carries(x, y, carry) ==
  LET into[k \in 0 .. 8] ==
        IF k = 0 THEN carry
        ELSE LET p == BitOf(x, k - 1)
                 q == BitOf(y, k - 1)
             IN  IF p = q THEN p ELSE into[k - 1]
  IN  into

Sum(x, y, into) ==
  FromBits([k \in 0 .. 7 |-> (BitOf(x, k) + BitOf(y, k) + into[k]) % 2])

(* ADD, ADC, SUB and SBC are the adder: h and c are the carries out of     *)
(* bits 3 and 7; a subtraction adds the complement and inverts both, and   *)
(* z tells that the stored byte is zero.                                   *)
AddersRipple ==
  \A b \in AllBytes, carry \in Bit :
    LET up   == Carries(a, b, carry)
        down == Carries(a, \hFF - b, 1 - carry)
        add  == Add8(a, b, carry)
        sub  == Sub8(a, b, carry)
    IN  /\ add.v = Sum(a, b, up) /\ add.h = up[4] /\ add.c = up[8]
        /\ sub.v = Sum(a, \hFF - b, down) /\ sub.h = 1 - down[4] /\ sub.c = 1 - down[8]
        /\ add.z = ToBit(add.v = 0) /\ sub.z = ToBit(sub.v = 0)

(* A program that adds or subtracts decimals with DAA behind every         *)
(* operation computes decimals: DAA must undo what binary carries did, for *)
(* every combination of the flags that the operation leaves.               *)
Decimal(n)    == 16 * (n \div 10) + (n % 10)
IsDecimal(b)  == b % 16 < 10 /\ b \div 16 < 10
Value(b)      == 10 * (b \div 16) + (b % 16)
AfterFlags(x) == [z |-> x.z, n |-> x.n, h |-> x.h, c |-> x.c, unused |-> 0]

DecimalsStayDecimal ==
  IsDecimal(a) =>
    \A m \in 0 .. 99, carry \in Bit :
      LET b    == Decimal(m)
          up   == Add8(a, b, carry)
          down == Sub8(a, b, carry)
          sum  == DecimalAdjust(up.v, AfterFlags(up))
          diff == DecimalAdjust(down.v, AfterFlags(down))
      IN  /\ sum.v = Decimal((Value(a) + m + carry) % 100)
          /\ sum.c = ToBit(Value(a) + m + carry > 99)
          /\ diff.v = Decimal((Value(a) - m - carry) % 100)
          /\ diff.c = ToBit(Value(a) - m - carry < 0)

(* The rotates lose nothing, through carry or not: each is undone by its   *)
(* opposite, and the circular ones leave in c the bit that went round.     *)
(* The shifts double and halve, of numbers with and without a sign, and    *)
(* the bit that is lost is the carry.                                      *)
RotatesAndShifts ==
  /\ RotateRightCircular(RotateLeftCircular(a).v).v = a
  /\ \h100 * RotateLeftCircular(a).c + RotateLeftCircular(a).v
       = 2 * a + RotateLeftCircular(a).c
  /\ RotateRightCircular(RotateLeftCircular(a).v).c = RotateLeftCircular(a).c
  /\ SwapNibbles(SwapNibbles(a).v).v = a
  /\ \A carry \in Bit :
       LET left  == RotateLeft(a, carry)
           right == RotateRight(a, carry)
       IN  /\ RotateRight(left.v, left.c).v = a /\ RotateRight(left.v, left.c).c = carry
           /\ RotateLeft(right.v, right.c).v = a /\ RotateLeft(right.v, right.c).c = carry
  /\ \A left \in {ShiftLeftMemory(a), ShiftLeftRegister(a)} : \h100 * left.c + left.v = 2 * a
  /\ Signed(ShiftRightArithmetic(a).v) = Signed(a) \div 2
  /\ 2 * ShiftRightLogical(a).v + ShiftRightLogical(a).c = a
  /\ 2 * Signed(ShiftRightArithmetic(a).v) + ShiftRightArithmetic(a).c = Signed(a)

(* Words are pairs of bytes: ADD HL,rr is an ADD of the low bytes and an   *)
(* ADC of the high ones, whose h and c it keeps.  An offset to SP is added *)
(* as a signed number, with the flags of an ADD of the low bytes.          *)
Highs == {0, \h0F, \h7F, \h80, \hFF}

WordsAreTwoBytes ==
  \A b \in AllBytes, x \in Highs, y \in Highs :
    LET low    == Add8(a, b, 0)
        high   == Add8(x, y, low.c)
        word   == Add16(Join(x, a), Join(y, b))
        offset == AddOffset(Join(x, a), b)
        sign   == IF b < \h80 THEN 0 ELSE \hFF
    IN  /\ word = [v |-> Join(high.v, low.v), n |-> 0, h |-> high.h, c |-> high.c]
        /\ offset.v = Join(Add8(x, sign, low.c).v, low.v)
        /\ offset.h = low.h /\ offset.c = low.c

(* The z flag tells that the result is zero, after every shift.            *)
ShiftsSetZero ==
  \A res \in {RotateLeftCircular(a), RotateRightCircular(a), RotateLeft(a, 0), RotateRight(a, 0),
              ShiftLeftMemory(a), ShiftLeftRegister(a), ShiftRightArithmetic(a),
              ShiftRightLogical(a), SwapNibbles(a)} :
    res.z = ToBit(res.v = 0)

=============================================================================
