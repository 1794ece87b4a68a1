----------------------------- MODULE AluProofs -----------------------------
(***************************************************************************)
(* The arithmetic of the emulator for all operands: results keep the width *)
(* of the register or flag they are stored in, and ADD HL,rr is made of    *)
(* two 8-bit additions.                                                    *)
(***************************************************************************)
EXTENDS Alu, TLAPS

----------------------------------------------------------------------------
(* Bytes and words *)

(* Wrapping arithmetic stays in range. *)
LEMMA WrapType == ASSUME NEW i \in Int PROVE Wrap8(i) \in Byte /\ Wrap16(i) \in Word
BY DEF Wrap8, Wrap16, Byte, Word

(* Wrapping an integer that is in range, or one range above or below it. *)
LEMMA WrapCases ==
  ASSUME NEW i \in Int
  PROVE  /\ i >= 0 /\ i < \h100 => Wrap8(i) = i
         /\ i >= \h100 /\ i < \h200 => Wrap8(i) = i - \h100
         /\ i >= 0 /\ i < \h10000 => Wrap16(i) = i
         /\ i >= \h10000 /\ i < \h20000 => Wrap16(i) = i - \h10000
         /\ i < 0 /\ i >= -\h10000 => Wrap16(i) = i + \h10000
BY SMT DEF Wrap8, Wrap16

(* A word is its two bytes, and two bytes are a word. *)
LEMMA HalvesType ==
  ASSUME NEW w \in Word
  PROVE  Hi(w) \in Byte /\ Lo(w) \in Byte /\ Join(Hi(w), Lo(w)) = w
BY SMT DEF Hi, Lo, Join, Byte, Word

LEMMA JoinType ==
  ASSUME NEW hi \in Byte, NEW lo \in Byte
  PROVE  Join(hi, lo) \in Word /\ Hi(Join(hi, lo)) = hi /\ Lo(Join(hi, lo)) = lo
BY SMT DEF Hi, Lo, Join, Byte, Word

LEMMA ToBitType == ASSUME NEW p PROVE ToBit(p) \in Bit
BY DEF ToBit, Bit

LEMMA SignedType ==
  ASSUME NEW b \in Byte
  PROVE  Signed(b) \in Int /\ Signed(b) >= -128 /\ Signed(b) < 128
BY SMT DEF Signed, Byte

(* A bit of a byte is a bit, and eight bits are a byte. *)
LEMMA BitOfType == ASSUME NEW b \in Byte, NEW k \in 0 .. 7 PROVE BitOf(b, k) \in Bit
<1>1. <<1, 2, 4, 8, 16, 32, 64, 128>>[k + 1] \in Nat \ {0}
  OBVIOUS
<1>2. ASSUME NEW d \in Nat \ {0} PROVE (b \div d) % 2 \in Bit
  BY DEF Byte, Bit
<1> QED
  BY <1>1, <1>2 DEF BitOf

LEMMA FromBitsType ==
  ASSUME NEW f, \A k \in 0 .. 7 : f[k] \in Bit PROVE FromBits(f) \in Byte
BY SMT DEF FromBits, Bit, Byte

LEMMA BitwiseType ==
  ASSUME NEW x \in Byte, NEW y \in Byte
  PROVE  And8(x, y) \in Byte /\ Or8(x, y) \in Byte /\ Xor8(x, y) \in Byte
BY FromBitsType, ToBitType DEF And8, Or8, Xor8

LEMMA ClearSetType ==
  ASSUME NEW b \in Byte, NEW k \in 0 .. 7
  PROVE  ClearBit(b, k) \in Byte /\ SetBit(b, k) \in Byte
BY FromBitsType, BitOfType DEF ClearBit, SetBit, Bit

----------------------------------------------------------------------------
(* Results: the value is a byte and the flags are bits. *)

IsResult(res) ==
  res.v \in Byte /\ res.z \in Bit /\ res.n \in Bit /\ res.h \in Bit /\ res.c \in Bit

LEMMA IncDecType ==
  ASSUME NEW b \in Byte
  PROVE  /\ Inc8(b).v \in Byte /\ Inc8(b).z \in Bit /\ Inc8(b).n \in Bit /\ Inc8(b).h \in Bit
         /\ Dec8(b).v \in Byte /\ Dec8(b).z \in Bit /\ Dec8(b).n \in Bit /\ Dec8(b).h \in Bit
<1>1. b + 1 \in Int /\ b - 1 \in Int
  BY DEF Byte
<1>2. 0 \in Bit /\ 1 \in Bit
  BY DEF Bit
<1> QED
  BY <1>1, <1>2, WrapType, ToBitType DEF Inc8, Dec8

LEMMA AddType ==
  ASSUME NEW a \in Byte, NEW b \in Byte, NEW carry \in Bit
  PROVE  IsResult(Add8(a, b, carry)) /\ IsResult(Sub8(a, b, carry))
<1>1. a + b + carry \in Int /\ a - b - carry \in Int
  BY DEF Byte, Bit
<1>2. 0 \in Bit /\ 1 \in Bit
  BY DEF Bit
<1> QED
  BY <1>1, <1>2, WrapType, ToBitType DEF Add8, Sub8, IsResult

LEMMA LogicType ==
  ASSUME NEW v \in Byte, NEW half \in Bit PROVE IsResult(Logic8(v, half))
<1>1. 0 \in Bit
  BY DEF Bit
<1> QED
  BY <1>1, ToBitType DEF Logic8, IsResult

LEMMA Add16Type ==
  ASSUME NEW hl \in Word, NEW rr \in Word
  PROVE  /\ Add16(hl, rr).v \in Word /\ Add16(hl, rr).n \in Bit
         /\ Add16(hl, rr).h \in Bit /\ Add16(hl, rr).c \in Bit
<1>1. hl + rr \in Int /\ 0 \in Bit
  BY DEF Word, Bit
<1> QED
  BY <1>1, WrapType, ToBitType DEF Add16

LEMMA AddOffsetType ==
  ASSUME NEW sp \in Word, NEW b \in Byte
  PROVE  LET res == AddOffset(sp, b)
         IN  res.v \in Word /\ res.z \in Bit /\ res.n \in Bit /\ res.h \in Bit /\ res.c \in Bit
<1>1. sp + Signed(b) \in Int /\ 0 \in Bit
  BY SignedType DEF Word, Bit
<1> QED
  BY <1>1, WrapType, ToBitType DEF AddOffset

LEMMA ShiftedType == ASSUME NEW v \in Byte, NEW out \in Bit PROVE IsResult(Shifted(v, out))
<1>1. 0 \in Bit
  BY DEF Bit
<1> QED
  BY <1>1, ToBitType DEF Shifted, IsResult

(* The eight rotates and shifts keep a byte a byte. *)
LEMMA RotatesType ==
  ASSUME NEW b \in Byte, NEW carry \in Bit
  PROVE  /\ IsResult(RotateLeftCircular(b)) /\ IsResult(RotateRightCircular(b))
         /\ IsResult(RotateLeft(b, carry)) /\ IsResult(RotateRight(b, carry))
         /\ IsResult(ShiftRightArithmetic(b)) /\ IsResult(ShiftRightLogical(b))
         /\ IsResult(SwapNibbles(b))
         /\ IsResult(ShiftLeftMemory(b)) /\ IsResult(ShiftLeftRegister(b))
<1>1. BitOf(b, 7) \in Bit /\ b % 2 \in Bit /\ 0 \in Bit
  BY BitOfType DEF Byte, Bit
<1>2. ASSUME NEW bit \in Bit
      PROVE  /\ Wrap8(2 * b) + bit \in Byte
             /\ (b \div 2) + 128 * bit \in Byte
  BY SMT DEF Wrap8, Byte, Bit
<1>3. (b \div 2) \in Byte /\ (b \div 16) + 16 * (b % 16) \in Byte /\ Wrap8(2 * b) \in Byte
  BY SMT DEF Wrap8, Byte
<1>4. IsResult(ShiftLeftMemory(b))
  BY <1>1, <1>3, ShiftedType DEF ShiftLeftMemory
<1>5. IsResult(ShiftLeftRegister(b))
  <2>1. ShiftLeftMemory(b).v \in Byte
    BY <1>4 DEF IsResult
  <2> QED
    BY <1>4, ToBitType DEF ShiftLeftRegister, ShiftLeftMemory, Shifted, IsResult
<1>6. /\ IsResult(RotateLeftCircular(b)) /\ IsResult(RotateLeft(b, carry))
  BY <1>1, <1>2, ShiftedType DEF RotateLeftCircular, RotateLeft
<1>7. IsResult(RotateRightCircular(b)) /\ IsResult(RotateRight(b, carry))
  BY <1>1, <1>2, ShiftedType DEF RotateRightCircular, RotateRight
<1>8. IsResult(ShiftRightArithmetic(b)) /\ IsResult(ShiftRightLogical(b)) /\ IsResult(SwapNibbles(b))
  BY <1>1, <1>2, <1>3, ShiftedType DEF ShiftRightArithmetic, ShiftRightLogical, SwapNibbles
<1> QED
  BY <1>4, <1>5, <1>6, <1>7, <1>8

LEMMA DecimalAdjustType ==
  ASSUME NEW a \in Byte, NEW f \in FlagSet
  PROVE  LET res == DecimalAdjust(a, f)
         IN  res.v \in Byte /\ res.z \in Bit /\ res.h \in Bit /\ res.c \in Bit
<1>1. ASSUME NEW i \in Byte PROVE i \in Int /\ i + \h60 \in Int /\ i - \h60 \in Int
                                 /\ i + 6 \in Int /\ i - 6 \in Int
  BY DEF Byte
<1>2. 0 \in Bit
  BY DEF Bit
<1> QED
  BY <1>1, <1>2, WrapType, ToBitType DEF DecimalAdjust

----------------------------------------------------------------------------
(* 16-bit additions are made of 8-bit ones. *)

(* The flags of an ADD are its carries: with c the stored byte is the sum. *)
LEMMA CarryOut ==
  ASSUME NEW a \in Byte, NEW b \in Byte, NEW carry \in Bit
  PROVE  LET res == Add8(a, b, carry)
         IN  /\ res.v \in Byte /\ res.c \in Bit /\ res.h \in Bit
             /\ \h100 * res.c + res.v = a + b + carry
             /\ res.c = 1 <=> a + b + carry >= \h100
             /\ res.h = 1 <=> (a % 16) + (b % 16) + carry >= 16
<1>1. a + b + carry \in Int /\ a + b + carry >= 0 /\ a + b + carry < \h200
  BY DEF Byte, Bit
<1>2. CASE a + b + carry < \h100
  BY <1>1, <1>2, WrapCases DEF Add8, ToBit, Byte, Bit
<1>3. CASE a + b + carry >= \h100
  BY <1>1, <1>3, WrapCases DEF Add8, ToBit, Byte, Bit
<1> QED
  BY <1>1, <1>2, <1>3

(* ADD HL,rr is an ADD of the low bytes and an ADC of the high ones, whose *)
(* h and c it keeps, for all words: what WordsAreTwoBytes checks on some.  *)
THEOREM WordAddition ==
  ASSUME NEW x \in Byte, NEW a \in Byte, NEW y \in Byte, NEW b \in Byte
  PROVE  LET low  == Add8(a, b, 0)
             high == Add8(x, y, low.c)
         IN  Add16(Join(x, a), Join(y, b))
               = [v |-> Join(high.v, low.v), n |-> 0, h |-> high.h, c |-> high.c]
<1> DEFINE low  == Add8(a, b, 0)
           high == Add8(x, y, low.c)
           hl   == \h100 * x + a
           rr   == \h100 * y + b
<1>1. /\ low.v \in Byte /\ low.c \in Bit
      /\ \h100 * low.c + low.v = a + b
      /\ low.c = 1 <=> a + b >= \h100
  <2>1. 0 \in Bit
    BY DEF Bit
  <2> QED
    BY <2>1, CarryOut DEF Byte
<1>2. /\ high.v \in Byte /\ high.c \in Bit /\ high.h \in Bit
      /\ \h100 * high.c + high.v = x + y + low.c
      /\ high.c = 1 <=> x + y + low.c >= \h100
      /\ high.h = 1 <=> (x % 16) + (y % 16) + low.c >= 16
  BY <1>1, CarryOut
<1> HIDE DEF low, high
<1>3. hl \in Int /\ rr \in Int /\ hl + rr >= 0 /\ hl + rr < \h20000
  BY DEF Byte
<1>4. hl + rr = \h10000 * high.c + Join(high.v, low.v)
  <2> DEFINE lc == low.c
             lv == low.v
             hc == high.c
             hv == high.v
  <2>1. \h100 * lc + lv = a + b /\ \h100 * hc + hv = x + y + lc
    BY <1>1, <1>2
  <2>2. /\ lc \in Int /\ lv \in Int /\ hc \in Int /\ hv \in Int
        /\ x \in Int /\ a \in Int /\ y \in Int /\ b \in Int
    BY <1>1, <1>2 DEF Byte, Bit
  <2> HIDE DEF lc, lv, hc, hv
  <2>3. hl + rr = \h10000 * hc + (\h100 * hv + lv)
    BY <2>1, <2>2
  <2> QED
    BY <2>3 DEF Join, lc, lv, hc, hv
<1>5. Join(high.v, low.v) \in Int /\ Join(high.v, low.v) >= 0 /\ Join(high.v, low.v) < \h10000
  BY <1>1, <1>2 DEF Join, Byte
<1>6. Wrap16(hl + rr) = Join(high.v, low.v) /\ (high.c = 1 <=> hl + rr >= \h10000)
  BY <1>2, <1>3, <1>4, <1>5, WrapCases DEF Bit
<1>7. hl % \h1000 = \h100 * (x % 16) + a /\ rr % \h1000 = \h100 * (y % 16) + b
  BY SMT DEF Byte
<1>8. high.h = 1 <=> (hl % \h1000) + (rr % \h1000) >= \h1000
  <2>1. x % 16 \in 0 .. 15 /\ y % 16 \in 0 .. 15
    BY DEF Byte
  <2> QED
    BY <1>1, <1>2, <1>7, <2>1 DEF Byte, Bit
<1>9. high.c = ToBit(hl + rr >= \h10000) /\ high.h = ToBit((hl % \h1000) + (rr % \h1000) >= \h1000)
  BY <1>2, <1>6, <1>8 DEF ToBit, Bit
<1> QED
  BY <1>6, <1>9 DEF Add16, Join, low, high

----------------------------------------------------------------------------
(* The flags register *)

(* F is a byte, and every byte of the stack is a value of F. *)
LEMMA FlagsByteType ==
  /\ \A f \in FlagSet : FlagsByte(f) \in Byte
  /\ \A b \in Byte : ByteToFlags(b) \in FlagSet
<1>1. ASSUME NEW f \in FlagSet PROVE FlagsByte(f) \in Byte
  BY SMT DEF FlagsByte, FlagSet, Nibble, Bit, Byte
<1>2. ASSUME NEW b \in Byte PROVE ByteToFlags(b) \in FlagSet
  <2>1. b % 16 \in Nibble
    BY DEF Byte, Nibble
  <2> QED
    BY <2>1, BitOfType DEF ByteToFlags, FlagSet
<1> QED
  BY <1>1, <1>2

=============================================================================
