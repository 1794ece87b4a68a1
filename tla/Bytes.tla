------------------------------- MODULE Bytes -------------------------------
(***************************************************************************)
(* The fixed-width integers of the emulator: u1, u8 and u16, and the Zig   *)
(* operators on them (wrapping arithmetic, shifts, bit masks, bit casts)   *)
(* by what they compute on natural numbers.                                *)
(***************************************************************************)
EXTENDS Integers

Bit  == {0, 1}
Byte == {i \in Nat : i < \h100}
Word == {i \in Nat : i < \h10000}

(* @boolToInt *)
ToBit(p) == IF p THEN 1 ELSE 0

(* +%, -% and << keep the low bits of the result. *)
Wrap8(i)  == i % \h100
Wrap16(i) == i % \h10000

(* The extern unions AF, BC, DE, HL: two bytes seen as one word. *)
Hi(w)        == w \div \h100
Lo(w)        == w % \h100
Join(hi, lo) == \h100 * hi + lo

(* A byte read as a two's complement number. *)
Signed(b) == IF b < \h80 THEN b ELSE b - \h100

(* Bit k of a byte, and the byte that a function of 0..7 into Bit spells. *)
BitOf(b, k) == (b \div <<1, 2, 4, 8, 16, 32, 64, 128>>[k + 1]) % 2

FromBits(f) ==
  f[0] + 2 * f[1] + 4 * f[2] + 8 * f[3]
    + 16 * f[4] + 32 * f[5] + 64 * f[6] + 128 * f[7]

And8(x, y) == FromBits([k \in 0 .. 7 |-> ToBit(BitOf(x, k) = 1 /\ BitOf(y, k) = 1)])
Or8(x, y)  == FromBits([k \in 0 .. 7 |-> ToBit(BitOf(x, k) = 1 \/ BitOf(y, k) = 1)])
Xor8(x, y) == FromBits([k \in 0 .. 7 |-> ToBit(BitOf(x, k) # BitOf(y, k))])

(* r & ~(1 << k) and r | (1 << k) *)
ClearBit(b, k) == FromBits([j \in 0 .. 7 |-> IF j = k THEN 0 ELSE BitOf(b, j)])
SetBit(b, k)   == FromBits([j \in 0 .. 7 |-> IF j = k THEN 1 ELSE BitOf(b, j)])

=============================================================================
