----------------------------- MODULE MCListing -----------------------------
(* Every opcode, alone: operands, registers, flags and the addresses of    *)
(* code, data and stack at the boundaries of the memory.                   *)
EXTENDS Listing, Sequences, TLC

MCImages    == {"cart"}
MCBootrom   == <<>>
MCCartridge == [i \in MCImages |-> (\h4000 :> \hC9)]

(* The start with an instruction of three bytes at pc, and two bytes on    *)
(* the stack, wherever it points. *)
Start(pc, sp, b, d, h, a, f, code) ==
  LET put(m, x, v) == IF WriteOutcome(x) = "ok" THEN Write8(m, x, v) ELSE m
      m0 == [InitialMemory("cart") EXCEPT !.interruptsEnabled = (f # 0)]
      m1 == put(put(m0, sp, \hFF), sp + 1, \h23)
  IN  [PC |-> pc, SP |-> sp, F |-> ByteToFlags(f),
       r |-> (0 :> Hi(b)) @@ (1 :> Lo(b)) @@ (2 :> Hi(d)) @@ (3 :> Lo(d))
               @@ (4 :> Hi(h)) @@ (5 :> Lo(h)) @@ (7 :> a),
       mmu |-> put(put(put(m1, pc, code[1]), pc + 1, code[2]), pc + 2, code[3])]

AnyOpcode == 0 .. \hFF
Operands  == {<<0, \hC0>>, <<\hFE, \hFF>>, <<\hFF, \hFF>>, <<\h01, \hFE>>, <<\h80, \h41>>}

(* Registers and flags vary; code, data and stack are in work RAM. *)
Middle ==
  {Start(\hD000, \hC800, b, \hD100, \hD1FF, b % 256, f, <<o>> \o x) :
     b \in {\hC100, \h80FF}, f \in {0, \hF0}, o \in AnyOpcode, x \in Operands}

(* Code at the edges of a region, data where an access does not return.    *)
Edges ==
  {Start(pc, sp, h, h, h, \h99, 0, <<o, \h42, \hFF>>) :
     pc \in {\hFDFE, \hFFFD, \hFFFF}, sp \in {\hFFFE},
     h \in {\hFE00, \hFFFF}, o \in AnyOpcode}
  \cup
  {Start(\hD000, sp, h, h, h, \h0F, \h20, <<o, 0, \h50>>) :
     sp \in {1, 2, \hFFFD, \hFFFF, \h6000, \hFE01}, h \in {0, \hFE01},
     o \in AnyOpcode}

(* The table behind the prefix; the byte behind it is the byte at HL. *)
PrefixedCode ==
  {Start(\hD000, \hC800, \h0180, \h00FF, h, a, f, <<\hCB, o, x>>) :
     h \in {\hD002, \h4000}, a \in {\h80, \h4F}, f \in {0, \h10}, o \in AnyOpcode,
     x \in {0, 1, \h5A, \h80, \hFF}}

MCStarts == Middle \cup Edges \cup PrefixedCode

=============================================================================
