---------------------------- MODULE Disassembler ----------------------------
(***************************************************************************)
(* disassembler.zig: what the table of mnemonics says of each opcode.  The *)
(* text is left out; kept are the operand bytes that a mnemonic announces  *)
(* (d16, a16, d8, a8, r8), the registers it names as a destination, and    *)
(* the bytes of memory it names as a destination or a source.              *)
(***************************************************************************)
EXTENDS Integers

(* d16 and a16 *)
WordOperand == {\h01, \h11, \h21, \h31, \h08, \hC2, \hC3, \hC4, \hCA, \hCC, \hCD,
                \hD2, \hD4, \hDA, \hDC, \hEA, \hFA}

(* d8, a8 and r8, and the byte that PREFIX CB stands before *)
ByteOperand == {\h06, \h0E, \h16, \h18, \h1E, \h20, \h26, \h28, \h2E, \h30, \h36, \h38,
                \h3E, \hC6, \hCB, \hCE, \hD6, \hDE, \hE0, \hE6, \hE8, \hEE, \hF0, \hF6,
                \hF8, \hFE}

InstructionLength(opcode) ==
  IF opcode \in WordOperand THEN 3 ELSE IF opcode \in ByteOperand THEN 2 ELSE 1

(* JR, JP, CALL, RET, RETI and RST: PC may go elsewhere. *)
Branches == {\h18, \h20, \h28, \h30, \h38, \hC0, \hC2, \hC3, \hC4, \hC7, \hC8, \hC9, \hCA,
             \hCC, \hCD, \hCF, \hD0, \hD2, \hD4, \hD7, \hD8, \hD9, \hDA, \hDC, \hDF, \hE7,
             \hE9, \hEF, \hF7, \hFF}

(* "INV", and the two mnemonics that cpu.zig has no handler for *)
Invalid == {\hD3, \hDB, \hDD, \hE3, \hE4, \hEB, \hEC, \hED, \hF4, \hFC, \hFD}
Stops   == {\h10, \h76}  \* STOP 0, HALT

(* The opcodes whose destination is B, C, D, E, H, L or A, numbered as the *)
(* columns of the table number them: INC r, DEC r, LD r,d8 and LD r,r.     *)
IntoRegister(k) ==
  {8 * k + 4, 8 * k + 5, 8 * k + 6} \cup (\h40 + 8 * k .. \h47 + 8 * k)

(* "A" as a destination: the loads, ADD to OR, the rotates, DAA, CPL.  The *)
(* operations written with one operand, SUB B or AND B, act on A. *)
IntoA == IntoRegister(7) \cup {\h07, \h0F, \h17, \h1F, \h27, \h2F, \h0A, \h1A, \h2A, \h3A,
                               \hF0, \hF1, \hF2, \hFA} \cup (\h80 .. \hB7)
           \cup {\hC6, \hCE, \hD6, \hDE, \hE6, \hEE, \hF6}

(* BC, DE and HL as a destination: LD rr,d16, INC rr, DEC rr and POP rr.   *)
IntoPair(p) == {16 * p + 1, 16 * p + 3, 16 * p + 11, \hC1 + 16 * p}
IntoHL      == IntoPair(2) \cup {\h09, \h19, \h29, \h39, \h22, \h2A, \h32, \h3A, \hF8}

(* The registers that the mnemonic of an opcode names as its destination.  *)
Destination(opcode) ==
  {k \in 0 .. 5 : opcode \in IntoRegister(k)}
    \cup {k \in 0 .. 3 : opcode \in IntoPair(k \div 2)}
    \cup (IF opcode \in IntoHL THEN {4, 5} ELSE {})
    \cup (IF opcode \in IntoA THEN {7} ELSE {})

(* "(HL)", "(HL+)" and "(HL-)" as the destination, and as the source.  INC *)
(* and DEC name both at once; JP (HL) names no byte of memory. *)
IntoByteAtHL == {\h22, \h32, \h34, \h35, \h36} \cup ((\h70 .. \h77) \ {\h76})
FromByteAtHL == {\h2A, \h3A, \h34, \h35} \cup {o \in (\h46 .. \hBE) \ {\h76} : o % 8 = 6}

(* "(BC)" and "(DE)"; "(a16)", where SP takes two bytes. *)
IntoByteAtPair == {\h02, \h12}
FromByteAtPair == {\h0A, \h1A}
IntoByteAtWord == {\h08, \hEA}
FromByteAtWord == {\hFA}

=============================================================================
