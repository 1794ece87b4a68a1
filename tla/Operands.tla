------------------------------ MODULE Operands ------------------------------
(***************************************************************************)
(* What the instruction at PC is meant to do to the memory: the addresses  *)
(* that its mnemonic stores to and loads from, and its traffic with the    *)
(* stack.  The opcodes are classified by the table of disassembler.zig,    *)
(* not by the handlers of cpu.zig.                                         *)
(***************************************************************************)
EXTENDS Cpu, Disassembler

Calling   == op = \hCD \/ (Conditional(\hC4) /\ Taken)
Resetting == op \div 64 = 3 /\ src = 7
Saving    == op \in {\hC5, \hD5, \hE5, \hF5}
Returning == op \in {\hC9, \hD9} \/ (Conditional(\hC0) /\ Taken)
Restoring == op \in {\hC1, \hD1, \hE1, \hF1}

Pushing == Calling \/ Resetting \/ Saving
Popping == Returning \/ Restoring

When(p, addresses) == IF p THEN addresses ELSE {}

(* The operands that a mnemonic stores to and those that it loads from.    *)
(* Behind the prefix, all but BIT store to (HL).                           *)
StoredOperands ==
  When(op \in IntoByteAtHL \/ (op = \hCB /\ cbTarget = 6 /\ ~Prefixed(1)), {HL})
    \cup When(op \in IntoByteAtPair, {Paired})
    \cup When(op \in IntoByteAtWord, {imm16})
    \cup When(op = \h08, {imm16 + 1})
    \cup When(op = \hE0, {\hFF00 + imm8})
    \cup When(op = \hE2, {\hFF00 + r[1]})

LoadedOperands ==
  When(op \in FromByteAtHL \/ (op = \hCB /\ cbTarget = 6), {HL})
    \cup When(op \in FromByteAtPair, {Paired})
    \cup When(op \in FromByteAtWord, {imm16})
    \cup When(op = \hF0, {\hFF00 + imm8})
    \cup When(op = \hF2, {\hFF00 + r[1]})

Stored == StoredOperands \cup When(Pushing, {SP - 1, SP - 2})
Loaded == LoadedOperands \cup When(Popping, {SP, SP + 1})

=============================================================================
