------------------------------- MODULE Calls -------------------------------
(***************************************************************************)
(* The stack of a running program.  cpu.zig keeps no stack: PUSH, POP,     *)
(* CALL, RST, RET and RETI move SP and move bytes of memory, through the   *)
(* same map of the address space that stores use.  Between Base and SP     *)
(* they must make a stack, however calls, pushes and returns interleave.   *)
(* The variable pushed remembers what a stack would hold.                  *)
(***************************************************************************)
EXTENDS Operands, Sequences

CONSTANT Base  \* the value of SP while the stack is empty

ASSUME BaseAssumption == Base \in Word

VARIABLE pushed  \* the words pushed and not yet popped, the oldest first

callVars == <<vars, pushed>>

(* What the instruction is meant to push: CALL the address behind its      *)
(* three bytes, RST the address behind its one, PUSH a pair.               *)
Saved ==
  IF Calling THEN PC + 3
  ELSE IF Resetting THEN PC + 1
  ELSE IF pair = 3 THEN Join(r[7], FlagsByte(F)) ELSE Paired

Top == pushed[Len(pushed)]

Remember ==
  pushed' = IF result' # "ok" THEN pushed
            ELSE IF Pushing THEN Append(pushed, Saved)
            ELSE IF Popping THEN SubSeq(pushed, 1, Len(pushed) - 1)
            ELSE pushed

(* The programs considered: none pops from an empty stack, or stores into  *)
(* the memory that holds the stack, be it through the echo. *)
StackMemory == {Canon(a) : a \in SP .. Base - 1}

Balanced ==
  /\ Popping => pushed # <<>>
  /\ \A a \in StoredOperands : Canon(a) \notin StackMemory
  /\ Next
  /\ Remember

BalancedSpec == Init /\ pushed = <<>> /\ [][Balanced]_callVars

----------------------------------------------------------------------------
(* The words between SP and Base, the oldest first *)
frames ==
  [i \in 1 .. (Base - SP) \div 2 |-> Join(Read8(mmu, Base + 1 - 2 * i), Read8(mmu, Base - 2 * i))]

(* The memory between SP and Base always holds exactly what was pushed and *)
(* not popped, in order, although it lies in two regions of the memory and *)
(* five handlers move it byte by byte.                                     *)
StackHolds == SP = Base - 2 * Len(pushed) /\ frames = pushed

(* The processor implements the stack, in every program that leaves the    *)
(* stack's memory and SP to these instructions. *)
Stack == INSTANCE CallStack WITH Words <- Word, stack <- frames

ImplementsStack == Stack!Spec

(* Returns go to the word on top of the stack: however calls nest, to the  *)
(* address behind the CALL or RST that was not yet returned from, unless a *)
(* PUSH in between has put a pair on top of it.                            *)
ReturnsBehindCalls == [][result' = "ok" /\ Returning => PC' = Top]_callVars

(* A pair that goes through the stack comes back whole, into whatever pair *)
(* it is popped, but for the low nibble of F.                              *)
PopsTop ==
  [][result' = "ok" =>
       /\ op = \hC1 => BC' = Top
       /\ op = \hD1 => DE' = Top
       /\ op = \hE1 => HL' = Top
       /\ op = \hF1 => Join(r'[7], FlagsByte(F')) = 16 * (Top \div 16)]_callVars

=============================================================================
