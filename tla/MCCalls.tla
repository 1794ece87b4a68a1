------------------------------ MODULE MCCalls ------------------------------
(* Every program of four instructions of a menu, in work RAM, with a stack *)
(* that grows across the two halves of work RAM.                           *)
EXTENDS Calls, TLC

CONSTANT Slots

MCImages    == {"cart"}
MCCartridge == [i \in MCImages |-> <<>>]

(* RST 08 and a return with nothing on the stack end up here. *)
MCBootrom == <<\hD3, 0, 0, 0, 0, 0, 0, 0, \hD5, \hC1, \hD9>>

Code == \hD000

(* CALL to the second and to the third slot, conditional calls and         *)
(* returns, RST, pushes and pops, and two stores, one with DEC B: DE shows *)
(* the first byte that is pushed, in the lower half of work RAM, and HL    *)
(* the byte above it.                                                      *)
Menu == {<<\hCD, 3, \hD0>>, <<\hC4, 6, \hD0>>, <<\hCF, 0, 0>>, <<\hC9, 0, 0>>, <<\hD8, 0, 0>>,
         <<\hD9, 0, 0>>, <<\hC5, 0, 0>>, <<\hF5, 0, 0>>, <<\hE1, 0, 0>>, <<\hF1, 0, 0>>,
         <<\h77, \h05, 0>>, <<\h12, 0, 0>>}

Program(p) ==
  LET a(n) == <<"WRAM", \hFE00 - (Code + n)>>
      b    == [n \in 0 .. 3 * Slots - 1 |-> p[(n \div 3) + 1][(n % 3) + 1]]
      used == {n \in DOMAIN b : b[n] # 0}
  IN  [c \in {a(n) : n \in used} |-> b[CHOOSE n \in used : a(n) = c]]

MCStarts ==
  {[PC |-> Code, SP |-> Base, F |-> ByteToFlags(\h10), 
    r |-> (0 :> 2) @@ (1 :> 1) @@ (2 :> \hC0) @@ (3 :> \h01) @@ (4 :> \hC0) @@ (5 :> \h02)
            @@ (7 :> \h5F),
    mmu |-> [InitialMemory("cart") EXCEPT !.ram = Program(p)]] : p \in [1 .. Slots -> Menu]}

=============================================================================
