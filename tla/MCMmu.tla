------------------------------- MODULE MCMmu -------------------------------
(* The memory at the first and last address of every region, two bytes of  *)
(* each ROM that differ.                                                   *)
EXTENDS Mmu, TLC

MCImages == {"cart"}

MCBootrom == (1 :> 1) @@ (\h100 :> \hFF)

MCCartridge == [i \in MCImages |-> (0 :> 7) @@ (\hFF :> 8) @@ (\h100 :> 9) @@ (\h7FFF :> 10)]

MCAddresses ==
  {0, \hFF, \h100, \h3FFF, \h4000, \h7FFF, \h8000, \h9FFF, \hA000, \hBFFF,
   \hC000, \hCFFF, \hD000, \hDFFF, \hEDFF, \hEE00, \hFDFF, \hFE00, \hFE01, \hFE02,
   \hFE9F, \hFEA0, \hFEFF, \hFF00, \hFF01, \hFF42, \hFF44, \hFF50, \hFF7F, \hFF80,
   \hFFFE, \hFFFF}

=============================================================================
