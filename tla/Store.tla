------------------------------- MODULE Store -------------------------------
(***************************************************************************)
(* What a memory promises: independent locations.  A step changes one      *)
(* writable location, or takes the overlay away: its locations then show,  *)
(* for ever, the bytes it was hiding.                                      *)
(***************************************************************************)
CONSTANTS Locations, ReadOnly, Overlay, Values

VARIABLES contents, hidden

vars == <<contents, hidden>>

Init ==
  /\ contents \in [Locations -> Values]
  /\ hidden \in [Overlay -> Values]

Set(l) ==
  /\ contents'[l] \in Values
  /\ contents' = [contents EXCEPT ![l] = contents'[l]]
  /\ UNCHANGED hidden

Uncover ==
  /\ contents' = [l \in Locations |-> IF l \in Overlay THEN hidden[l] ELSE contents[l]]
  /\ UNCHANGED hidden

Next == Uncover \/ \E l \in Locations \ ReadOnly : Set(l)

Spec == Init /\ [][Next]_vars

=============================================================================
