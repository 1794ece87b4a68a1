------------------------------- MODULE Raster -------------------------------
(***************************************************************************)
(* What the PPU of lameboy promises, seen from outside: a beam that visits *)
(* every dot of every line in order, one dot per step and for ever, and    *)
(* whose mode is a function of where it is.                                *)
(***************************************************************************)
EXTENDS Integers

CONSTANTS Lines,      \* lines of a frame
          Dots,       \* dots of a line
          Visible,    \* the lines before this one are drawn
          SearchEnd,  \* first dot at which pixels are transferred
          DrawEnd     \* first dot of the horizontal blank

VARIABLES line, dot, mode

vars == <<line, dot, mode>>

(* The mode the beam's position stands for. *)
ModeAt(l, d) ==
  CASE l >= Visible                     -> "VBlank"
    [] l < Visible /\ d < SearchEnd     -> "OAMSearch"
    [] l < Visible /\ d \in SearchEnd .. DrawEnd - 1 -> "PixelTransfer"
    [] OTHER                            -> "HBlank"

Init == line = 0 /\ dot = 0 /\ mode = ModeAt(0, 0)

Advance ==
  /\ dot' = (dot + 1) % Dots
  /\ line' = IF dot + 1 = Dots THEN (line + 1) % Lines ELSE line
  /\ mode' = ModeAt(line', dot')

Spec == Init /\ [][Advance]_vars /\ WF_vars(Advance)

=============================================================================
