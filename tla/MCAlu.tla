------------------------------- MODULE MCAlu --------------------------------
(***************************************************************************)
(* Operands at the edges of the byte and of its signed range, and decimal  *)
(* ones whose low digits carry.  Zero is there after reset and CLR.        *)
(***************************************************************************)
EXTENDS Alu

MCOperands == {1, 7, 9, 127, 128, 153, 255}
=============================================================================
