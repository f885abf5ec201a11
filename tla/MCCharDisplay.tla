--------------------------- MODULE MCCharDisplay ----------------------------
(***************************************************************************)
(* Two cells of text and one character shape.  The port values are one of  *)
(* six instructions, and their upper halves combine to the others, to      *)
(* addresses and to characters.                                            *)
(***************************************************************************)
EXTENDS CharDisplay

MCPort1 == {5, 16, 32, 48, 64, 129}
MCLeftOver == {0, 129}
=============================================================================
