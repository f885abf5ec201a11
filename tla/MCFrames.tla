------------------------------ MODULE MCFrames -------------------------------
(***************************************************************************)
(* Six cells of RAM and three registers.  Two nested frames and a pushed   *)
(* byte fill the RAM; one push more reaches SP.  The addresses differ in   *)
(* both bytes, so that an exchange of the two is noticed.                  *)
(***************************************************************************)
EXTENDS Frames, TLC

MCTargets == {1}
MCVectorOf == (0 :> 9) @@ (1 :> 11)
=============================================================================
