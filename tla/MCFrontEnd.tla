----------------------------- MODULE MCFrontEnd -----------------------------
(***************************************************************************)
(* A program of two addresses, where it starts and the interrupt vector,   *)
(* with a breakpoint on either; a history of two lines and counters that   *)
(* wrap at four.                                                           *)
(***************************************************************************)
EXTENDS FrontEnd

MCAddresses == {0, 1}
MCBreakpoints == {0, 1}
=============================================================================
