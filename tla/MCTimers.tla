------------------------------ MODULE MCTimers -------------------------------
(***************************************************************************)
(* Registers of four values, of which the 13-bit mode counts two: the      *)
(* smallest radices with a carry between the parts and bits of TLx that    *)
(* are not counted.  Each mode of each timer occurs, timer 0 split with    *)
(* timer 1 running, and one timer that counts pins.                        *)
(***************************************************************************)
EXTENDS Timers

Free(m0, m1) == [mode |-> [t \in {0, 1} |-> IF t = 0 THEN m0 ELSE m1],
                 halted |-> [t \in {0, 1} |-> FALSE]]
OnPins(m0, m1) == [Free(m0, m1) EXCEPT !.halted = [t \in {0, 1} |-> t = 0]]

MCTmodValues ==
    {Free(0, 0), Free(1, 1), Free(2, 2), Free(3, 1), Free(3, 2), Free(0, 3), OnPins(2, 0)}
=============================================================================
