---------------------------- MODULE PriorityNest ----------------------------
(***************************************************************************)
(* What the interrupt system of the emulated 8051 promises, with nothing   *)
(* of how it does it: the service routines in progress form a stack whose  *)
(* priority levels strictly increase, so a routine is only ever suspended  *)
(* by one of a higher level, and the one that returns is the one that was  *)
(* entered last.                                                           *)
(***************************************************************************)
EXTENDS Integers, Sequences

CONSTANT Levels            \* the priority levels, as numbers

VARIABLE nest              \* levels of the routines in progress, oldest first

Top == nest[Len(nest)]

Init == nest = << >>

Enter(l) ==
    /\ nest # << >> => Top < l
    /\ nest' = Append(nest, l)

Return ==
    /\ nest # << >>
    /\ nest' = SubSeq(nest, 1, Len(nest) - 1)

Step == (\E l \in Levels : Enter(l)) \/ Return

Clear == nest' = << >>         \* all at once

Next == Step \/ Clear

Spec == Init /\ [][Next]_nest
=============================================================================
