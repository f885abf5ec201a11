------------------------------- MODULE Caret --------------------------------
(***************************************************************************)
(* What a memory editor promises: a caret in each memory, on one of its    *)
(* hexadecimal digits.  Nothing of windows or scrolling.                   *)
(***************************************************************************)
EXTENDS Integers

CONSTANTS
    Areas,                 \* the memories
    Last,                  \* by memory, the position of its last digit
    Steps,                 \* how far one key may move the caret
    Digits                 \* digits one may type

VARIABLES
    text,                  \* by memory and position, the digit there
    caret,                 \* by memory, the position of the caret
    focus,                 \* the memory that keys go to
    step,                  \* how far the last key asked to move the caret
    open                   \* whether the editor has the keyboard

view == <<text, caret, focus, step, open>>

Clamped(p, a) == IF p < 0 THEN 0 ELSE IF p > Last[a] THEN Last[a] ELSE p

Moved(d) == [caret EXCEPT ![focus] = Clamped(@ + d, focus)]

Init == caret = [a \in Areas |-> 0]

Move ==
    /\ open
    /\ step' \in Steps /\ caret' = Moved(step')
    /\ UNCHANGED <<text, focus, open>>

Type ==
    /\ open
    /\ \E h \in Digits : text' = [text EXCEPT ![focus][caret[focus]] = h]
    /\ step' = 1 /\ caret' = Moved(1)
    /\ UNCHANGED <<focus, open>>

Choose ==                      \* another memory, or another part of the program
    /\ focus' \in Areas /\ open' \in BOOLEAN /\ step' = 0
    /\ UNCHANGED <<text, caret>>

Home ==                        \* the editor is opened again, or shows another memory
    /\ caret' = [a \in Areas |-> 0]
    /\ focus' \in Areas /\ open' \in BOOLEAN /\ step' = 0
    /\ UNCHANGED text

Elsewhere == ~open /\ UNCHANGED <<caret, focus, open>>

Next == Move \/ Type \/ Choose \/ Home \/ Elsewhere

Spec == Init /\ [][Next]_view
=============================================================================
