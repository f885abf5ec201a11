------------------------------ MODULE Editors -------------------------------
(***************************************************************************)
(* The two editors of memory: the view of memeditor.c, which shows five    *)
(* memories at once, and the boxes of the main view, which show one memory *)
(* and the registers.  Both scroll a window of lines over a memory and     *)
(* write the digit a key stands for under a cursor that is relative to the *)
(* window.  Keys arrive with the CPU stopped.                              *)
(*                                                                         *)
(* The loops that bring a cursor back into its window one line at a time   *)
(* are written by the number of lines they take.                           *)
(***************************************************************************)
EXTENDS Integers

CONSTANTS
    Size,                  \* by memory, its bytes: 128, 128, 128, 64k, 64k
    Width,                 \* bytes in a line, 8
    MainRows,              \* lines the main view's cursor moves over, 8
    Heights,               \* lines the terminal may have
    Regs,                  \* registers in a bank, 8
    ACC, B, DPH, DPL, PSW, \* places in the SFR memory
    PSWs,                  \* what a program left in PSW
    Digits,                \* digits typed
    MaxKeys

Areas == 0 .. 4            \* lower, upper, SFR, external, ROM
Low == 0
SFR == 2

(* Lines of the five windows, without their frames. *)
Rows(height, a) ==
    CASE a \in {0, 1} -> height \div 3 - 2
      [] a = 2        -> height - 2 * (height \div 3) - 2
      [] a \in {3, 4} -> height \div 2 - 2

(* A window has lines, and no more of them than its memory, on a terminal  *)
(* of 9 to 54 lines.  Nothing in the code keeps to that.                   *)
Fits(height, a) == Rows(height, a) > 0 /\ Rows(height, a) * Width <= Size[a]

ASSUME SizeAssumption ==
    /\ Width \in Nat \ {0} /\ MainRows \in Nat \ {0}
    /\ Size \in [Areas -> Nat]
    /\ \A a \in Areas : Size[a] % Width = 0 /\ MainRows * Width <= Size[a]
ASSUME HeightsAssumption == Heights \subseteq Nat /\ Heights # {}
ASSUME RegsAssumption ==
    /\ Regs \in Nat \ {0} /\ 4 * Regs <= Size[Low]
    /\ {ACC, B, DPH, DPL, PSW} \subseteq 0 .. Size[SFR] - 1
    /\ ACC \notin {B, DPH, DPL, PSW} /\ B \notin {DPH, DPL, PSW}
    /\ DPH \notin {DPL, PSW} /\ DPL # PSW
ASSUME BytesAssumption ==
    PSWs \subseteq 0 .. 255 /\ Digits \subseteq 0 .. 15 /\ MaxKeys \in Nat

VARIABLES
    mem,                   \* the five memories, by bytes
    view,
    height, oldrows,       \* LINES, and LINES when the main view was last built
    refreshed,             \* whether this turn of the main loop built the view again
    built,                 \* LINES when the memory view was last built
    eds, focus,            \* its five windows: scrolled to, cursor in the window
    main,                  \* the memory box of the main view
    regs,                  \* its register box: has the focus, and its cursor
    keys,
    step                   \* history: how far the last key asked to move a memory's cursor

screen == <<view, height, oldrows, refreshed, built>>
vars == <<mem, screen, eds, focus, main, regs, keys, step>>

Top == [offset |-> 0, cursor |-> 0]
LastReg == 2 * (Regs + 4) - 1  \* A, a bank, B and the two bytes of DPTR

Init ==
    /\ \E psw \in PSWs :
          mem = [a \in Areas |-> [i \in 0 .. Size[a] - 1 |->
                                    IF a = SFR /\ i = PSW THEN psw ELSE 0]]
    /\ view \in {"main", "memory"} /\ height \in Heights /\ oldrows = height
    /\ refreshed = FALSE /\ built = height
    /\ eds = [a \in Areas |-> Top] /\ focus = 0
    /\ main = [mode |-> 0, area |-> Low, offset |-> 0, cursor |-> 0]
    /\ \/ regs = [focus |-> FALSE, cursor |-> 0]
       \/ view = "main" /\ regs \in [focus : {TRUE}, cursor : 0 .. LastReg]
    /\ keys = 0 /\ step = 0

-----------------------------------------------------------------------------
(* Windows. *)

LineDigits == 2 * Width
LinesFor(n) == (n + LineDigits - 1) \div LineDigits

DigitPlace == <<4096, 256, 16, 1>>     \* what a 1 is worth in each digit of DPTR

(* Variants with a slip in them, to see that the properties would notice.  *)
ScrolledDownPastEnd(w, rows, size) ==
    LET over == LinesFor(w.cursor - rows * LineDigits + 1)
    IN  [offset |-> w.offset + over * Width, cursor |-> w.cursor - over * LineDigits]
ScrolledUpToColumn(w) ==
    LET over == LinesFor(-w.cursor)
    IN  IF over * Width > w.offset
        THEN [offset |-> 0, cursor |-> w.cursor % LineDigits]
        ELSE [offset |-> w.offset - over * Width, cursor |-> w.cursor + over * LineDigits]
WithDigitSwapped(byte, right, h) ==
    IF right THEN (byte % 16) + 16 * h ELSE 16 * (byte \div 16) + h
DptrMaskOff(dptr, q, h) ==
    LET place == DigitPlace[q + 1] IN dptr - (dptr % (16 * place)) + h * place

ScrolledUp(w) ==
    LET over == LinesFor(-w.cursor)
    IN  IF over * Width > w.offset THEN Top
        ELSE [offset |-> w.offset - over * Width, cursor |-> w.cursor + over * LineDigits]

ScrolledDown(w, rows, size) ==
    LET over == LinesFor(w.cursor - rows * LineDigits + 1)
        end  == size - rows * Width
    IN  IF w.offset + over * Width > end
        THEN [offset |-> end, cursor |-> rows * LineDigits - 1]
        ELSE [offset |-> w.offset + over * Width, cursor |-> w.cursor - over * LineDigits]

Scrolled(w, rows, size) ==     \* both loops, the second from where the first ends
    LET up == IF w.cursor < 0 THEN ScrolledUp(w) ELSE w
    IN  IF up.cursor >= rows * LineDigits THEN ScrolledDown(up, rows, size) ELSE up

WithDigit(byte, right, h) ==
    IF right THEN 16 * (byte \div 16) + h ELSE (byte % 16) + 16 * h

(* A digit typed at the cursor of a window on memory a.  A window without  *)
(* lines, or higher than its memory, and a main box scrolled for another   *)
(* memory may have their cursor beside it, where the other memories and    *)
(* the rest of struct em8051 lie, or nothing the program reads.            *)
Typed(a, w, h) ==
    LET half == IF w.cursor < 0 THEN -((-w.cursor) \div 2) ELSE w.cursor \div 2
        i == w.offset + half
        right == w.cursor % 2 = 1
    IN  IF i \in 0 .. Size[a] - 1 THEN {[mem EXCEPT ![a][i] = WithDigit(@, right, h)]}
        ELSE {mem} \cup UNION {{[mem EXCEPT ![b][j] = WithDigit(@, right, h)] :
                                 j \in 0 .. Size[b] - 1} : b \in Areas \ {a}}

-----------------------------------------------------------------------------
(* Views. *)

BuildMemory ==                 \* build_memeditor_view keeps the focus
    /\ eds' = [a \in Areas |-> Top] /\ built' = height
    /\ UNCHANGED <<main, oldrows>>

BuildMain ==                   \* build_main_view keeps mode, offset and cursor
    /\ main' = [main EXCEPT !.area = Low] /\ oldrows' = height
    /\ UNCHANGED <<eds, built>>

Build(v) ==
    CASE v = "memory" -> BuildMemory
      [] v = "main"   -> BuildMain
      [] v = "other"  -> UNCHANGED <<eds, built, main, oldrows>>

Resize ==                      \* while the loop waits for a key
    /\ keys < MaxKeys /\ ~refreshed
    /\ height' \in Heights \ {height}
    /\ keys' = keys + 1 /\ step' = 0
    /\ UNCHANGED <<mem, view, oldrows, refreshed, built, eds, focus, main, regs>>

Refresh ==                     \* before every key, until the main view is built
    /\ height # oldrows /\ ~refreshed
    /\ Build(view)
    /\ refreshed' = TRUE /\ step' = 0
    /\ UNCHANGED <<mem, view, height, focus, regs, keys>>

Key ==                         \* the turn of the main loop that handles a key
    /\ keys < MaxKeys
    /\ height = oldrows \/ refreshed
    /\ keys' = keys + 1
    /\ refreshed' = FALSE
    /\ UNCHANGED height

KeyView(v) ==                  \* and pop-ups, which build the present view again
    /\ Key
    /\ view' = v /\ Build(v) /\ step' = 0
    /\ UNCHANGED <<mem, focus, regs>>

-----------------------------------------------------------------------------
(* memeditor_editor_keys.  Upper and external memory are always there.     *)

MemoryKey ==
    /\ Key /\ view = "memory"
    /\ UNCHANGED <<view, oldrows, built, main, regs>>

Page == Rows(built, focus) * LineDigits

MoveCursor(d) ==
    /\ step' = d
    /\ LET w == [offset |-> eds[focus].offset, cursor |-> eds[focus].cursor + d]
       IN  eds' = [eds EXCEPT ![focus] = Scrolled(w, Rows(built, focus), Size[focus])]

MemoryTab ==
    /\ MemoryKey
    /\ focus' = (focus + 1) % 5 /\ step' = 0
    /\ UNCHANGED <<mem, eds>>

MemoryMove ==
    /\ MemoryKey
    /\ \E d \in {1, LineDigits, Page} : MoveCursor(d) \/ MoveCursor(-d)
    /\ UNCHANGED <<mem, focus>>

MemoryType(h) ==
    /\ MemoryKey
    /\ mem' \in Typed(focus, eds[focus], h)
    /\ MoveCursor(1)
    /\ UNCHANGED focus

-----------------------------------------------------------------------------
(* mainview_editor_keys. *)

MainKey ==
    /\ Key /\ view = "main"
    /\ UNCHANGED <<view, oldrows, built, eds, focus>>

(* The scroll limit is that of the mode, whatever memory is shown. *)
MoveMain(d) ==
    LET w == Scrolled([offset |-> main.offset, cursor |-> main.cursor + d],
                      MainRows, Size[main.mode])
    IN  /\ main' = [main EXCEPT !.offset = w.offset, !.cursor = w.cursor]
        /\ step' = d

RegCursor(c) == IF regs.focus /\ c > LastReg THEN LastReg ELSE IF c < 0 THEN 0 ELSE c

MainTab ==
    /\ MainKey
    /\ regs' = [focus |-> ~regs.focus, cursor |-> 0] /\ step' = 0
    /\ UNCHANGED <<mem, main>>

MainMode ==
    /\ MainKey
    /\ LET next == (main.mode + 1) % 5
       IN  main' = [mode |-> next, area |-> next, offset |-> 0, cursor |-> 0]
    /\ step' = 0
    /\ UNCHANGED <<mem, regs>>

MainPage ==                    \* whichever box has the focus
    /\ MainKey
    /\ \E d \in {MainRows * LineDigits, -MainRows * LineDigits} : MoveMain(d)
    /\ UNCHANGED <<mem, regs>>

MainSide ==                    \* right and left: both cursors, in the memory box
    /\ MainKey
    /\ \E d \in {1, -1} :
          /\ IF regs.focus THEN UNCHANGED main /\ step' = 0 ELSE MoveMain(d)
          /\ regs' = [regs EXCEPT !.cursor = RegCursor(@ + d)]
    /\ UNCHANGED mem

MainLine ==                    \* up and down
    /\ MainKey
    /\ ~regs.focus
    /\ \E d \in {LineDigits, -LineDigits} : MoveMain(d)
    /\ UNCHANGED <<mem, regs>>

MainType(h) ==
    /\ MainKey
    /\ ~regs.focus
    /\ mem' \in Typed(main.area, main, h)
    /\ MoveMain(1)
    /\ UNCHANGED regs

(* getregoutput and setregoutput: A, a bank of registers, B, DPTR. *)
BankOf(psw) == (psw \div 8) % 4

RegisterCell(k) ==
    CASE k = 0             -> <<SFR, ACC>>
      [] k \in 1 .. Regs   -> <<Low, Regs * BankOf(mem[SFR][PSW]) + k - 1>>
      [] k = Regs + 1      -> <<SFR, B>>

WithDptrDigit(dptr, q, h) ==
    LET place == DigitPlace[q + 1]
    IN  dptr - ((dptr \div place) % 16) * place + h * place

RegisterTyped(h) ==
    LET k == regs.cursor \div 2
        c == RegisterCell(k)
        dptr == WithDptrDigit(256 * mem[SFR][DPH] + mem[SFR][DPL],
                              regs.cursor - 2 * (Regs + 2), h)
    IN  IF k > Regs + 1
        THEN [mem EXCEPT ![SFR][DPH] = dptr \div 256, ![SFR][DPL] = dptr % 256]
        ELSE [mem EXCEPT ![c[1]][c[2]] = WithDigit(@, regs.cursor % 2 = 1, h)]

MainTypeRegister(h) ==
    /\ MainKey
    /\ regs.focus
    /\ mem' = RegisterTyped(h)
    /\ regs' = [regs EXCEPT !.cursor = RegCursor(@ + 1)] /\ step' = 0
    /\ UNCHANGED main

Next ==
    \/ Resize \/ Refresh
    \/ \E v \in {"main", "memory", "other"} : KeyView(v)
    \/ MemoryTab \/ MemoryMove \/ \E h \in Digits : MemoryType(h)
    \/ MainTab \/ MainMode \/ MainPage \/ MainSide \/ MainLine
    \/ \E h \in Digits : MainType(h) \/ MainTypeRegister(h)

Spec == Init /\ [][Next]_vars

-----------------------------------------------------------------------------
(* Properties. *)

InWindow(w, rows, size) ==
    /\ w.offset \in 0 .. size - rows * Width /\ w.offset % Width = 0
    /\ w.cursor \in 0 .. rows * LineDigits - 1

(* Every window of the memory view that fits its memory is within it, and  *)
(* its cursor within the window, after any keys, changes of view and of    *)
(* the terminal's size; the box of the main view, while it shows the       *)
(* memory its title names, has its cursor on a digit of that memory (seven *)
(* lines of it are drawn and the cursor moves over eight); and that of the *)
(* registers is on a digit of a register.  Of a window higher than its     *)
(* memory, and of lower RAM shown where another memory was scrolled to,    *)
(* nothing is claimed.                                                     *)
CursorsOnMemory ==
    /\ \A a \in Areas : Fits(built, a) => InWindow(eds[a], Rows(built, a), Size[a])
    /\ main.area = main.mode =>
         /\ main.offset \in Nat /\ main.offset % Width = 0 /\ main.cursor \in Nat
         /\ main.offset + main.cursor \div 2 < Size[main.area]
    /\ regs.cursor \in Nat /\ (regs.focus => regs.cursor <= LastReg)
    /\ focus \in Areas /\ main.mode \in Areas /\ main.area \in {Low, main.mode}
    /\ \A a \in Areas : mem[a] \in [0 .. Size[a] - 1 -> 0 .. 255]

Half(a, p) == IF p % 2 = 0 THEN mem[a][p \div 2] \div 16 ELSE mem[a][p \div 2] % 16
Halves == [a \in Areas |-> [p \in 0 .. 2 * Size[a] - 1 |-> Half(a, p)]]
Position(w) == 2 * w.offset + w.cursor
LastDigit == [a \in Areas |-> 2 * Size[a] - 1]
Pages == {Rows(h, a) * LineDigits : h \in Heights, a \in Areas} \cup {MainRows * LineDigits}
KeySteps == {1, -1, LineDigits, -LineDigits} \cup Pages \cup {-p : p \in Pages}

(* The memory view is a caret in each memory its window fits: windows, the *)
(* scrolling of them and two digits to a byte do not show in what keys do. *)
MemoryCaret == INSTANCE Caret WITH
    Areas <- Areas, Last <- LastDigit, Steps <- KeySteps, Digits <- Digits,
    text <- Halves, focus <- focus, step <- step,
    caret <- [a \in Areas |-> IF Fits(built, a) THEN Position(eds[a]) ELSE 0],
    open <- view = "memory" /\ Fits(built, focus)
CaretSpec == MemoryCaret!Spec

(* So is the memory box of the main view while it shows the memory its     *)
(* title names: from a press of M until the view is built again.           *)
BoxCaret == INSTANCE Caret WITH
    Areas <- Areas, Last <- LastDigit, Steps <- KeySteps, Digits <- Digits,
    text <- Halves,
    caret <- [a \in Areas |-> IF a = main.mode THEN Position(main) ELSE 0],
    focus <- main.mode, step <- step, open <- view = "main"
MainViewCaret ==
    [][(main.area = main.mode /\ ~(regs.focus /\ mem' # mem)) =>
         BoxCaret!Next \/ UNCHANGED BoxCaret!view]_vars

(* The register box as it is drawn: A, R0 and the rest of the bank that    *)
(* PSW selects, B, DPTR.                                                   *)
Row == [p \in 0 .. LastReg |->
          LET k == p \div 2
          IN  IF k = 0 THEN Half(SFR, 2 * ACC + (p % 2))
              ELSE IF k <= Regs
              THEN Half(Low, 2 * (Regs * BankOf(mem[SFR][PSW]) + k - 1) + (p % 2))
              ELSE Half(SFR, 2 * (IF k = Regs + 1 THEN B
                                  ELSE IF k = Regs + 2 THEN DPH ELSE DPL) + (p % 2))]

(* A digit typed in the register box replaces the digit under its cursor   *)
(* and no other one shown, and leaves the memories the box does not show.  *)
RegisterDigit ==
    [][(view = "main" /\ regs.focus /\ mem' # mem) =>
         /\ \E h \in Digits : Row' = [Row EXCEPT ![regs.cursor] = h]
         /\ \A a \in Areas \ {Low, SFR} : mem'[a] = mem[a]
         /\ mem'[SFR][PSW] = mem[SFR][PSW]]_vars
=============================================================================
