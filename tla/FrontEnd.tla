------------------------------ MODULE FrontEnd ------------------------------
(***************************************************************************)
(* The main loop of emu.c: keys, run mode and single steps, the slots of   *)
(* ticks between two looks at the keyboard, the breakpoint, and the ring   *)
(* of executed instructions that the main view prints.                     *)
(*                                                                         *)
(* The CPU is what tick() looks like from here (module TickCore has the    *)
(* inside): a tick waits, enters an interrupt routine, or executes one     *)
(* instruction, after which the program counter may be anywhere.  While it *)
(* executes, a pop-up may ask the user for the value of a port, or report  *)
(* an exception; both leave run mode.                                      *)
(*                                                                         *)
(* A line of the history is the program counter it was recorded with; the  *)
(* registers saved beside it are left out.  Counters are unsigned and wrap *)
(* at Word (2^32).                                                         *)
(***************************************************************************)
EXTENDS Integers, Sequences

CONSTANTS
    Addresses,             \* where the program counter can be
    VectorPC,              \* where the interrupt routine starts
    Breakpoints,           \* addresses the user may set the breakpoint to
    HistoryLines,          \* HISTORY_LINES, 20
    RebuildLines,          \* lines printed when the main view is built, 8
    SlotClocks,            \* ticks of a slot in paced run mode
    Waits,                 \* ticks an instruction may wait after its first, 0 to 3
    Word

NoBreakpoint == -1

ASSUME AddressesAssumption ==
    Addresses \subseteq Nat /\ 0 \in Addresses /\ VectorPC \in Addresses
    /\ Breakpoints \subseteq Addresses
ASSUME HistoryAssumption ==
    /\ HistoryLines \in Nat \ {0} /\ RebuildLines \in 0 .. HistoryLines
    /\ Word \in Nat /\ HistoryLines < Word
ASSUME SlotAssumption ==       \* a clock of at least 12 kHz at speed 2, 1.2 kHz above
    SlotClocks \in 1 .. Word - 1
ASSUME WaitsAssumption == Waits # {} /\ Waits \subseteq 0 .. 3

VARIABLES
    mPC,                   \* the CPU
    waits,                 \* mTickDelay - 1, or 0: ticks before the next boundary
    runmode, speed, breakpoint, opt_step_instruction, view,
    at,                    \* where the main loop is: "key", "loop" or "draw"
    old_pc, targetclocks,
    timeLeft,              \* targettime > getTick()
    history, historyline, icount, lastclock,
    recent,                \* history: the instructions executed last, newest last
    missed,                \* history: how many the main view has not printed
    entered,               \* history: interrupts entered in this step
    interrupted,           \* history: where mPC was when the first of them was entered
    arrived                \* history: the user was "stopped" with mPC where it is, a
                           \* "reset" put it there, or the program "ran" there

cpu == <<mPC, waits>>
settings == <<speed, breakpoint, opt_step_instruction>>
slot == <<old_pc, targetclocks, timeLeft, entered, interrupted>>
ring == <<history, historyline, icount, recent>>
seen == <<lastclock, missed>>
vars == <<cpu, runmode, settings, view, at, slot, ring, seen, arrived>>

(* Speed 3 stands for 3 to 7, which differ in how long getch waits; 0 is   *)
(* the one at which the main view prints no history.                       *)
Speeds == {0, 3}
Lines == 0 .. HistoryLines - 1

Init ==
    /\ mPC = 0 /\ waits = 0
    /\ runmode = FALSE /\ speed = 3 /\ breakpoint = NoBreakpoint
    /\ opt_step_instruction = FALSE /\ view = "main"
    /\ at = "draw" /\ old_pc = 0 /\ targetclocks = 0 /\ timeLeft = FALSE
    /\ history = [i \in Lines |-> 0] /\ historyline = 0 /\ icount = 0
    /\ lastclock = (0 - RebuildLines) % Word
    /\ recent = [i \in 1 .. HistoryLines |-> 0] /\ missed = RebuildLines
    /\ entered = 0 /\ interrupted = 0 /\ arrived = "stopped"

-----------------------------------------------------------------------------
(* Variants with a slip in them, to see that the properties would notice.  *)
LoopsOnEither(time, left) == time \/ left # 0
ReplayOffByOne(h, line, n) ==
    [i \in 1 .. n |-> h[(line - n + HistoryLines + i - 1) % HistoryLines]]
StopsAtTicked(done, next) == done /\ waits' > 0 /\ next = breakpoint

-----------------------------------------------------------------------------
Saturated(n) == IF n < Word THEN n ELSE Word

(* build_main_view forgets how far it had printed. *)
Rebuild(count) ==
    /\ lastclock' = (count - RebuildLines) % Word
    /\ missed' = RebuildLines

KeepView == UNCHANGED <<view, seen>>

ChangeView(v) ==               \* change_view, by key or by a pop-up
    /\ view' = v
    /\ IF v = "main" THEN Rebuild(icount) ELSE UNCHANGED seen

(* What mainview_update prints: the last n lines of the ring. *)
Unprinted == (icount - lastclock) % Word
Printable == IF Unprinted > HistoryLines THEN HistoryLines ELSE Unprinted

Replay(h, line, n) ==
    [i \in 1 .. n |-> h[(line - n + HistoryLines + i) % HistoryLines]]

Prints == view = "main" /\ (speed # 0 \/ ~runmode)

Draw ==
    /\ at = "draw"
    /\ at' = "key"
    /\ IF Prints THEN lastclock' = icount /\ missed' = 0 ELSE UNCHANGED seen
    /\ arrived' = IF runmode THEN arrived ELSE "stopped"
    /\ UNCHANGED <<cpu, runmode, settings, view, slot, ring>>

-----------------------------------------------------------------------------
(* Keys.  Each is followed by a slot if the CPU is to run, else by a draw. *)

(* The slot is one tick, or in paced run mode as many as fit in its time.  *)
(* Space stops run mode and takes one step.                                *)
StepRunmode == FALSE

Proceed(space) ==
    LET paced == runmode' /\ speed' < 3 /\ ~space
    IN  IF space \/ runmode'
        THEN /\ at' = "loop" /\ old_pc' = mPC' /\ entered' = 0 /\ interrupted' = 0
             /\ targetclocks' = IF paced THEN SlotClocks ELSE 1
             /\ timeLeft' = paced
        ELSE at' = "draw" /\ UNCHANGED slot

KeyStep ==
    /\ at = "key" /\ runmode' = StepRunmode
    /\ KeepView /\ UNCHANGED <<cpu, settings, ring, arrived>>
    /\ Proceed(TRUE)

KeyRun ==
    /\ at = "key" /\ runmode' = ~runmode
    /\ KeepView /\ UNCHANGED <<cpu, settings, ring, arrived>>
    /\ Proceed(FALSE)

KeyNone ==                     \* getch gave up, or a key that only edits
    /\ at = "key"
    /\ KeepView /\ UNCHANGED <<cpu, runmode, settings, ring, arrived>>
    /\ Proceed(FALSE)

KeyView(v) ==
    /\ at = "key" /\ ChangeView(v)
    /\ UNCHANGED <<cpu, runmode, settings, ring, arrived>>
    /\ Proceed(FALSE)

KeySpeed ==
    /\ at = "key" /\ speed' \in Speeds
    /\ KeepView
    /\ UNCHANGED <<cpu, runmode, breakpoint, opt_step_instruction, ring, arrived>>
    /\ Proceed(FALSE)

KeyOption ==                   \* in the options view
    /\ at = "key" /\ view = "other"
    /\ opt_step_instruction' = ~opt_step_instruction
    /\ KeepView
    /\ UNCHANGED <<cpu, runmode, speed, breakpoint, ring, arrived>>
    /\ Proceed(FALSE)

KeyReset ==                    \* z and Z: reset() alone, and run mode goes on
    /\ at = "key"
    /\ mPC' = 0 /\ waits' = 0 /\ arrived' = "reset"
    /\ KeepView /\ UNCHANGED <<runmode, settings, ring>>
    /\ Proceed(FALSE)

(* These open a pop-up, which leaves run mode and builds the view again.   *)
Popup ==
    /\ at = "key" /\ at' = "draw"
    /\ runmode' = FALSE /\ arrived' = "stopped"
    /\ ChangeView(view)
    /\ UNCHANGED <<slot, ring>>

KeyBreakpoint ==
    /\ Popup
    /\ IF breakpoint = NoBreakpoint THEN breakpoint' \in Breakpoints
       ELSE breakpoint' = NoBreakpoint
    /\ UNCHANGED <<cpu, speed, opt_step_instruction>>

KeyGoto ==                     \* also S)et PC = 0; the instruction in progress still waits
    /\ Popup
    /\ mPC' \in Addresses
    /\ UNCHANGED <<waits, settings>>

KeyLoad == Popup /\ UNCHANGED <<cpu, settings>>

KeyHome ==                     \* R)eset or W)ipe
    /\ Popup
    /\ mPC' = 0 /\ waits' = 0
    /\ UNCHANGED settings

-----------------------------------------------------------------------------
(* One turn of the inner loop: a tick, and what follows it. *)

(* emu_exception discards the keys typed ahead and so takes longer than    *)
(* any slot.                                                               *)
StopsAt(done, next) == done /\ next = breakpoint

Loops(time, left) == time /\ left # 0

NextLine(line) == (line + 1) % HistoryLines

Record ==
    /\ icount' = (icount + 1) % Word
    /\ historyline' = NextLine(historyline)
    /\ history' = [history EXCEPT ![NextLine(historyline)] = old_pc]
    /\ recent' = Append(Tail(recent), IF entered = 0 THEN mPC ELSE interrupted)

Turn(ticked, next, popup) ==
    LET done    == ticked \/ ~opt_step_instruction
        stop    == StopsAt(done, next)
        told    == stop \/ popup = "exception"
        rebuilt == told \/ (popup = "ask" /\ view = "main")
        left    == (targetclocks - 1) % Word
    IN  /\ mPC' = next
        /\ runmode' = (runmode /\ ~stop /\ popup = "none")
        /\ view' = IF told THEN "main" ELSE view
        /\ \E time \in IF told THEN {FALSE} ELSE {timeLeft, FALSE} :
              IF ~done \/ Loops(time, left)
              THEN /\ at' = "loop" /\ timeLeft' = time /\ targetclocks' = left
                   /\ old_pc' = IF done THEN next ELSE old_pc
              ELSE /\ at' = "draw"           \* the locals of the loop are gone
                   /\ timeLeft' = FALSE /\ targetclocks' = 0 /\ old_pc' = 0
        /\ arrived' = IF stop THEN "stopped"
                      ELSE IF next = mPC /\ ~ticked THEN arrived ELSE "ran"
        /\ lastclock' = IF rebuilt THEN (icount - RebuildLines) % Word ELSE lastclock
        /\ missed' = Saturated((IF rebuilt THEN RebuildLines ELSE missed)
                                 + (IF ticked THEN 1 ELSE 0))
        /\ IF ticked THEN Record ELSE UNCHANGED ring
        /\ UNCHANGED settings

(* An instruction step goes on until a tick has executed one. *)
InStep == at = "loop" /\ opt_step_instruction
StepEnds == entered' = 0 /\ interrupted' = 0

TickWaits ==
    /\ at = "loop" /\ waits > 0
    /\ waits' = waits - 1
    /\ Turn(FALSE, mPC, "none")
    /\ IF InStep' THEN UNCHANGED <<entered, interrupted>> ELSE StepEnds

(* No more than two in a row: a low-level routine, then a high-level one.  *)
TickEntersInterrupt(popup) ==
    /\ at = "loop" /\ waits = 0 /\ entered < 2
    /\ waits' = 1
    /\ Turn(FALSE, VectorPC, popup)
    /\ IF InStep'
       THEN entered' = entered + 1 /\ interrupted' = IF entered = 0 THEN mPC ELSE interrupted
       ELSE StepEnds

TickExecutes(popup) ==         \* an idle CPU executes nothing, and stays
    /\ at = "loop" /\ waits = 0
    /\ waits' \in Waits
    /\ \E next \in Addresses : Turn(TRUE, next, popup)
    /\ StepEnds

Tick ==
    \/ TickWaits
    \/ \E popup \in {"none", "exception"} : TickEntersInterrupt(popup)
    \/ \E popup \in {"none", "ask", "exception"} : TickExecutes(popup)

Key ==
    \/ KeyStep \/ KeyRun \/ KeyNone \/ KeySpeed \/ KeyOption
    \/ \E v \in {"main", "other"} : KeyView(v)
    \/ KeyBreakpoint \/ KeyGoto \/ KeyLoad \/ KeyHome \/ KeyReset

Next == Tick \/ Draw \/ Key

(* The loop runs, and the clock of the host with it: time left does not    *)
(* stay.  No key is ever pressed for certain.                              *)
TimePasses == Tick /\ ~timeLeft'

Spec == Init /\ [][Next]_vars /\ WF_vars(TimePasses) /\ WF_vars(Draw)

-----------------------------------------------------------------------------
(* Properties. *)

(* The main view prints what ran: the instructions executed since it last  *)
(* printed, in order and none twice, the newest of them when the ring has  *)
(* not room for all; and after the view was built again the last           *)
(* RebuildLines.  Stops, pop-ups and runs without printing in between.     *)
(* Each line is the address of its instruction, except in one case: if an  *)
(* instruction step entered interrupts before it executed anything, the    *)
(* line of the routine's first instruction is the address that the first   *)
(* of them interrupted.                                                    *)
PrintsWhatRan ==
    [][(at = "draw" /\ Prints /\ missed < Word) =>
         LET n == IF missed < HistoryLines THEN missed ELSE HistoryLines
         IN  Replay(history, historyline, Printable)
               = SubSeq(recent, HistoryLines - n + 1, HistoryLines)]_vars

(* The instruction at the breakpoint is not executed before the user was   *)
(* stopped there, in two cases excepted: an interrupt led to it within an  *)
(* instruction step, and a reset by z or Z in run mode, which goes on and  *)
(* executes the instruction at 0 before it compares.                       *)
BreakpointStops ==
    [][(at = "loop" /\ icount' # icount /\ mPC = breakpoint /\ entered = 0) =>
         \/ arrived = "stopped"
         \/ arrived = "reset" /\ mPC = 0]_vars

(* The loop comes back to the keyboard, in the steps of an instruction     *)
(* that counts past zero too.                                              *)
KeyboardAnswered == at = "loop" ~> at = "key"
=============================================================================
