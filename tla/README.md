# emu8051: a TLA+ verification project

emu8051 is an 8051 microcontroller emulator: a core in ANSI C (`core.c`, `opcodes.c`, `disasm.c`) and a curses
front end (`emu.c`, `mainview.c`, `memeditor.c`, `logicboard.c`, `options.c`, `popups.c`). The program is single-threaded.
What makes it hard is not threads but *simulated* concurrency: at every tick of 12 clocks the timers, the serial
port, the interrupt system and the emulated program take their turns on shared registers, and the user's keys and
pop-ups come between any two ticks. This directory specifies that in TLA+, model-checks it with TLC on small
instances, and proves what it can for every instance with TLAPS.

## 1. Inventory

| component | state | operations | with whom |
|---|---|---|---|
| interrupt controller (`core.c:269-384`, `opcodes.c:358-382`) | IE, IP, TCON flags, `serial_interrupt_trigger`, `mInterruptActive`, `int_a/psw/sp[2]` | `handle_interrupts`, `reti` | called by `tick`; pushes on the stack; clears the flags the timers set |
| tick scheduler (`core.c:386-428`) | `mTickDelay`, PCON, `mPC` | `tick`, `reset` | called by the main loop; calls the opcode handler, then `timer_tick` |
| timers (`core.c:57-267`) | TMOD, TCON, TL0/1, TH0/1 | `timer_tick` | request flags; clocks the serial port |
| serial transmitter (`core.c:35-55`, `emu.c:154`) | SBUF, remaining bits, `serial_out` ring, TI, P3.1 | `serial_tx`, SBUF callback | clocked by TF1; raises a request |
| stack (`opcodes.c:93-109`) | SP, lower RAM, SFRs | push, pop, calls, returns | written through `write_mem`, so into SFRs too |
| arithmetic (`opcodes.c`) | ACC, B, PSW | the arithmetic handlers | - |
| memory access and operand handlers (`opcodes.c`) | lower and upper RAM, SFRs, external RAM | `read_mem`, `write_mem`, indirect and bit addressing, moves, logic, branches | port reads and SBUF through callbacks of the front end |
| opcode tables (`opcodes.c:1370-1533`) | none | a handler by opcode: operands, next address | `tick` |
| disassembler (`disasm.c`) | none | a function by opcode: text and length | `decode`, for the main view and the prompt for an address |
| main loop, keys, history (`emu.c:241-538`, `mainview.c:464-560`) | `runmode`, `speed`, `view`, `breakpoint`, history ring, `icount` | one iteration: key, slot of ticks, draw | calls `tick`, is called back by pop-ups |
| pop-ups (`popups.c`) | - | exceptions, port reads, values, reset, load | leave run mode, rebuild the view, from inside a tick |
| logic board (`logicboard.c`) | shift registers, 16x2 character display, audio | `logicboard_tick`, keys | port latches after each tick; drives `pout` |
| HEX loader (`emu.c:540-590`) | code memory, the open file | `load_obj`, `readbyte` | pop-up of the load key; writes what `tick` executes |
| editors (`memeditor.c`, `mainview.c:199-433`) | windows, cursors, offsets, the memory shown | keys | built again by `change_view`, pop-ups and resizes; write memory without callbacks |
| options (`options.c`) | settings | keys | read by the main loop |

What makes each correct: the interrupt routines in progress form a stack of increasing levels and no request is
lost; a timer is one counter whatever the mode splits it into; a frame is whole and reported once; RETI compares the
right registers and returns where the interrupt came; two-byte arithmetic works through the carry; the history
shows what ran and the breakpoint stops; the display's nibbles stay in step; the loader stores what the file says;
the CPU goes where its line in the disassembly says;
the editors write the digit under a cursor that stays inside its memory. PROJECT.json lists the hazards line by line.

## 2. Modules

    PriorityNest <--refines-- TickCore --extends--> Interrupts <--extends-- Timers, Frames
    DisplayContents <--refines-- CharDisplay
    Caret <--refines-- Editors
    Program --extends--> HexLoader, Instructions, Listing;  Instructions, Listing --extends--> Operands
    Serial     Alu     Memory     FrontEnd            MC<module>: constants for TLC

    CpuProofs          theorems about TickCore, Interrupts and Alu
    PeripheralProofs   theorems about Timers and Serial
    FramesProofs, MemoryProofs, FrontEndProofs, CharDisplayProofs, EditorsProofs, ProgramProofs:
                       theorems about the module of that name (ProgramProofs: HexLoader inside Program)

* **Interrupts**: the pure part of `handle_interrupts`, with sets of source names for the bit masks: `Poll` is one of
  the five tests, `Arbitrate` their sequence, `SetLevel`/`ClearLevel` the arithmetic on `mInterruptActive`;
  `TimerEffect` is what `timer_tick` may do to the request flags. `Precedes` and `IsFirst` are the reference.
* **PriorityNest**: the abstract promise, a stack of levels that strictly increase.
* **TickCore**: `tick`, `handle_interrupts`, `reti`, `reset`. One action per way through `tick`: waiting, power-down,
  vectoring, idle, and one instruction by what it writes (IE, IP, TCON, PCON, RETI, anything else). Any program is
  possible: at each boundary any instruction may come next. Between any two ticks the user may type a digit over IE, IP, TCON or
  PCON in the memory view (`Edit`). The timers are reduced to `TimerEffect`. The stack is taken
  to be in the lower 128 bytes (Frames has the rest).
* **Timers**: `timer_tick` in full with a parametric radix, the program's writes to its registers, the
  acknowledgement. Property `WithinTimerEffect` is what licenses the reduction in TickCore.
* **Serial**: `serial_tx` bit by bit, the SBUF callback, the ring; frame and ring sizes are parameters.
* **Frames**: the direct address space as one function with SP, PSW and ACC in it, pushes through `write_mem`, interrupt
  entry with the saved registers, calls, returns, PUSH and POP.
* **Alu**: the arithmetic and its flags, one action per family of handlers.
* **FrontEnd**: the main loop: where it is (`at`: waiting for a key, in the slot of ticks, drawing), the keys that change
  more than an edited byte, the slot with its unsigned count, the breakpoint, the history ring and what the main
  view prints of it. The CPU is seen from outside: a tick waits, vectors, or executes, perhaps raising a pop-up. `arrived`
  remembers how the program counter came to be where it is: the user was stopped there, a reset by z put it there (which
  stops nobody), or the program ran there.

* **Memory**: cells of RAM, SFR and external RAM by their real addresses, the bits of a byte as a set of numbers below 8 where
  bits are what matters, the banks of registers, ports with latch and pins; one action per handler or per group of handlers
  that differ in nothing but the operand. Where the code reads the pins of a port, so does the model, and where it reads the
  latch, likewise. P is computed as the code does, by folding A to four bits and taking a bit of 0x6996. `BitsAssumption`: what the
  program addresses by bit is among the cells, and P is no lock, since `tick` sets it after every instruction.
* **CharDisplay**: the display part of `logicboard_tick` on the edges of E: reads, writes, every instruction, halves of bytes
  in 4-bit mode, busy times, and the view being entered again.
* **DisplayContents**: the abstract display, which takes whole bytes and one operation at a time. CharDisplay implements it.

* **Editors**: the memory view's five windows and the memory and register boxes of the main view: every key of
  `memeditor_editor_keys` and `mainview_editor_keys`, the views built again by keys and pop-ups, and a terminal that changes its
  size while a view is open (`Resize`, then `Refresh` before each key until the main view is built). The loops that scroll line
  by line are closed forms. Windows without lines and windows higher than their memory are there too; a digit typed where a
  window shows more than its memory goes to another memory of the model or to none (`Typed`).
* **Caret**: what an editor promises: a caret on the digits of each memory, no windows. Editors implements it.
* **HexLoader**: `load_obj` a byte at a time, the file chosen as it is read, so that it may end between any two digits;
  `image` keeps what the valid records say.
* **Operands**, **Instructions**, **Listing**: for each of the 256 opcodes, the operands its handler takes (`Handled`) and how far
  it moves PC, and, from `disasm.c` alone, the operands its line names and the length reported. They are two translations of two
  tables; neither is derived from the other. `Handled` goes by the columns of the opcode table, as the 8051's own table does, `Listed` by its
  rows, as `disasm.c` does; the guards of both exclude each other, since a CASE of TLA+ with two true guards means either branch.
* **Program**: the three together: a file is loaded, the CPU executes what is there and the user reads it; data is left out, so
  branches go either way and returns go to `Elsewhere`.

Correspondence of every definition to source lines is in PROJECT.json under "map". History variables (named so in
the modules) record what happened for the properties; no guard of a modelled operation reads them except the
bounds named below. Each module has a section of variants with a slip in them: PROJECT.json pairs each property with one that it catches.

## 3. Runs

| run | question | bounds |
|---|---|---|
| tick_core | priority, nesting (refinement of PriorityNest), bounded waiting, requests kept, low power | sources TF0, TF1, SR; all of IE, IP, PCON and requests, written by the program and by the user; delays 1 (`ShortDelays`: 0 means the same) and 3; no bound on length |
| timers | counting, carry, reload, flags, TF1's takers; a timer left alone overflows | radix 4 with 2 values in the 13-bit part; seven TMOD values that hold every mode of either timer |
| serial | ring, whole frames, one interrupt per frame | 2 bits, ring of 2, `MaxSent` 4 frames: twice round the ring |
| frames | saved registers, mismatches, return address | 6 cells of RAM and 3 registers, `MaxOps` 7: two nested frames, a push and both returns |
| alu | two-byte sum and difference and quotient (`WideArithmetic`), decimal sum | operands at the edges; `MaxOps` 2 with free loads between |
| aux_carry (violation) | AC after ADD and ADDC is the carry out of bit 3, as `opcodes.c:115` says | as alu |
| front_end | history, breakpoint, slots, return to the keyboard | 2 addresses, either of them the breakpoint, 0 (where resets go) among them; ring of 2 lines, counters modulo 4, slots of 2 ticks |
| memory | one bit of a latch at a time, semaphores by JBC, exchanges, parity | 11 cells, register 0 of two banks, `MaxOps` 2 from 16 memories, pins changing at any time |
| move_through_pointer (violation) | MOV direct, @Ri as `disasm.c:603` prints it | the same, one instruction |
| char_display | whole bytes from halves in both directions (`WholeBytes`), initialization, refinement of DisplayContents | 2 cells and 1 shape, six port values, `MaxTransfers` 4: an initialization, or two whole bytes in 4-bit mode |
| editors | cursors and windows inside their memories; both editors refine Caret; the register box writes the digit it shows | lines of 1 byte, memories of 2 to 5, one register to a bank and two values of PSW, terminals of 5, 10 and 16 lines, so that windows have no line, 1 to 3 lines of 2 to 5, and more lines than their memory; `MaxKeys` 5, resizes among them |
| program | what a load stores and reports, and that it returns; that the CPU goes where the listing says and takes the operands it names | every opcode with R0 and R7 in a record at 07FEh, before a page edge, four branches at FFFEh, then a record over an operand, valid or not, and the end record, in one file or two; `MaxJunk` 1, `MaxSteps` 2 |

Why these bounds are enough: the code treats all sources alike except for rank and for which flags vectoring clears,
and the proofs cover all five; a carry between two digits and a wrap need a radix of 2 or more; ring arithmetic shows
every relation of index, length and wrap with two lines and a counter of twice the ring; frames of RAM small enough that
the stack meets the registers are the case of interest. A scroll has four cases (stay, line, page, clamp) at each end, and windows of
1 to 3 lines over memories a little longer meet them all in five keys. Whether two tables agree on an opcode does not depend on
what ran before, so one instruction and its successor suffice, in the two places where addresses wrap; a file is cut only in the records that are
not in `Whole` (one three-byte instruction and everything after the first record), since a cut depends on the length of a record, not on its opcode. The history and operation counts (`MaxSent`, `MaxOps`, `MaxTransfers`, `MaxKeys`, `MaxSteps`) bound
the length of a behaviour, and the properties they serve need no more steps than they allow.

Fairness. TickCore and Timers assume weak fairness of a tick: in run mode the main loop calls `tick` again and again, and a
tick always ends. FrontEnd assumes that the loop runs and that the host's clock advances (`TimePasses`); no
key is ever assumed to be pressed. Program assumes weak fairness of the steps of a load in progress and nothing else: `load_obj` waits for
nobody, and files are finite (`MaxJunk`, the records). The other modules state safety only.

What the properties of the editors claim, they claim of windows that fit (`Fits`): a window with lines, and no more of them than its memory has. That is a
terminal of 9 to 54 lines, and nothing in the code keeps to it; above, the clamp at the end of a memory makes the offset negative, and the model lets it. One
assumption narrows what the loader is given. `RecordsAssumption`: between the colons there are digits, at least
the five bytes a record always has, the length field counts them, the type is below 10h (the format ends at 05), and a record lies inside the code memory,
cut or not; `load_obj` tests none of these. That the type has to be below 10h came out of the proof (section 5).

## 4. Proofs

Every theorem holds for all values of the constants that the named assumptions of its module allow. The theorems that state a
property of a run are listed in PROJECT.json; the lemmas under them stay in the modules. In each case
the argument has the same three facts: `Init => IInv`, `IInv /\ [Next]_vars => IInv'`, and that the property follows from `IInv`, at
a state or at a step. What differs is `IInv`, and why the property alone would not do:

| module | theorems | inductive invariant, and why |
|---|---|---|
| CpuProofs (TickCore) | `ArbitrateIsFirst`, `TypeCorrect`, `StepTerminates`, `LowPower`, `ServesFirst`, `PowerDownIsFrozen`, `KeepsRequests`, `ImplementsPriorityNest` | `StepBudget`: ticks waited, plus ticks still to wait, plus two for each routine that can still be entered, never exceed six. That no more than six ticks pass says nothing of what is still to come. `LowPower` needs no invariant: it compares the two ends of a tick, since the user may put a waiting CPU to sleep. |
| CpuProofs (Alu) | `WordsThroughBytes`, `DaSumsDecimals` | `HalfDone`: between the two halves of an operation on words, the low byte of the result and C are the sum or difference of the low operands. C alone is a bit that anything could have set. |
| PeripheralProofs (Timers) | `TimersCountByOne`, `FlagsMeanWrap`, `OneTakerOfTF1`, `TimersKeepToEffect` | types only: each property relates the two ends of one step. The work is in the lemmas on two digits in any radix. |
| PeripheralProofs (Serial) | `RingIsHistory`, `FrameInterruptsOnce`, `FramesAreWhole` | `LineCounts`: the bits clocked since SBUF was written and the bits left make a frame. `WholeFrames` says so of the last bit only. |
| FramesProofs | `SlotsRemember`, `ReportsRealMismatches`, `ReturnsToInterrupted` | `Stacked` (which nests each value of `mInterruptActive` stands for), `SlotsHeld` (a slot by the level, for the outer routine too) and `FramesBuilt` (what entry left in RAM when its two cells are RAM). The property speaks of the routine on top; RETI brings the one below to light. |
| MemoryProofs | `MemoryHoldsBytes`, `ParityFollowsA`, `LocksAreTakenOnce`, `BitsAreWrittenAlone`, `ExchangesUndo` | types; `TakenAreClear`: a lock granted and not set since is clear; `ExchangeHolds`: after one exchange the cell holds what A held. Each instruction is first shown to be one of four kinds (plain, one bit, exchange, JBC), all of which leave `AfterTick` of some bytes. |
| FrontEndProofs | `StopsAtBreakpoint`, `HistoryIsTrue` | `StepsBegin`, `ToldThere` (the CPU does not stand at the breakpoint unless the user was told), `RingKeepsRecent` (every line of the ring, not only those about to be printed), `CountsMissed` (the distance of the two wrapping counters is the number of lines not yet printed, until it has gone round). |
| CharDisplayProofs | `TypeCorrect`, `InitializationHolds`, `BytesStayWhole`, `ImplementsContents` | `GreetingSoFar`: after one 3 the display is in 8-bit mode, between two bytes, or holds a 3 as its upper half, so that the next completes 0x33 or a byte that leaves it between bytes; after two the middle case is gone. `HalfSoFar`: the half sent last is the upper half of the cell being read or of the byte being put together. |
| EditorsProofs | `CursorsStayOnMemory`, `ImplementsCaret`, `BoxImplementsCaret`, `RegistersTakeDigits` | `CursorsOnMemory` with types is inductive. The closed forms of the scrolling loops need a lemma for each end of the memory; the three theorems about digits rest on one about a digit of a byte replaced. |
| ProgramProofs (HexLoader) | `LoadsAsWritten` | `Reading`: while data is read, the locals of `load_obj` are those of the bytes read so far, `checksum` is their sum, and the record still has bytes. The property says only what the memory is. |
| ProgramProofs (Program) | `NamesOperands`, `GoesWhereListed` | the invariant of the loader and that code memory holds bytes and PC an address: whatever was loaded and wherever PC points, the instruction is three bytes. The rest is `TablesAgree`, one lemma for each column of the opcode table, for all operand bytes, and `BytesCounted`, that a handler steps over the bytes its line takes. |

Three of the theorems are refinements of an abstract specification: `Spec => NestSpec`, `Spec => ContentsSpec`, `Spec => CaretSpec` (and
`MainViewCaret` for the box of the main view): initial states map to initial states, and each action of the code's module to one operation of the
abstract one or to a stutter. `TimersKeepToEffect` joins two modules: TickCore lets the timers do `TimerEffect` to the flags, and
`timer_tick` does no more, so what is proved of TickCore is true of the CPU with its real timers.

How far they reach beyond the runs: any number of interrupt sources among the five; any radix, hence the real one of
256 and 32; frames of any length and a ring of any size; memories of any size, with the registers of the CPU
anywhere above RAM; every operand of the arithmetic (the runs have operands at the edges only); any history size and word width, the real 20 lines
and 2^32 included; displays of any memory that divides 128; editors on terminals of any size, in every window that fits its memory; any
file of records as above; any program in code memory at any address (the runs load a few images, with every opcode among them). The history bounds (`MaxOps`, `MaxSent`, ...) are constants like the others, so behaviours
may be of any length.

`LoadsAsWritten` needs that a sum over a sequence grows by the last byte, which is an induction, and a rule of induction that takes
a predicate as its argument cannot be instantiated by the provers at hand. `SetInduction` states it of a set instead, and follows from the
pigeonhole principle for finite sets: a gap in the set would let `n + 1` map a finite set into itself without its 0. From it `RecursionExists`
and `RecursionAgrees` give the recursive function that `Sum` names.

What the theorems leave out is what their properties leave out: `ExchangesUndo` excepts ports (pins are read, the latch is written), PSW (P
is set after every instruction) and upper RAM that is not there; `ReturnsToInterrupted` assumes that the frame's two cells are as they were; `DaSumsDecimals` leaves out the pairs whose
decimal sum hangs on an AC that is not the carry of the low digits (`ADD` does leave such ACs: section 5); `HistoryIsTrue` and `StopsAtBreakpoint` have the exceptions section 5 describes; `CursorsStayOnMemory` and
`ImplementsCaret` speak of windows that fit.

Only model-checked is liveness, since the prover has no ENABLED: `IdleWakes`, `OverflowsIfLeftAlone`, `KeyboardAnswered`, `LoadReturns`.

## 5. Where the code disagrees with its comments

Checked by violation runs: MOV direct, @Ri; AC (`opcodes.c:115` speaks of a carry "from 3th bit to 4th bit", in the numbering in which the line
before calls the mask 255 the 8th bit, but `auxcarry` masks with 7 and shifts by 3: 1 + 7 sets AC, 8 + 8 does not, so that DA leaves 8 + 8, 8 + 9 and 9 + 9
uncorrected and corrects 4 + 4, 4 + 5 and 5 + 3 for nothing, unless the program writes AC itself). Noted while modelling, without a
run: `core.c:468` says that a warm reset does not affect POF, but `reset` clears PCON with the other registers and sets POF
only in a wipe (`Reset` of TickCore); with the option of instruction steps a breakpoint on an interrupt vector is passed,
since the ticks of a step run to the end of the routine's first instruction before the comparison (the `entered` of
`BreakpointStops`), and the history line of that instruction is the address the interrupt came at, which is printed again when the instruction there
runs (the `interrupted` of `PrintsWhatRan`); z or Z in run mode sends the CPU to 0 without a stop, so a breakpoint at 0 is passed too (the `arrived` of
`BreakpointStops`); `core.c:42` says P3.1 is set according to the bit being clocked out, but `tx_bit` is a
bool of SBUF shifted by the bits left, so the line stays at 1 from the first 1 of a frame on (`TxBit`); `xchd_a_indir_rx` changes A before it takes A's digit, so memory keeps its own; ORL direct, A, logic with a
constant, INC, DEC and DJNZ read a port's pins where ANL and XRL with A read its latch; `popups.c:77` suppresses the interrupt-return exceptions when the option
view (`options.c:184`) calls them enabled; `core.c:256` speaks of timer 1 overflowing, but with timer 0 in mode 3 it is TH0
that clocks the serial port; `README.md:17` gives MUL 48 clocks and the handler takes 3 ticks, 36 clocks;
`emu8051.h:241` says a stack above 127 raises EXCEPTION_STACK, but `push_to_stack` writes the SFRs and raises it only at
roll-over;
`popups.c:378` calls z and Z shortcuts of HOME+R and HOME+W, which also clear the clock count and leave run mode.

Of the editors: `oldrows` and `oldcols` are recorded in `build_main_view` only (`mainview.c:125`), so after a resize in another view that view is built again
before every key (`emu.c:362`), the memory view's cursors go home each time, and "cursors - Move cursor" of the help
(`popups.c:436`) is no longer true there; `memeditor.c:108` has a TODO about it. Building the main view shows the lower RAM
again under the title and the scroll offset of the mode (`mainview.c:196`): digits typed then may fall behind `mLowerData` (`Typed`), and no property says anything of the box until
a memory is chosen. Its memory box shows seven lines while the
cursor moves over eight (so `CursorsOnMemory` has it on its memory, not on the screen), and PgUp and PgDn move it when the register box has the focus.

Of the loader: a record of type 10h to 1Fh, cut between the two digits of its type, is read as an end record and the load reports success (found by the proof
of `LoadedAsWritten`; no such type is in the format, so `RecordsAssumption` leaves it out); the end record's checksum is never read; -3, -4 and the end record return with the file open; address and length are not
masked to the memory; a record cut in its header is stored at the address that was read, as zeros, and what a failed load stored stays stored (the
first conjunct of `LoadedAsWritten`).

Of the disassembler: the byte of a bit below 80h is printed as the bit address divided by 8 (`disasm.c:210`), 20h less than the handlers
use (`SameOperand`); history lines are decoded when they are printed (`mainview.c:492`), with the code memory and PCON of that moment, so
the instruction that enters idle mode is listed as "IDLE". Elsewhere: `closeaudio` writes a data length 4 too large;
the display's busy time, 250 * `opt_clock_hz`, overflows above 8.5 MHz (`logicboard.c:117`).

## 6. What is left

1. The clock of the display's busy time, and the conversions of clocks to seconds in the main view.

Not modelled: the ports, switches and shift registers of the logic board, each an assignment or a shift by an edge of one
bit that feeds nothing but the widgets (the pins are `DevicesDrive` of Memory); audio capture, a file written and patched; the options
view, toggles that are one assignment each; line editing in pop-ups; drawing and curses modes; mnemonics and names in the
disassembler; `do_op`, a switch no code calls.
