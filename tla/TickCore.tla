------------------------------ MODULE TickCore ------------------------------
(***************************************************************************)
(* tick(), handle_interrupts(), reti() and reset(): how the emulator       *)
(* decides, at each tick of 12 clocks, between waiting, serving an         *)
(* interrupt, staying idle or powered down, and executing an instruction.  *)
(*                                                                         *)
(* The program is arbitrary: at each instruction boundary any instruction  *)
(* may be next.  What an instruction does to registers this module does    *)
(* not have is left to the other modules; the program counter is kept only *)
(* as "a vector just entered" or "in the program".  The timers and the     *)
(* serial port are reduced to the request flags they may change; module    *)
(* Timers has the detail and is checked to stay inside TimerEffect.        *)
(*                                                                         *)
(* The stack is taken to be in the lower 128 bytes, as the program means   *)
(* it: push_to_stack writes through write_mem, so a stack that has grown   *)
(* to 0x86 would overwrite PCON and TCON.  Module Frames has that case.    *)
(*                                                                         *)
(* The user's keys come between two ticks, those of one instruction too:   *)
(* the memory editors write IE, IP, TCON and PCON, and z resets.           *)
(***************************************************************************)
EXTENDS Interrupts

CONSTANTS
    Sources,               \* the interrupt sources this instance uses
    PconBits,              \* the bits of PCON this instance uses
    ShortDelays            \* what the handlers return that end within a tick: 0 or 1

ASSUME SourcesAssumption == Sources \subseteq Vectors
ASSUME PconBitsAssumption == PconBits \subseteq {"IDL", "PD", "POF"}
ASSUME ShortDelaysAssumption == ShortDelays \subseteq {0, 1}

VARIABLES
    IE,                    \* enabled sources, and "EA"
    IP,                    \* sources given the high level
    request,               \* IE0, TF0, IE1, TF1 of TCON, and serial_interrupt_trigger
    PCON,                  \* the bits "IDL", "PD" and "POF" that are set
    mInterruptActive,      \* bit 0: low-level routine, bit 1: high-level routine
    mTickDelay,            \* ticks to wait before the next boundary
    mPC,                   \* the vector just entered, or "program"
    waited                 \* ticks run since tick() last returned true

registers == <<IE, IP, request, PCON>>
vars == <<registers, mInterruptActive, mTickDelay, mPC, waited>>

Bits == Sources \cup {"EA"}
TconFlags == Sources \ {"ISR_SR"}

Expired == mTickDelay <= 1     \* mTickDelay is 0 after the decrement in tick()

-----------------------------------------------------------------------------
Init ==                        \* after reset(&emu, 1)
    /\ IE = {} /\ IP = {} /\ request = {}
    /\ PCON = {"POF"} \cap PconBits
    /\ mInterruptActive = 0 /\ mTickDelay = 0
    /\ mPC = "program" /\ waited = 0

-----------------------------------------------------------------------------
(* Variants of the next definitions with a slip in them, to see that the   *)
(* properties would notice.                                                *)

AcknowledgeTF0Too(req, v) == req \ {v, "ISR_TF0"}
VectorDelayThree == 3
WakeKeepsIdle(pcon) == pcon
OpDelaysFour == {0, 1, 4}

-----------------------------------------------------------------------------
Chosen == Arbitrate(Pending(IE, request), IP)

(* No high-level routine is running, something is pending, and a low-level *)
(* routine is interrupted by a high-level request only.                    *)
Admits(arb) ==
    /\ mInterruptActive <= 1
    /\ arb.dest # NoVector
    /\ mInterruptActive = 1 => arb.hi

(* Vectoring clears TF0, TF1 and the serial trigger, but neither IE0 nor   *)
(* IE1: the request of an external interrupt stays until software clears it. *)
Acknowledge(req, v) == req \ ({v} \cap {"ISR_TF0", "ISR_TF1", "ISR_SR"})

TakesInterruptPoweredDown == Expired /\ Admits(Chosen)

(* Power-down is looked at before the requests. *)
TakesInterrupt == Expired /\ "PD" \notin PCON /\ Admits(Chosen)

VectorDelay == 2

(* The delays the opcode handlers return: 3 for MUL and DIV only. *)
OpDelays == ShortDelays \cup {3}

Wake(pcon) == pcon \ {"IDL"}

-----------------------------------------------------------------------------
(* The ways through tick(). *)

WaitTick ==                    \* in the middle of an instruction or of a vectoring
    /\ ~Expired
    /\ mTickDelay' = mTickDelay - 1
    /\ request' \in TimerEffect(Sources, request, IE)
    /\ waited' = waited + 1
    /\ UNCHANGED <<IE, IP, PCON, mInterruptActive, mPC>>

PowerDownTick ==               \* returns before interrupts and timers
    /\ Expired /\ "PD" \in PCON
    /\ mTickDelay' = 1 /\ waited' = 0
    /\ UNCHANGED <<IE, IP, request, PCON, mInterruptActive, mPC>>

InterruptTick ==
    /\ TakesInterrupt
    /\ PCON' = Wake(PCON)
    /\ mPC' = Chosen.dest
    /\ mTickDelay' = VectorDelay
    /\ mInterruptActive' = SetLevel(mInterruptActive, Chosen.hi)
    /\ request' \in TimerEffect(Sources, Acknowledge(request, Chosen.dest), IE)
    /\ waited' = waited + 1
    /\ UNCHANGED <<IE, IP>>

AtBoundary == Expired /\ "PD" \notin PCON /\ ~Admits(Chosen)

IdleTick ==
    /\ AtBoundary /\ "IDL" \in PCON
    /\ mTickDelay' = 1 /\ waited' = 0
    /\ request' \in TimerEffect(Sources, request, IE)
    /\ UNCHANGED <<IE, IP, PCON, mInterruptActive, mPC>>

(* What every instruction has in common. *)
Executes(delays) ==
    /\ AtBoundary /\ "IDL" \notin PCON
    /\ mTickDelay' \in delays
    /\ mPC' = "program" /\ waited' = 0

PlainOp ==                     \* writes none of the registers modelled here
    /\ Executes(OpDelays)
    /\ request' \in TimerEffect(Sources, request, IE)
    /\ UNCHANGED <<IE, IP, PCON, mInterruptActive>>

WriteIE ==
    /\ Executes(ShortDelays)
    /\ IE' \in SUBSET Bits
    /\ request' \in TimerEffect(Sources, request, IE')
    /\ UNCHANGED <<IP, PCON, mInterruptActive>>

WriteIP ==
    /\ Executes(ShortDelays)
    /\ IP' \in SUBSET Sources
    /\ request' \in TimerEffect(Sources, request, IE)
    /\ UNCHANGED <<IE, PCON, mInterruptActive>>

WriteTCON ==                   \* software may set or clear any of the four flags
    /\ Executes(ShortDelays)
    /\ \E flags \in SUBSET TconFlags :
          request' \in TimerEffect(Sources, flags \cup (request \cap {"ISR_SR"}), IE)
    /\ UNCHANGED <<IE, IP, PCON, mInterruptActive>>

WritePCON ==
    /\ Executes(ShortDelays)
    /\ PCON' \in SUBSET PconBits
    /\ request' \in TimerEffect(Sources, request, IE)
    /\ UNCHANGED <<IE, IP, mInterruptActive>>

Reti ==
    /\ Executes({1})
    /\ mInterruptActive' = ClearLevel(mInterruptActive)
    /\ request' \in TimerEffect(Sources, request, IE)
    /\ UNCHANGED <<IE, IP, PCON>>

Instruction ==
    PlainOp \/ WriteIE \/ WriteIP \/ WriteTCON \/ WritePCON \/ Reti

Tick == WaitTick \/ PowerDownTick \/ InterruptTick \/ IdleTick \/ Instruction

(* A hexadecimal digit typed over the upper or the lower half of one of    *)
(* the four registers (EA, ES and PS, TF1 and TF0, and POF are in upper    *)
(* halves); serial_interrupt_trigger is in none of them.                   *)
Typed(register, bits, upper) ==
    UNION {{(register \ half) \cup digit : digit \in SUBSET half}
             : half \in {bits \cap upper, bits \ upper}}

Edit ==
    /\ \/ IE' \in Typed(IE, Bits, {"EA", "ISR_SR"}) /\ UNCHANGED <<IP, request, PCON>>
       \/ IP' \in Typed(IP, Sources, {"ISR_SR"}) /\ UNCHANGED <<IE, request, PCON>>
       \/ /\ request' \in Typed(request, TconFlags, {"ISR_TF0", "ISR_TF1"})
          /\ UNCHANGED <<IE, IP, PCON>>
       \/ PCON' \in Typed(PCON, PconBits, {"POF"}) /\ UNCHANGED <<IE, IP, request>>
    /\ UNCHANGED <<mInterruptActive, mTickDelay, mPC, waited>>

(* reset() from the front end, between two ticks.  The memset of the SFRs  *)
(* clears PCON with the rest; only a wipe sets POF again.                  *)
Reset(aWipe) ==
    /\ IE' = {} /\ IP' = {} /\ request' = {}
    /\ PCON' = IF aWipe THEN {"POF"} \cap PconBits ELSE {}
    /\ mInterruptActive' = 0 /\ mTickDelay' = 0
    /\ mPC' = "program" /\ waited' = 0

Next == Tick \/ Edit \/ \E aWipe \in BOOLEAN : Reset(aWipe)

(* In run mode the main loop of emu.c calls tick() again and again. *)
Fairness == WF_vars(Tick)

Spec == Init /\ [][Next]_vars /\ Fairness

-----------------------------------------------------------------------------
(* Properties. *)

TypeOK ==
    /\ IE \subseteq Bits
    /\ IP \subseteq Sources
    /\ request \subseteq Sources
    /\ PCON \subseteq PconBits
    /\ mInterruptActive \in 0..3
    /\ mTickDelay \in 0..3
    /\ mPC \in Sources \cup {"program"}
    /\ waited \in Nat

(* The loop "while (!ticked)" of a single step (emu.c:491-496) ends: at    *)
(* most six ticks in a row report no new instruction, however two          *)
(* interrupts of rising level and a three-tick instruction line up and     *)
(* whatever the user types between.                                        *)
StepBounded == waited <= 6

Asleep == PCON \cap {"IDL", "PD"} # {}

(* No tick leaves the CPU in idle or power-down with ticks still to wait,  *)
(* unless the user put it there during the wait: the instruction that sets *)
(* the two bits ends within its tick, and entering a routine ends idle     *)
(* mode.  That is what lets tick() test both at a boundary only.           *)
LowPowerAtBoundary ==
    [][(Asleep' /\ ~Expired') => (Asleep /\ ~Expired) \/ Edit]_vars

(* When a routine is entered, it is that of the request which comes first: *)
(* by level, then by polling order.                                        *)
ServesFirstRequest ==
    [][mInterruptActive' > mInterruptActive
         => IsFirst(mPC', Pending(IE, request), IP)]_vars

IsReset == \E aWipe \in BOOLEAN : Reset(aWipe)

(* A request of timer 0 or of the serial port stays until its own routine  *)
(* is entered, the program or the user rewrites TCON, or the CPU is reset; *)
(* entering another routine, RETI, idle and power-down lose none.          *)
RequestsKept ==
    [][\A v \in {"ISR_TF0", "ISR_SR"} :
         v \in request /\ v \notin request'
           => \/ mPC' = v
              \/ v = "ISR_TF0" /\ (WriteTCON \/ Edit)
              \/ IsReset]_vars

(* Power-down, once the CPU is at a boundary, ends by a reset or by the    *)
(* user's hand alone, and until then no routine is entered, no instruction *)
(* executed and no request flag moved (core.c:394-398).                    *)
PowerDownFreezes ==
    [][("PD" \in PCON /\ Expired)
         => UNCHANGED <<registers, mInterruptActive, mPC>> \/ Edit \/ IsReset]_vars

(* An enabled request that the level in progress admits ends idle mode     *)
(* unless the user withdraws it, before the next tick, in the editors, or  *)
(* resets the CPU; it never leaves the CPU idle in a routine just entered  *)
(* (mPC is the vector until the routine's first instruction).              *)
Wakeable == Expired /\ "IDL" \in PCON /\ "PD" \notin PCON /\ Admits(Chosen)

IdleWakes ==
    (mPC = "program" /\ Wakeable)
      ~> ("IDL" \notin PCON \/ (mPC = "program" /\ ~Wakeable))

InProgress == RoutinesOf(mInterruptActive)

Nest == INSTANCE PriorityNest WITH Levels <- {0, 1}, nest <- InProgress

(* Two bits are enough to remember the nesting: every step of the CPU is a *)
(* step of the priority stack, or none, and the stack is cleared by resets *)
(* only.                                                                   *)
NestSpec ==
    /\ Nest!Spec
    /\ [][Nest!Step \/ IsReset]_InProgress
=============================================================================
