------------------------------- MODULE Frames -------------------------------
(***************************************************************************)
(* The stack and the interrupt frames on it: push_to_stack, pop_from_stack *)
(* and the instructions that use them (opcodes.c), the call that           *)
(* handle_interrupts makes, and the registers it saves for reti() to       *)
(* compare.                                                                *)
(*                                                                         *)
(* The direct address space is one function mem: the lower RAM below       *)
(* RamTop (0x80 in the code) and the special function registers from       *)
(* there on, of which SP, PSW and ACC are named.  push_to_stack and        *)
(* pop_from_stack go through write_mem and read_mem, so above RamTop they  *)
(* meet the registers, SP itself among them, and never the upper RAM.      *)
(* Size (256) values fit in a cell and 256 * 256 in the program counter.   *)
(***************************************************************************)
EXTENDS Interrupts

CONSTANTS
    Size, RamTop, SPAddr, PSWAddr, ACCAddr,
    ResetSP,               \* 7 in the code
    Targets,               \* addresses this program jumps to and calls
    VectorOf,              \* for each level, the vector its routine starts at
    Data,                  \* values the program computes
    MaxOps                 \* operations in a behaviour that change mem: a bound

Cell == 0 .. Size - 1
Addresses == 0 .. Size * Size - 1

ASSUME FramesAssumption ==
    /\ Size \in Nat /\ RamTop \in 1 .. Size - 1
    /\ {SPAddr, PSWAddr, ACCAddr} \subseteq RamTop .. Size - 1
    /\ SPAddr # PSWAddr /\ SPAddr # ACCAddr /\ PSWAddr # ACCAddr
    /\ MaxOps \in Nat
    /\ ResetSP \in Cell /\ Data \subseteq Cell
    /\ Targets \subseteq Addresses /\ VectorOf \in [{0, 1} -> Addresses]

VARIABLES
    mem, mPC, mInterruptActive,
    int_a, int_psw, int_sp,    \* for each level, as saved when its routine was entered
    raised,                    \* exceptions the last step reported through except()
    frames,                    \* history: the routines in progress, oldest first
    ops                        \* history: operations so far

saved == <<int_a, int_psw, int_sp>>
vars == <<mem, mPC, mInterruptActive, saved, raised, frames, ops>>

SP == mem[SPAddr]

Last(s) == s[Len(s)]
Front(s) == SubSeq(s, 1, Len(s) - 1)

(* After a wipe. *)
WipedMem == [a \in Cell |-> IF a = SPAddr THEN ResetSP ELSE 0]

Init ==
    /\ mem = WipedMem
    /\ mPC = 0 /\ mInterruptActive = 0
    /\ int_a = [l \in {0, 1} |-> 0]
    /\ int_psw = [l \in {0, 1} |-> 0]
    /\ int_sp = [l \in {0, 1} |-> 0]
    /\ raised = {} /\ frames = << >> /\ ops = 0

-----------------------------------------------------------------------------
(* Variants with a slip in them, to see that the properties would notice.  *)
SlotOfLow(hi) == 0
PushedHighFirst(pc) == <<pc \div Size, pc % Size>>
RetiSlotOfRest(active) == IF active > 2 THEN 0 ELSE IF active = 2 THEN 1 ELSE 0

-----------------------------------------------------------------------------
(* push_to_stack: SP is incremented, then the value written where it       *)
(* points, which may be SP.                                                *)
Push(m, v) ==
    LET m1 == [m EXCEPT ![SPAddr] = (@ + 1) % Size]
    IN  [m1 EXCEPT ![m1[SPAddr]] = v]

PushRaises(m) == IF m[SPAddr] = 0 THEN {"STACK"} ELSE {}

(* pop_from_stack: the value, and the memory with SP decremented. *)
Popped(m) == m[m[SPAddr]]
Pop(m) == [m EXCEPT ![SPAddr] = (@ - 1) % Size]

PopRaises(m) == IF m[SPAddr] = Size - 1 THEN {"STACK"} ELSE {}

(* The two bytes of an address, in the order they are pushed. *)
Pushed(pc) == <<pc % Size, pc \div Size>>

PushPC(m, pc) == Push(Push(m, Pushed(pc)[1]), Pushed(pc)[2])
PushPCRaises(m, pc) ==
    PushRaises(Push(m, Pushed(pc)[1])) \cup PushRaises(PushPC(m, pc))

(* RET and RETI: the high byte first. *)
PopPC(m) == Popped(m) * Size + Popped(Pop(m))
PopPCRaises(m) == PopRaises(Pop(m)) \cup PopRaises(Pop(Pop(m)))

-----------------------------------------------------------------------------
Counted == ops < MaxOps /\ ops' = ops + 1

(* What reti() compares; the rest of PSW (P, F0, bit 1) is the lowest bit. *)
Compared(psw) == psw \div 2

Slot(hi) == IF hi THEN 1 ELSE 0

RetiSlot(active) == IF active > 1 THEN 1 ELSE 0

(* handle_interrupts, once a request was chosen (module TickCore says      *)
(* when): LCALL, the new level, and the registers as they are after it.    *)
Interrupt(hi) ==
    LET l  == Slot(hi)
        m2 == PushPC(mem, mPC)
    IN  /\ mInterruptActive <= 1
        /\ mInterruptActive = 1 => hi
        /\ mem' = m2
        /\ mPC' = VectorOf[IF hi THEN 1 ELSE 0]
        /\ mInterruptActive' = SetLevel(mInterruptActive, hi)
        /\ int_a' = [int_a EXCEPT ![l] = m2[ACCAddr]]
        /\ int_psw' = [int_psw EXCEPT ![l] = m2[PSWAddr]]
        /\ int_sp' = [int_sp EXCEPT ![l] = m2[SPAddr]]
        /\ raised' = PushPCRaises(mem, mPC)
        /\ frames' = Append(frames,
              [level |-> IF hi THEN 1 ELSE 0, pc |-> mPC, sp |-> SP,
               cells |-> [a \in Cell |-> IF a < RamTop THEN m2[a] ELSE 0],
               acc |-> m2[ACCAddr], psw |-> m2[PSWAddr], top |-> m2[SPAddr]])
        /\ Counted

-----------------------------------------------------------------------------
(* Instructions. *)

Jump ==                        \* any instruction that leaves mem alone
    /\ mPC' \in Targets /\ raised' = {}
    /\ UNCHANGED <<mem, mInterruptActive, saved, frames, ops>>

SetReg(a) ==                   \* computes ACC or PSW, or moves the stack pointer
    /\ \E v \in Data : mem' = [mem EXCEPT ![a] = v]
    /\ mPC' \in Targets /\ raised' = {}
    /\ UNCHANGED <<mInterruptActive, saved, frames>>
    /\ Counted

PushMem(a) ==                  \* push_mem: the operand is read before SP moves
    /\ mem' = Push(mem, mem[a])
    /\ mPC' \in Targets
    /\ raised' = PushRaises(Push(mem, mem[a]))
    /\ UNCHANGED <<mInterruptActive, saved, frames>>
    /\ Counted

PopMem(a) ==                   \* pop_mem: the operand is written after SP moved
    /\ mem' = [Pop(mem) EXCEPT ![a] = Popped(mem)]
    /\ mPC' \in Targets
    /\ raised' = PopRaises(Pop(mem))
    /\ UNCHANGED <<mInterruptActive, saved, frames>>
    /\ Counted

Call ==                        \* ACALL and LCALL
    /\ \E back \in Targets :
          /\ mem' = PushPC(mem, back)
          /\ raised' = PushPCRaises(mem, back)
    /\ mPC' \in Targets
    /\ UNCHANGED <<mInterruptActive, saved, frames>>
    /\ Counted

Ret ==
    /\ mPC' = PopPC(mem)
    /\ mem' = Pop(Pop(mem))
    /\ raised' = PopPCRaises(mem)
    /\ UNCHANGED <<mInterruptActive, saved, frames>>
    /\ Counted

Mismatches(l) ==
    (IF int_a[l] # mem[ACCAddr] THEN {"IRET_ACC"} ELSE {})
      \cup (IF int_sp[l] # SP THEN {"IRET_SP"} ELSE {})
      \cup (IF Compared(int_psw[l]) # Compared(mem[PSWAddr]) THEN {"IRET_PSW"} ELSE {})

Reti ==
    /\ mPC' = PopPC(mem)
    /\ mem' = Pop(Pop(mem))
    /\ mInterruptActive' = ClearLevel(mInterruptActive)
    /\ raised' = PopPCRaises(mem)
                   \cup (IF mInterruptActive = 0 THEN {}
                         ELSE Mismatches(RetiSlot(mInterruptActive)))
    /\ frames' = IF frames = << >> THEN frames ELSE Front(frames)
    /\ UNCHANGED saved
    /\ Counted

(* reset(): the registers are cleared, RAM only by a wipe; the saved       *)
(* registers are not.                                                      *)
Reset(aWipe) ==
    /\ mem' = IF aWipe THEN WipedMem
              ELSE [a \in Cell |-> IF a < RamTop THEN mem[a] ELSE WipedMem[a]]
    /\ mPC' = 0 /\ mInterruptActive' = 0 /\ raised' = {} /\ frames' = << >>
    /\ UNCHANGED saved
    /\ Counted

Operands == {ACCAddr, PSWAddr}

Next ==
    \/ \E hi \in BOOLEAN : Interrupt(hi)
    \/ Jump
    \/ \E a \in {SPAddr, PSWAddr, ACCAddr} : SetReg(a)
    \/ \E a \in Operands : PushMem(a) \/ PopMem(a)
    \/ Call \/ Ret \/ Reti
    \/ \E aWipe \in BOOLEAN : Reset(aWipe)

Spec == Init /\ [][Next]_vars

-----------------------------------------------------------------------------
(* Properties. *)

(* The levels in mInterruptActive are those of the routines in progress,   *)
(* and each level's slot still holds the registers its routine started     *)
(* with: a high-level routine that interrupts a low-level one saves its    *)
(* own without losing the other's.                                         *)
SlotsMatchFrames ==
    /\ [i \in DOMAIN frames |-> frames[i].level] = RoutinesOf(mInterruptActive)
    /\ \A i \in DOMAIN frames :
          LET f == frames[i]
          IN  int_a[f.level] = f.acc /\ int_psw[f.level] = f.psw /\ int_sp[f.level] = f.top

(* At RETI exactly the registers that the routine entered last has not     *)
(* restored are reported, whatever was entered and left in between.        *)
MismatchesAreReal ==
    [][(Reti /\ frames # << >>) =>
         LET f == Last(frames)
         IN  /\ "IRET_ACC" \in raised' <=> f.acc # mem[ACCAddr]
             /\ "IRET_SP" \in raised' <=> f.top # SP
             /\ "IRET_PSW" \in raised' <=> Compared(f.psw) # Compared(mem[PSWAddr])]_vars

(* The frame was built in RAM, and nothing wrote over it. *)
FrameIntact(f) ==
    /\ f.sp + 2 < RamTop
    /\ \A a \in {f.sp + 1, f.sp + 2} : mem[a] = f.cells[a]

(* A routine that leaves its frame alone and ends with the stack pointer   *)
(* it started with returns to the instruction it interrupted, with the     *)
(* stack pointer of that moment.                                           *)
ReturnRestores ==
    [][(Reti /\ frames # << >> /\ SP = Last(frames).top /\ FrameIntact(Last(frames)))
         => mPC' = Last(frames).pc /\ mem'[SPAddr] = Last(frames).sp]_vars
=============================================================================
