---------------------------- MODULE FramesProofs ----------------------------
(***************************************************************************)
(* The theorems about the stack and the interrupt frames, for every size   *)
(* of the memory, every place of the registers in it and every program.    *)
(***************************************************************************)
EXTENDS Frames, SequenceTheorems, TLAPS

Memory == [Cell -> Cell]

Frame == [level : {0, 1}, pc : Addresses, sp : Cell, cells : Memory,
          acc : Cell, psw : Cell, top : Cell]

TypeOK ==
    /\ mem \in Memory /\ mPC \in Addresses /\ mInterruptActive \in 0..3
    /\ int_a \in [{0, 1} -> Cell]
    /\ int_psw \in [{0, 1} -> Cell]
    /\ int_sp \in [{0, 1} -> Cell]
    /\ frames \in Seq(Frame)

(* How many routines each value of mInterruptActive stands for, and their  *)
(* levels, oldest first.                                                   *)
Stacked(fs, active) ==
    /\ active = 0 => Len(fs) = 0
    /\ active = 1 => Len(fs) = 1 /\ fs[1].level = 0
    /\ active = 2 => Len(fs) = 1 /\ fs[1].level = 1
    /\ active = 3 => Len(fs) = 2 /\ fs[1].level = 0 /\ fs[2].level = 1

(* Each level's slot holds what its routine started with. *)
SlotsHeld ==
    \A i \in 1 .. Len(frames) :
        LET f == frames[i]
        IN  int_a[f.level] = f.acc /\ int_psw[f.level] = f.psw /\ int_sp[f.level] = f.top

(* What handle_interrupts leaves in RAM when the two cells above the stack *)
(* pointer are RAM: the address it interrupted, low byte first, and the    *)
(* stack pointer two cells up.  The history says nothing of the memory of  *)
(* now, so this outlives whatever the routine does.                        *)
Built(f) ==
    f.sp + 2 < RamTop
      => /\ f.top = f.sp + 2
         /\ f.cells[f.sp + 1] = f.pc % Size
         /\ f.cells[f.sp + 2] = f.pc \div Size

FramesBuilt == \A i \in 1 .. Len(frames) : Built(frames[i])

IInv == TypeOK /\ Stacked(frames, mInterruptActive) /\ SlotsHeld /\ FramesBuilt

-----------------------------------------------------------------------------
(* Arithmetic of the two bytes of an address.                              *)
LEMMA SizeFacts ==
    /\ Size \in Nat \ {0} /\ 0 \in Cell /\ 0 \in Addresses
    /\ RamTop \in Cell /\ RamTop > 0
    /\ SPAddr \in Cell /\ PSWAddr \in Cell /\ ACCAddr \in Cell
    /\ RamTop <= SPAddr /\ RamTop <= PSWAddr /\ RamTop <= ACCAddr
<1>1. Size \in Nat \ {0} /\ RamTop \in Nat /\ RamTop > 0 /\ RamTop < Size
  BY FramesAssumption
<1>2. Size * Size > 0 /\ Size * Size \in Nat
  BY <1>1
<1> QED BY <1>1, <1>2, FramesAssumption DEF Cell, Addresses

LEMMA WrapType ==
    ASSUME NEW x \in Int
    PROVE  x % Size \in Cell
BY SizeFacts DEF Cell

LEMMA BytesOfAddress ==
    ASSUME NEW pc \in Addresses
    PROVE  /\ pc % Size \in Cell /\ pc \div Size \in Cell
           /\ (pc \div Size) * Size + (pc % Size) = pc
<1> DEFINE q == pc \div Size
           r == pc % Size
<1>1. Size \in Nat \ {0} /\ pc \in Nat /\ pc < Size * Size
  BY SizeFacts DEF Addresses
<1>2. q \in Int /\ r \in Int /\ r >= 0 /\ r < Size /\ pc = Size * q + r
  BY <1>1
<1> HIDE DEF q, r
<1>3. q >= 0
  <2>1. CASE q <= -1
    <3>1. Size * q <= -Size
      BY <1>1, <1>2, <2>1
    <3> QED BY <1>1, <1>2, <3>1
  <2> QED BY <1>2, <2>1
<1>4. q < Size
  <2>1. CASE q >= Size
    <3>1. Size * q >= Size * Size
      BY <1>1, <1>2, <2>1
    <3> QED BY <1>1, <1>2, <3>1
  <2> QED BY <1>1, <1>2, <2>1
<1>5. q * Size = Size * q
  BY <1>1, <1>2
<1>6. q * Size + r = pc
  BY <1>2, <1>5
<1> QED BY <1>1, <1>2, <1>3, <1>4, <1>6 DEF Cell, q, r

LEMMA AddressOfBytes ==
    ASSUME NEW h \in Cell, NEW l \in Cell
    PROVE  h * Size + l \in Addresses
<1>1. Size \in Nat \ {0} /\ h \in Nat /\ l \in Nat /\ h <= Size - 1 /\ l <= Size - 1
  BY SizeFacts DEF Cell
<1>2. h * Size <= (Size - 1) * Size /\ h * Size \in Nat
  BY <1>1
<1>3. (Size - 1) * Size = Size * Size - Size /\ Size * Size \in Nat
  BY <1>1
<1> QED BY <1>1, <1>2, <1>3 DEF Addresses

-----------------------------------------------------------------------------
(* push_to_stack and pop_from_stack on a memory (opcodes.c:93-109).        *)
LEMMA PushType ==
    ASSUME NEW m \in Memory, NEW v \in Cell
    PROVE  Push(m, v) \in Memory
<1> DEFINE m1 == [m EXCEPT ![SPAddr] = (@ + 1) % Size]
<1>1. (m[SPAddr] + 1) % Size \in Cell
  <2>1. m[SPAddr] + 1 \in Int
    BY SizeFacts DEF Memory, Cell
  <2> QED BY <2>1, WrapType
<1>2. m1 \in Memory
  BY <1>1 DEF Memory
<1>3. Push(m, v) = [m1 EXCEPT ![m1[SPAddr]] = v]
  BY DEF Push
<1> HIDE DEF m1
<1> QED BY <1>2, <1>3 DEF Memory

LEMMA PopType ==
    ASSUME NEW m \in Memory
    PROVE  Pop(m) \in Memory /\ Popped(m) \in Cell
<1>1. m[SPAddr] \in Cell
  BY SizeFacts DEF Memory
<1>2. (m[SPAddr] - 1) % Size \in Cell
  <2>1. m[SPAddr] - 1 \in Int
    BY <1>1 DEF Cell
  <2> QED BY <2>1, WrapType
<1> QED BY <1>1, <1>2, SizeFacts DEF Pop, Popped, Memory

LEMMA PushPCType ==
    ASSUME NEW m \in Memory, NEW pc \in Addresses
    PROVE  PushPC(m, pc) \in Memory
BY PushType, BytesOfAddress DEF PushPC, Pushed

LEMMA PopPCType ==
    ASSUME NEW m \in Memory
    PROVE  PopPC(m) \in Addresses /\ Pop(Pop(m)) \in Memory
BY PopType, AddressOfBytes DEF PopPC

(* A push below the end of RAM moves the pointer one cell up and writes    *)
(* that cell and nothing else.                                             *)
LEMMA PushInRam ==
    ASSUME NEW m \in Memory, NEW v \in Cell, m[SPAddr] + 1 < RamTop
    PROVE  /\ Push(m, v)[SPAddr] = m[SPAddr] + 1
           /\ Push(m, v)[m[SPAddr] + 1] = v
           /\ \A a \in Cell \ {SPAddr, m[SPAddr] + 1} : Push(m, v)[a] = m[a]
<1> DEFINE s == m[SPAddr]
           m1 == [m EXCEPT ![SPAddr] = (s + 1) % Size]
<1>1. s \in Cell /\ s + 1 < RamTop
  BY SizeFacts DEF Memory
<1> HIDE DEF s
<1>2. s + 1 \in Cell /\ s + 1 # SPAddr /\ (s + 1) % Size = s + 1
  BY <1>1, SizeFacts DEF Cell
<1>3. m1 \in Memory /\ m1[SPAddr] = s + 1
  BY <1>2, SizeFacts DEF Memory
<1>4. Push(m, v) = [m1 EXCEPT ![s + 1] = v]
  BY <1>3 DEF Push, s
<1>5. /\ Push(m, v)[SPAddr] = s + 1
      /\ Push(m, v)[s + 1] = v
      /\ \A a \in Cell \ {SPAddr, s + 1} : Push(m, v)[a] = m[a]
  BY <1>2, <1>3, <1>4, SizeFacts DEF Memory
<1> QED BY <1>5 DEF s

(* So the return address lies in the two cells above the old pointer.      *)
LEMMA PushPCInRam ==
    ASSUME NEW m \in Memory, NEW pc \in Addresses, m[SPAddr] + 2 < RamTop
    PROVE  /\ PushPC(m, pc)[SPAddr] = m[SPAddr] + 2
           /\ PushPC(m, pc)[m[SPAddr] + 1] = pc % Size
           /\ PushPC(m, pc)[m[SPAddr] + 2] = pc \div Size
<1> DEFINE s == m[SPAddr]
           lo == pc % Size
           hi == pc \div Size
           m1 == Push(m, lo)
<1>1. s \in Cell /\ s + 2 < RamTop
  BY SizeFacts DEF Memory
<1>2. lo \in Cell /\ hi \in Cell
  BY BytesOfAddress
<1>3. m1 \in Memory /\ PushPC(m, pc) = Push(m1, hi)
  BY <1>2, PushType DEF PushPC, Pushed
<1>4. m1[SPAddr] = s + 1 /\ m1[s + 1] = lo
  BY <1>1, <1>2, PushInRam, SizeFacts DEF Cell
<1> HIDE DEF s, lo, hi, m1
<1>5. /\ Push(m1, hi)[SPAddr] = s + 1 + 1
      /\ Push(m1, hi)[s + 1 + 1] = hi
      /\ \A a \in Cell \ {SPAddr, s + 1 + 1} : Push(m1, hi)[a] = m1[a]
  <2>1. m1[SPAddr] + 1 < RamTop
    BY <1>1, <1>4, SizeFacts DEF Cell
  <2> QED BY <1>2, <1>3, <1>4, <2>1, PushInRam
<1>6. s + 1 + 1 = s + 2 /\ s + 1 \in Cell \ {SPAddr, s + 1 + 1}
  BY <1>1, SizeFacts DEF Cell
<1>7. /\ PushPC(m, pc)[SPAddr] = s + 2
      /\ PushPC(m, pc)[s + 1] = lo
      /\ PushPC(m, pc)[s + 2] = hi
  BY <1>3, <1>4, <1>5, <1>6
<1> QED BY <1>7 DEF s, lo, hi

LEMMA PopMoves ==
    ASSUME NEW m \in Memory
    PROVE  /\ Pop(m)[SPAddr] = (m[SPAddr] - 1) % Size
           /\ \A a \in Cell \ {SPAddr} : Pop(m)[a] = m[a]
BY SizeFacts DEF Pop, Memory

(* And a return that finds the two bytes there undoes it.                  *)
LEMMA PopPCInRam ==
    ASSUME NEW m \in Memory, NEW pc \in Addresses, NEW s \in Cell, s + 2 < RamTop,
           m[SPAddr] = s + 2, m[s + 1] = pc % Size, m[s + 2] = pc \div Size
    PROVE  PopPC(m) = pc /\ Pop(Pop(m))[SPAddr] = s
<1>1. s + 2 \in Cell /\ s + 1 \in Cell /\ s + 1 # SPAddr /\ s + 2 # SPAddr
      /\ s \in Nat /\ s + 2 - 1 = s + 1 /\ s + 1 - 1 = s
  BY SizeFacts DEF Cell
<1>2. (s + 2 - 1) % Size = s + 1 /\ (s + 1 - 1) % Size = s
  <2>1. (s + 1) % Size = s + 1 /\ s % Size = s
    BY <1>1, SizeFacts DEF Cell
  <2> QED BY <1>1, <2>1
<1>3. /\ Pop(m) \in Memory /\ Pop(m)[SPAddr] = s + 1
      /\ Pop(m)[s + 1] = pc % Size
  BY <1>1, <1>2, PopMoves, PopType
<1>4. Popped(m) = pc \div Size /\ Popped(Pop(m)) = pc % Size
  BY <1>3 DEF Popped
<1> DEFINE p == Pop(m)
<1> HIDE DEF p
<1>7. p \in Memory /\ p[SPAddr] = s + 1
  BY <1>3 DEF p
<1>5. Pop(p)[SPAddr] = s
  <2>1. Pop(p)[SPAddr] = (p[SPAddr] - 1) % Size
    BY <1>7, PopMoves
  <2>2. p[SPAddr] - 1 = s /\ s % Size = s
    BY <1>1, <1>2, <1>7
  <2> QED BY <2>1, <2>2
<1>6. PopPC(m) = (pc \div Size) * Size + (pc % Size)
  BY <1>4 DEF PopPC
<1> QED BY <1>5, <1>6, BytesOfAddress DEF p
-----------------------------------------------------------------------------
(* The history of the routines in progress as a stack. *)
LEMMA FramesLen ==
    ASSUME NEW fs \in Seq(Frame)
    PROVE  /\ Len(fs) \in Nat /\ DOMAIN fs = 1 .. Len(fs)
           /\ \A i \in 1 .. Len(fs) : fs[i] \in Frame
           /\ fs = << >> <=> Len(fs) = 0
<1>1. fs # << >> => Len(fs) # 0
  BY EmptySeq
<1> QED BY <1>1, EmptySeq, LenProperties, ElementOfSeq

LEMMA FrontOfFrames ==
    ASSUME NEW fs \in Seq(Frame), Len(fs) > 0
    PROVE  /\ Front(fs) \in Seq(Frame) /\ Len(Front(fs)) = Len(fs) - 1
           /\ \A i \in 1 .. Len(fs) - 1 : Front(fs)[i] = fs[i]
<1>1. Len(fs) \in Nat /\ \A i \in 1 .. Len(fs) - 1 : fs[i] \in Frame
  BY FramesLen
<1>2. /\ SubSeq(fs, 1, Len(fs) - 1) \in Seq(Frame)
      /\ Len(SubSeq(fs, 1, Len(fs) - 1))
           = IF 1 <= Len(fs) - 1 THEN Len(fs) - 1 - 1 + 1 ELSE 0
      /\ \A i \in 1 .. Len(fs) - 1 - 1 + 1 :
            SubSeq(fs, 1, Len(fs) - 1)[i] = fs[1 + i - 1]
  BY <1>1, SubSeqProperties
<1>3. Len(fs) - 1 - 1 + 1 = Len(fs) - 1 /\ \A i \in 1 .. Len(fs) - 1 : 1 + i - 1 = i
  BY <1>1
<1> QED BY <1>1, <1>2, <1>3 DEF Front

LEMMA LevelsOfValue ==
    /\ RoutinesOf(0) = << >> /\ RoutinesOf(1) = <<0>>
    /\ RoutinesOf(2) = <<1>> /\ RoutinesOf(3) = <<0, 1>>
<1>1. 0 % 2 = 0 /\ 1 % 2 = 1 /\ 2 % 2 = 0 /\ 3 % 2 = 1
  OBVIOUS
<1> QED BY <1>1 DEF RoutinesOf

LEMMA LevelsOfStack ==
    ASSUME NEW fs \in Seq(Frame), NEW active \in 0..3, Stacked(fs, active)
    PROVE  [i \in DOMAIN fs |-> fs[i].level] = RoutinesOf(active)
<1>1. DOMAIN fs = 1 .. Len(fs)
  BY FramesLen
<1>2. CASE active = 0
  <2>1. RoutinesOf(active) = << >> /\ DOMAIN fs = 1 .. 0
    BY <1>1, <1>2, LevelsOfValue DEF Stacked
  <2> QED BY <2>1
<1>3. CASE active = 1
  <2>1. RoutinesOf(active) = <<0>> /\ DOMAIN fs = 1 .. 1 /\ fs[1].level = 0
    BY <1>1, <1>3, LevelsOfValue DEF Stacked
  <2> QED BY <2>1
<1>4. CASE active = 2
  <2>1. RoutinesOf(active) = <<1>> /\ DOMAIN fs = 1 .. 1 /\ fs[1].level = 1
    BY <1>1, <1>4, LevelsOfValue DEF Stacked
  <2> QED BY <2>1
<1>5. CASE active = 3
  <2>1. RoutinesOf(active) = <<0, 1>> /\ DOMAIN fs = 1 .. 2
        /\ fs[1].level = 0 /\ fs[2].level = 1
    BY <1>1, <1>5, LevelsOfValue DEF Stacked
  <2> QED BY <2>1
<1> QED BY <1>2, <1>3, <1>4, <1>5

(* RETI ends the routine entered last, and its level is the one whose slot *)
(* reti() looks at.                                                        *)
LEMMA StackTop ==
    ASSUME NEW fs \in Seq(Frame), NEW active \in 0..3, Stacked(fs, active), Len(fs) > 0
    PROVE  /\ active # 0 /\ Last(fs) \in Frame
           /\ Last(fs).level = RetiSlot(active)
           /\ Stacked(Front(fs), ClearLevel(active))
<1>1. Len(fs) \in Nat /\ Last(fs) = fs[Len(fs)] /\ Last(fs) \in Frame
  BY FramesLen DEF Last
<1>2. /\ Len(Front(fs)) = Len(fs) - 1
      /\ \A i \in 1 .. Len(fs) - 1 : Front(fs)[i] = fs[i]
  BY FrontOfFrames
<1>3. CASE active \in {0, 1, 2}
  BY <1>1, <1>2, <1>3 DEF Stacked, RetiSlot, ClearLevel
<1>4. CASE active = 3
  <2>1. Len(fs) = 2 /\ fs[1].level = 0 /\ fs[2].level = 1
    BY <1>4 DEF Stacked
  <2>2. Len(Front(fs)) = 1 /\ Front(fs)[1] = fs[1]
    BY <1>2, <2>1
  <2> QED BY <1>1, <1>4, <2>1, <2>2 DEF Stacked, RetiSlot, ClearLevel
<1> QED BY <1>3, <1>4

-----------------------------------------------------------------------------
LEMMA WipedType == WipedMem \in Memory
BY SizeFacts, FramesAssumption DEF WipedMem, Memory

LEMMA InitIInv == Init => IInv
<1> SUFFICES ASSUME Init PROVE IInv
  OBVIOUS
<1>1. frames \in Seq(Frame) /\ Len(frames) = 0
  BY EmptySeq DEF Init
<1>2. TypeOK
  BY <1>1, WipedType, SizeFacts DEF Init, TypeOK
<1> QED BY <1>1, <1>2 DEF Init, IInv, Stacked, SlotsHeld, FramesBuilt

(* Instructions that leave the interrupt system alone keep the stack a     *)
(* memory and the program counter an address.                              *)
LEMMA PlainStep ==
    ASSUME IInv, mem' \in Memory, mPC' \in Addresses,
           UNCHANGED <<mInterruptActive, saved, frames>>
    PROVE  IInv'
BY DEF IInv, TypeOK, saved, Stacked, SlotsHeld, FramesBuilt, Built

LEMMA InterruptIInv ==
    ASSUME IInv, NEW hi \in BOOLEAN, Interrupt(hi)
    PROVE  IInv'
<1> DEFINE l  == IF hi THEN 1 ELSE 0
           m2 == PushPC(mem, mPC)
           f  == [level |-> l, pc |-> mPC, sp |-> SP,
                  cells |-> [a \in Cell |-> IF a < RamTop THEN m2[a] ELSE 0],
                  acc |-> m2[ACCAddr], psw |-> m2[PSWAddr], top |-> m2[SPAddr]]
<1>1. m2 \in Memory /\ l \in {0, 1}
  BY PushPCType DEF IInv, TypeOK
<1>2. /\ mInterruptActive <= 1 /\ (mInterruptActive = 1 => hi)
      /\ mem' = m2 /\ mPC' = VectorOf[l]
      /\ mInterruptActive' = SetLevel(mInterruptActive, hi)
      /\ int_a' = [int_a EXCEPT ![l] = m2[ACCAddr]]
      /\ int_psw' = [int_psw EXCEPT ![l] = m2[PSWAddr]]
      /\ int_sp' = [int_sp EXCEPT ![l] = m2[SPAddr]]
      /\ frames' = Append(frames, f)
  BY DEF Interrupt, Slot
<1>3. f \in Frame
  <2>1. [a \in Cell |-> IF a < RamTop THEN m2[a] ELSE 0] \in Memory
    BY <1>1, SizeFacts DEF Memory
  <2>2. SP \in Cell /\ m2[ACCAddr] \in Cell /\ m2[PSWAddr] \in Cell /\ m2[SPAddr] \in Cell
    BY <1>1, SizeFacts DEF IInv, TypeOK, Memory, SP
  <2> HIDE DEF m2
  <2> QED BY <1>1, <2>1, <2>2 DEF Frame, IInv, TypeOK
<1>4. /\ f.level = l /\ f.pc = mPC /\ f.sp = mem[SPAddr]
      /\ f.acc = m2[ACCAddr] /\ f.psw = m2[PSWAddr] /\ f.top = m2[SPAddr]
      /\ \A a \in Cell : a < RamTop => f.cells[a] = m2[a]
  BY DEF SP
<1>5. Built(f)
  <2> SUFFICES ASSUME f.sp + 2 < RamTop
               PROVE  /\ f.top = f.sp + 2
                      /\ f.cells[f.sp + 1] = f.pc % Size
                      /\ f.cells[f.sp + 2] = f.pc \div Size
    BY DEF Built
  <2>1. /\ m2[SPAddr] = mem[SPAddr] + 2
        /\ m2[mem[SPAddr] + 1] = mPC % Size
        /\ m2[mem[SPAddr] + 2] = mPC \div Size
    BY <1>4, PushPCInRam DEF IInv, TypeOK
  <2>2. mem[SPAddr] \in Cell
    BY SizeFacts DEF IInv, TypeOK, Memory
  <2>3. /\ mem[SPAddr] + 1 \in Cell /\ mem[SPAddr] + 1 < RamTop
        /\ mem[SPAddr] + 2 \in Cell /\ mem[SPAddr] + 2 < RamTop
    BY <1>4, <2>2, SizeFacts DEF Cell
  <2> HIDE DEF f, m2
  <2> QED BY <1>4, <2>1, <2>3
<1> HIDE DEF f, m2
<1>6. /\ frames' \in Seq(Frame) /\ Len(frames') = Len(frames) + 1 /\ Len(frames) \in Nat
      /\ \A i \in 1 .. Len(frames) : frames'[i] = frames[i]
      /\ frames'[Len(frames) + 1] = f
  BY <1>2, <1>3, AppendProperties, FramesLen DEF IInv, TypeOK
<1>7. mInterruptActive \in {0, 1}
  BY <1>2 DEF IInv, TypeOK
<1>8. TypeOK'
  <2>1. mInterruptActive' \in 0..3
    BY <1>2, <1>7 DEF SetLevel
  <2>2. VectorOf[l] \in Addresses
    BY <1>1, FramesAssumption
  <2>3. m2[ACCAddr] \in Cell /\ m2[PSWAddr] \in Cell /\ m2[SPAddr] \in Cell
    BY <1>1, SizeFacts DEF Memory
  <2> QED BY <1>1, <1>2, <1>6, <2>1, <2>2, <2>3 DEF IInv, TypeOK
<1>9. Stacked(frames', mInterruptActive')
  <2>1. CASE mInterruptActive = 0
    <3>1. Len(frames) = 0 /\ mInterruptActive' = (IF hi THEN 2 ELSE 1)
      BY <1>2, <2>1 DEF IInv, Stacked, SetLevel
    <3>2. Len(frames') = 1 /\ frames'[1].level = l
      BY <1>4, <1>6, <3>1
    <3> QED BY <3>1, <3>2 DEF Stacked
  <2>2. CASE mInterruptActive = 1
    <3>1. Len(frames) = 1 /\ frames[1].level = 0 /\ mInterruptActive' = 3 /\ l = 1
      BY <1>2, <2>2 DEF IInv, Stacked, SetLevel
    <3>2. Len(frames') = 2 /\ frames'[1].level = 0 /\ frames'[2].level = 1
      BY <1>4, <1>6, <3>1
    <3> QED BY <3>1, <3>2 DEF Stacked
  <2> QED BY <1>7, <2>1, <2>2
<1>10. SlotsHeld'
  <2> SUFFICES ASSUME NEW i \in 1 .. Len(frames')
               PROVE  /\ int_a'[frames'[i].level] = frames'[i].acc
                      /\ int_psw'[frames'[i].level] = frames'[i].psw
                      /\ int_sp'[frames'[i].level] = frames'[i].top
    BY DEF SlotsHeld
  <2>1. CASE i = Len(frames) + 1
    <3>1. frames'[i] = f
      BY <1>6, <2>1
    <3> QED BY <1>1, <1>2, <1>4, <3>1 DEF IInv, TypeOK
  <2>2. CASE i # Len(frames) + 1
    <3>1. i \in 1 .. Len(frames) /\ frames'[i] = frames[i]
      BY <1>6, <2>2
    <3>2. frames[i].level = 0 /\ l = 1
      BY <1>2, <1>7, <3>1 DEF IInv, Stacked
    <3>3. /\ int_a[frames[i].level] = frames[i].acc
          /\ int_psw[frames[i].level] = frames[i].psw
          /\ int_sp[frames[i].level] = frames[i].top
      BY <3>1 DEF IInv, SlotsHeld
    <3> QED BY <1>2, <3>1, <3>2, <3>3 DEF IInv, TypeOK
  <2> QED BY <2>1, <2>2
<1>11. FramesBuilt'
  <2> SUFFICES ASSUME NEW i \in 1 .. Len(frames') PROVE Built(frames'[i])
    BY DEF FramesBuilt, Built
  <2>1. CASE i = Len(frames) + 1
    BY <1>5, <1>6, <2>1
  <2>2. CASE i # Len(frames) + 1
    <3>1. i \in 1 .. Len(frames) /\ frames'[i] = frames[i]
      BY <1>6, <2>2
    <3> QED BY <3>1 DEF IInv, FramesBuilt
  <2> QED BY <2>1, <2>2
<1> QED BY <1>8, <1>9, <1>10, <1>11 DEF IInv, Stacked

LEMMA RetiIInv ==
    ASSUME IInv, Reti
    PROVE  IInv'
<1>1. /\ mem' \in Memory /\ mPC' \in Addresses
      /\ mInterruptActive' = ClearLevel(mInterruptActive)
      /\ UNCHANGED <<int_a, int_psw, int_sp>>
  BY PopPCType DEF Reti, IInv, TypeOK, saved
<1>2. mInterruptActive' \in 0..3
  BY <1>1 DEF ClearLevel, IInv, TypeOK
<1>3. CASE frames = << >>
  <2>1. Len(frames) = 0 /\ frames' = frames
    BY <1>3, FramesLen DEF IInv, TypeOK, Reti
  <2>2. mInterruptActive = 0
    BY <2>1 DEF IInv, TypeOK, Stacked
  <2>3. mInterruptActive' = 0
    BY <1>1, <2>2 DEF ClearLevel
  <2> QED BY <1>1, <1>2, <2>1, <2>2, <2>3
          DEF IInv, TypeOK, Stacked, SlotsHeld, FramesBuilt
<1>4. CASE frames # << >>
  <2>1. frames' = Front(frames) /\ Len(frames) > 0 /\ Len(frames) \in Nat
    BY <1>4, FramesLen DEF IInv, TypeOK, Reti
  <2>2. /\ frames' \in Seq(Frame) /\ Len(frames') = Len(frames) - 1
        /\ \A i \in 1 .. Len(frames) - 1 : frames'[i] = frames[i]
    BY <2>1, FrontOfFrames DEF IInv, TypeOK
  <2>3. Stacked(frames', mInterruptActive')
    BY <1>1, <2>1, StackTop DEF IInv, TypeOK
  <2>4. \A i \in 1 .. Len(frames') : i \in 1 .. Len(frames) /\ frames'[i] = frames[i]
    BY <2>1, <2>2
  <2>5. SlotsHeld'
    BY <1>1, <2>4 DEF IInv, SlotsHeld
  <2>6. FramesBuilt'
    BY <2>4 DEF IInv, FramesBuilt, Built
  <2>7. TypeOK'
    BY <1>1, <1>2, <2>2 DEF IInv, TypeOK
  <2> QED BY <2>3, <2>5, <2>6, <2>7 DEF IInv, Stacked
<1> QED BY <1>3, <1>4

LEMMA ResetIInv ==
    ASSUME IInv, NEW aWipe \in BOOLEAN, Reset(aWipe)
    PROVE  IInv'
<1>1. mem' \in Memory
  BY WipedType, SizeFacts DEF Reset, IInv, TypeOK, Memory
<1>2. frames' \in Seq(Frame) /\ Len(frames') = 0
  BY EmptySeq DEF Reset
<1> QED BY <1>1, <1>2, SizeFacts
        DEF Reset, IInv, TypeOK, saved, Stacked, SlotsHeld, FramesBuilt

LEMMA NextIInv == IInv /\ [Next]_vars => IInv'
<1> SUFFICES ASSUME IInv, [Next]_vars PROVE IInv'
  OBVIOUS
<1>0. /\ mem \in Memory /\ mPC \in Addresses
      /\ \A a \in {SPAddr, PSWAddr, ACCAddr} : a \in Cell /\ mem[a] \in Cell
      /\ Targets \subseteq Addresses /\ Data \subseteq Cell
  BY SizeFacts, FramesAssumption DEF IInv, TypeOK, Memory
<1>1. ASSUME NEW hi \in BOOLEAN, Interrupt(hi) PROVE IInv'
  BY <1>1, InterruptIInv
<1>2. CASE Jump
  BY <1>0, <1>2, PlainStep DEF Jump
<1>3. ASSUME NEW a \in {SPAddr, PSWAddr, ACCAddr}, SetReg(a) PROVE IInv'
  <2>1. mem' \in Memory /\ mPC' \in Addresses
    BY <1>0, <1>3 DEF SetReg, Memory
  <2> QED BY <1>3, <2>1, PlainStep DEF SetReg
<1>4. ASSUME NEW a \in Operands, PushMem(a) \/ PopMem(a) PROVE IInv'
  <2>1. mem' \in Memory
    <3>1. Push(mem, mem[a]) \in Memory
      BY <1>0, PushType DEF Operands
    <3>2. [Pop(mem) EXCEPT ![a] = Popped(mem)] \in Memory
      BY <1>0, PopType DEF Operands, Memory
    <3> QED BY <1>4, <3>1, <3>2 DEF PushMem, PopMem
  <2> QED BY <1>0, <1>4, <2>1, PlainStep DEF PushMem, PopMem
<1>5. CASE Call
  <2>1. mem' \in Memory
    BY <1>0, <1>5, PushPCType DEF Call
  <2> QED BY <1>0, <1>5, <2>1, PlainStep DEF Call
<1>6. CASE Ret
  BY <1>0, <1>6, PopPCType, PlainStep DEF Ret
<1>7. CASE Reti
  BY <1>7, RetiIInv
<1>8. ASSUME NEW aWipe \in BOOLEAN, Reset(aWipe) PROVE IInv'
  BY <1>8, ResetIInv
<1>9. CASE UNCHANGED vars
  BY <1>0, <1>9, PlainStep DEF vars
<1> QED BY <1>1, <1>2, <1>3, <1>4, <1>5, <1>6, <1>7, <1>8, <1>9 DEF Next

LEMMA IInvHolds == Spec => []IInv
<1> QED BY InitIInv, NextIInv, PTL DEF Spec

-----------------------------------------------------------------------------
(* The two bits of mInterruptActive and the two slots of saved registers   *)
(* remember every routine in progress, whatever the program does to the    *)
(* stack (handle_interrupts, core.c:362-380; reti, opcodes.c:358-382).     *)
THEOREM SlotsRemember == Spec => []SlotsMatchFrames
<1>1. IInv => SlotsMatchFrames
  <2> SUFFICES ASSUME IInv PROVE SlotsMatchFrames
    OBVIOUS
  <2>1. [i \in DOMAIN frames |-> frames[i].level] = RoutinesOf(mInterruptActive)
    BY LevelsOfStack DEF IInv, TypeOK
  <2>2. DOMAIN frames = 1 .. Len(frames)
    BY FramesLen DEF IInv, TypeOK
  <2> QED BY <2>1, <2>2 DEF IInv, SlotsHeld, SlotsMatchFrames
<1> QED BY <1>1, IInvHolds, PTL

(* reti() reports exactly the registers that differ from those the routine *)
(* entered last started with (opcodes.c:358-382).                          *)
THEOREM ReportsRealMismatches == Spec => MismatchesAreReal
<1> DEFINE A == (Reti /\ frames # << >>) =>
                  LET f == Last(frames)
                  IN  /\ "IRET_ACC" \in raised' <=> f.acc # mem[ACCAddr]
                      /\ "IRET_SP" \in raised' <=> f.top # SP
                      /\ "IRET_PSW" \in raised' <=> Compared(f.psw) # Compared(mem[PSWAddr])
<1>1. IInv /\ [Next]_vars => [A]_vars
  <2> SUFFICES ASSUME IInv, Reti, frames # << >>
               PROVE  LET f == Last(frames)
                      IN  /\ "IRET_ACC" \in raised' <=> f.acc # mem[ACCAddr]
                          /\ "IRET_SP" \in raised' <=> f.top # SP
                          /\ "IRET_PSW" \in raised'
                               <=> Compared(f.psw) # Compared(mem[PSWAddr])
    OBVIOUS
  <2> DEFINE f == Last(frames)
  <2>1. Len(frames) \in Nat /\ Len(frames) > 0
    BY FramesLen DEF IInv, TypeOK
  <2>2. mInterruptActive # 0 /\ f.level = RetiSlot(mInterruptActive)
    BY <2>1, StackTop DEF IInv, TypeOK
  <2>3. int_a[f.level] = f.acc /\ int_psw[f.level] = f.psw /\ int_sp[f.level] = f.top
    BY <2>1 DEF IInv, SlotsHeld, Last
  <2>4. raised' = PopPCRaises(mem) \cup Mismatches(f.level)
    BY <2>2 DEF Reti
  <2>5. PopPCRaises(mem) \subseteq {"STACK"}
    BY DEF PopPCRaises, PopRaises
  <2> HIDE DEF f
  <2>6. /\ "IRET_ACC" \in raised' <=> f.acc # mem[ACCAddr]
        /\ "IRET_SP" \in raised' <=> f.top # SP
        /\ "IRET_PSW" \in raised' <=> Compared(f.psw) # Compared(mem[PSWAddr])
    BY <2>3, <2>4, <2>5 DEF Mismatches
  <2> QED BY <2>6 DEF f
<1> HIDE DEF A
<1>2. Spec => [][A]_vars
  BY IInvHolds, <1>1, PTL DEF Spec
<1> QED BY <1>2 DEF MismatchesAreReal, A

(* RETI undoes the LCALL of handle_interrupts when the two cells of the    *)
(* frame are as they were and the stack pointer is back: for every size of *)
(* a cell, and whatever the routine pushed, called and popped meanwhile.   *)
THEOREM ReturnsToInterrupted == Spec => ReturnRestores
<1> DEFINE A == (Reti /\ frames # << >> /\ SP = Last(frames).top /\ FrameIntact(Last(frames)))
                  => mPC' = Last(frames).pc /\ mem'[SPAddr] = Last(frames).sp
<1>1. IInv /\ [Next]_vars => [A]_vars
  <2> SUFFICES ASSUME IInv, Reti, frames # << >>,
                      SP = Last(frames).top, FrameIntact(Last(frames))
               PROVE  mPC' = Last(frames).pc /\ mem'[SPAddr] = Last(frames).sp
    OBVIOUS
  <2> DEFINE f == Last(frames)
  <2>1. Len(frames) \in Nat /\ Len(frames) > 0
    BY FramesLen DEF IInv, TypeOK
  <2>2. f \in Frame /\ Built(f)
    BY <2>1, FramesLen DEF IInv, TypeOK, FramesBuilt, Last
  <2> HIDE DEF f
  <2>3. f.pc \in Addresses /\ f.sp \in Cell
    BY <2>2 DEF Frame
  <2>4. /\ f.sp + 2 < RamTop /\ mem[SPAddr] = f.sp + 2
        /\ mem[f.sp + 1] = f.pc % Size /\ mem[f.sp + 2] = f.pc \div Size
    BY <2>2 DEF Built, FrameIntact, SP, f
  <2>5. PopPC(mem) = f.pc /\ Pop(Pop(mem))[SPAddr] = f.sp
    BY <2>3, <2>4, PopPCInRam DEF IInv, TypeOK
  <2> QED BY <2>5 DEF Reti, f
<1> HIDE DEF A
<1>2. Spec => [][A]_vars
  BY IInvHolds, <1>1, PTL DEF Spec
<1> QED BY <1>2 DEF ReturnRestores, A
=============================================================================
