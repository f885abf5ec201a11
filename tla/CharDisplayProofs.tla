------------------------- MODULE CharDisplayProofs --------------------------
(***************************************************************************)
(* The theorems about CharDisplay, for memories of any size up to the real *)
(* one, any program and any busy times.                                    *)
(***************************************************************************)
EXTENDS CharDisplay, TLAPS

(* What stays of the first 3's of an initialization: after one, the        *)
(* display is in 8-bit mode, between two bytes, or has a 3 as its upper    *)
(* half; after two, the second of these cases is over.                     *)
GreetingSoFar ==
    /\ greeting = 1 => \/ ~chardisplay4bmode \/ chardisplaytick = 0
                       \/ chardisplaytick = 1 /\ High(chardisplaydata) = 3
    /\ greeting = 2 => ~chardisplay4bmode \/ (chardisplaytick = 1 /\ High(chardisplaydata) = 3)

IInv == TypeOK /\ InitializationSynchronises /\ GreetingSoFar

-----------------------------------------------------------------------------
LEMMA IndexInRange ==
    ASSUME NEW x \in Int, NEW n \in 1..128
    PROVE  x % n \in 0 .. n - 1
OBVIOUS

(* The halves of a byte, and bytes from halves.                            *)
LEMMA HalfType ==
    ASSUME NEW b \in Bytes
    PROVE  High(b) \in 0..15 /\ Low(b) \in 0..15
BY DEF Bytes, High, Low

LEMMA JoinType ==
    ASSUME NEW data \in Bytes, NEW half \in 0..15, NEW tick \in {0, 1}
    PROVE  /\ Join(data, half, tick) \in Bytes
           /\ tick = 0 => High(Join(data, half, tick)) = half
           /\ tick = 1 => Join(data, half, tick) = 16 * High(data) + half
BY DEF Bytes, High, Low, Join

LEMMA WaitedType ==
    ASSUME TypeOK
    PROVE  Waited \in Nat
BY DEF TypeOK, Waited

LEMMA SizesFacts == RamSize \in 1..128 /\ CgSize \in 1..128
BY SizesAssumption

-----------------------------------------------------------------------------
(* The types of what the display keeps, action by action.                  *)
DisplayType ==
    /\ chardisplayram \in [0 .. RamSize - 1 -> Bytes]
    /\ chardisplaycgram \in [0 .. CgSize - 1 -> Bytes]
    /\ chardisplaycp \in Int /\ chardisplayofs \in Int /\ chardisplaydir \in {1, -1}
    /\ chardisplayshift \in BOOLEAN /\ chardisplaydcb \in 0..7 /\ chardisplaychargen \in BOOLEAN
    /\ chardisplaybusy \in Nat

LEMMA AdvanceType ==
    ASSUME TypeOK, Advance
    PROVE  /\ chardisplaycp' \in Int /\ chardisplayofs' \in Int /\ chardisplaydir' \in {1, -1}
           /\ chardisplayshift' \in BOOLEAN /\ chardisplaydcb' \in 0..7
           /\ chardisplaychargen' \in BOOLEAN /\ chardisplaybusy' \in Nat
BY BusyAssumption DEF TypeOK, Advance, Step

LEMMA OnlyWaitType ==
    ASSUME TypeOK, OnlyWait
    PROVE  /\ chardisplaycp' \in Int /\ chardisplayofs' \in Int /\ chardisplaydir' \in {1, -1}
           /\ chardisplayshift' \in BOOLEAN /\ chardisplaydcb' \in 0..7
           /\ chardisplaychargen' \in BOOLEAN /\ chardisplaybusy' \in Nat
BY WaitedType DEF TypeOK, OnlyWait, settings

LEMMA StoreType ==
    ASSUME TypeOK, NEW b \in Bytes, Store(b)
    PROVE  DisplayType'
<1>1. chardisplayram' \in [0 .. RamSize - 1 -> Bytes]
  BY DEF Store, TypeOK
<1>2. chardisplaycgram' \in [0 .. CgSize - 1 -> Bytes]
  BY DEF Store, TypeOK
<1> QED BY <1>1, <1>2, AdvanceType DEF Store, DisplayType

LEMMA InstructionType ==
    ASSUME TypeOK, NEW b \in Bytes, Instruction(b)
    PROVE  DisplayType' /\ chardisplay4bmode' \in BOOLEAN
<1> USE BusyAssumption
<1>1. CASE Clear(b)
  <2>1. chardisplayram' \in [0 .. RamSize - 1 -> Bytes]
    BY <1>1 DEF Clear, Space, Bytes
  <2> QED BY <1>1, <2>1 DEF Clear, DisplayType, TypeOK
<1>2. CASE Home(b)
  BY <1>2 DEF Home, memories, DisplayType, TypeOK
<1>3. CASE EntryMode(b)
  BY <1>3 DEF EntryMode, memories, DisplayType, TypeOK
<1>4. CASE OnOff(b)
  BY <1>4 DEF OnOff, memories, DisplayType, TypeOK
<1>5. CASE Shift(b)
  BY <1>5 DEF Shift, memories, DisplayType, TypeOK
<1>6. CASE FunctionSet(b)
  BY <1>6 DEF FunctionSet, FourBits, memories, settings, DisplayType, TypeOK
<1>7. CASE SetChargen(b)
  BY <1>7 DEF SetChargen, memories, DisplayType, TypeOK
<1>8. CASE SetAddress(b)
  <2>1. chardisplaycp' \in Int
    BY <1>8, SizesFacts, IndexInRange DEF SetAddress, Bytes
  <2> QED BY <1>8, <2>1 DEF SetAddress, memories, DisplayType, TypeOK
<1>9. CASE NoInstruction(b)
  BY <1>9, OnlyWaitType DEF NoInstruction, memories, DisplayType, TypeOK
<1> QED BY <1>1, <1>2, <1>3, <1>4, <1>5, <1>6, <1>7, <1>8, <1>9 DEF Instruction

(* A cell of either memory is a byte.                                      *)
LEMMA CellType ==
    ASSUME TypeOK
    PROVE  Cell \in Bytes
<1>1. chardisplaycp % CgSize \in 0 .. CgSize - 1 /\ chardisplaycp % RamSize \in 0 .. RamSize - 1
  BY SizesFacts, IndexInRange DEF TypeOK
<1> QED BY <1>1 DEF Cell, TypeOK

(* What a read and a write leave in the interface.                         *)
LEMMA ReadType ==
    ASSUME TypeOK, NEW rs \in {0, 1}, Read(rs)
    PROVE  TypeOK'
<1>1. chardisplaydata' \in Bytes
  <2>1. chardisplaycp % RamSize \in 0..127
    <3>1. chardisplaycp % RamSize \in 0 .. RamSize - 1
      BY SizesFacts, IndexInRange DEF TypeOK
    <3> QED BY <3>1, SizesFacts
  <2>2. (chardisplaycp % RamSize) + (IF Ready THEN 0 ELSE 128) \in Bytes
    BY <2>1 DEF Bytes
  <2> QED BY <2>2, CellType DEF Read, TypeOK
<1>2. pout1' \in Bytes
  <2>1. High(chardisplaydata') \in 0..15 /\ Low(chardisplaydata') \in 0..15
    BY <1>1, HalfType
  <2> QED BY <1>1, <2>1 DEF Read, Bytes
<1>3. chardisplaytick' \in {0, 1}
  BY DEF Read, TickAfter, TypeOK
<1>4. /\ chardisplaycp' \in Int /\ chardisplayofs' \in Int /\ chardisplaydir' \in {1, -1}
      /\ chardisplayshift' \in BOOLEAN /\ chardisplaydcb' \in 0..7
      /\ chardisplaychargen' \in BOOLEAN /\ chardisplaybusy' \in Nat
  BY AdvanceType, OnlyWaitType DEF Read
<1>5. transfers' \in 0 .. MaxTransfers
  BY BusyAssumption DEF Read, Remember, Counted, TypeOK
<1> QED BY <1>1, <1>2, <1>3, <1>4, <1>5 DEF Read, memories, TypeOK

(* The byte a write makes, and the half it may be the first of.            *)
LEMMA WriteData ==
    ASSUME TypeOK, NEW rs \in {0, 1}, NEW p1 \in Port1, Write(rs, p1)
    PROVE  /\ p1 \in Bytes /\ High(p1) \in 0..15
           /\ chardisplaydata' \in Bytes
           /\ chardisplay4bmode => chardisplaydata' = Join(chardisplaydata, High(p1), chardisplaytick)
           /\ ~chardisplay4bmode => chardisplaydata' = p1
           /\ chardisplaytick' \in {0, 1}
<1>1. p1 \in Bytes /\ High(p1) \in 0..15
  BY PortAssumption, HalfType
<1>2. chardisplaydata' = IF chardisplay4bmode THEN Join(chardisplaydata, High(p1), chardisplaytick)
                         ELSE p1
  BY DEF Write
<1>3. chardisplaydata' \in Bytes
  BY <1>1, <1>2, JoinType DEF TypeOK
<1>4. chardisplaytick' \in {0, 1}
  BY DEF Write, TickAfter, TypeOK
<1> QED BY <1>1, <1>2, <1>3, <1>4

LEMMA WriteType ==
    ASSUME TypeOK, NEW rs \in {0, 1}, NEW p1 \in Port1, Write(rs, p1)
    PROVE  TypeOK'
<1>1. DisplayType' /\ chardisplay4bmode' \in BOOLEAN
  <2>1. CASE Completes(chardisplaytick) /\ Ready /\ rs = 1
    <3>1. Store(chardisplaydata')
      BY <2>1 DEF Write
    <3>2. DisplayType'
      BY <3>1, WriteData, StoreType
    <3> QED BY <3>1, <3>2 DEF Store, TypeOK
  <2>2. CASE Completes(chardisplaytick) /\ Ready /\ rs # 1
    BY <2>2, WriteData, InstructionType DEF Write
  <2>3. CASE ~(Completes(chardisplaytick) /\ Ready)
    BY <2>3, OnlyWaitType DEF Write, memories, DisplayType, TypeOK
  <2> QED BY <2>1, <2>2, <2>3
<1>2. greeting' \in 0..4
  BY DEF Write, Greeting, TypeOK
<1>3. transfers' \in 0 .. MaxTransfers
  BY BusyAssumption DEF Write, Remember, Counted, TypeOK
<1> QED BY <1>1, <1>2, <1>3, WriteData DEF Write, DisplayType, TypeOK

-----------------------------------------------------------------------------
(* Initialization by instruction: what a 3 on the upper lines does in each *)
(* of the three situations, and the 2 at the end.                          *)
LEMMA FunctionSetEffect ==
    ASSUME TypeOK, NEW b \in FunctionSets, Instruction(b)
    PROVE  chardisplay4bmode' = FourBits(b)
<1>1. b \in 32..63
  BY DEF FunctionSets
<1> QED BY <1>1 DEF Instruction, Clear, Home, EntryMode, OnOff, Shift, FunctionSet, SetChargen, SetAddress, NoInstruction

LEMMA ModeKept ==
    ASSUME TypeOK, NEW b \in Bytes, Instruction(b), b \notin FunctionSets
    PROVE  chardisplay4bmode' = chardisplay4bmode
BY DEF Instruction, Clear, Home, EntryMode, OnOff, Shift, FunctionSet, SetChargen, SetAddress,
       NoInstruction, FunctionSets

(* A write of a half in 8-bit mode or of a second half is a whole byte; of *)
(* a first half, only that half.                                           *)
LEMMA WriteMode ==
    ASSUME IInv, NEW rs \in {0, 1}, NEW p1 \in Port1, Write(rs, p1)
    PROVE  LET set == Completes(chardisplaytick) /\ Ready /\ rs = 0 /\ chardisplaydata' \in FunctionSets
           IN  /\ set => chardisplay4bmode' = FourBits(chardisplaydata') /\ chardisplaytick' = 0
               /\ ~set => /\ chardisplay4bmode' = chardisplay4bmode
                          /\ chardisplaytick' = TickAfter(chardisplaytick)
<1> DEFINE set == Completes(chardisplaytick) /\ Ready /\ rs = 0 /\ chardisplaydata' \in FunctionSets
<1>0. TypeOK /\ chardisplaydata' \in Bytes
  BY WriteData DEF IInv
<1>1. chardisplaytick' = IF set THEN 0 ELSE TickAfter(chardisplaytick)
  BY DEF Write
<1>2. CASE Completes(chardisplaytick) /\ Ready /\ rs = 0
  <2>1. Instruction(chardisplaydata')
    BY <1>2 DEF Write
  <2> QED BY <1>0, <1>1, <1>2, <2>1, FunctionSetEffect, ModeKept
<1>3. CASE Completes(chardisplaytick) /\ Ready /\ rs # 0
  BY <1>1, <1>3 DEF Write, Store
<1>4. CASE ~(Completes(chardisplaytick) /\ Ready)
  BY <1>1, <1>4 DEF Write
<1> QED BY <1>2, <1>3, <1>4

LEMMA WriteInitialization ==
    ASSUME IInv, NEW rs \in {0, 1}, NEW p1 \in Port1, Write(rs, p1)
    PROVE  InitializationSynchronises' /\ GreetingSoFar'
<1>0. /\ chardisplaytick \in {0, 1} /\ chardisplay4bmode \in BOOLEAN /\ greeting \in 0..4
      /\ chardisplaydata \in Bytes /\ (~chardisplay4bmode => chardisplaytick = 0)
  BY DEF IInv, TypeOK, InitializationSynchronises
<1> DEFINE set == Completes(chardisplaytick) /\ Ready /\ rs = 0 /\ chardisplaydata' \in FunctionSets
<1>1. /\ set => chardisplay4bmode' = FourBits(chardisplaydata') /\ chardisplaytick' = 0
      /\ ~set => chardisplay4bmode' = chardisplay4bmode /\ chardisplaytick' = TickAfter(chardisplaytick)
  BY WriteMode
<1>2. greeting' = Greeting(rs, p1)
  BY DEF Write
<1>7. ~FourBits(48) /\ ~FourBits(51) /\ FourBits(32)
  BY DEF FourBits
<1>3. ~chardisplay4bmode' => chardisplaytick' = 0
  BY <1>0, <1>1 DEF TickAfter
<1>4. CASE greeting' = 0
  BY <1>3, <1>4 DEF InitializationSynchronises, GreetingSoFar
<1>5. CASE rs = 0 /\ Ready /\ p1 = 48
  <2>1. High(p1) = 3 /\ 48 \in FunctionSets /\ 51 \in FunctionSets
    BY <1>5 DEF High, FunctionSets
  <2>2. CASE ~chardisplay4bmode
    <3>1. chardisplaydata' = 48 /\ set
      BY <1>5, <2>1, <2>2, WriteData DEF IInv, Completes
    <3>2. chardisplay4bmode' = FourBits(48) /\ chardisplaytick' = 0
      BY <1>1, <3>1
    <3>3. ~chardisplay4bmode' /\ chardisplaytick' = 0
      BY <1>7, <3>2
    <3> QED BY <1>2, <1>5, <3>3 DEF Greeting, InitializationSynchronises, GreetingSoFar, IInv, TypeOK
  <2>3. CASE chardisplay4bmode /\ chardisplaytick = 0
    <3>1. High(chardisplaydata') = 3
      BY <1>0, <1>5, <2>1, <2>3, WriteData, JoinType DEF IInv
    <3>2. chardisplay4bmode' /\ chardisplaytick' = 1
      BY <1>1, <2>3 DEF Completes, TickAfter
    <3>3. greeting \notin {2, 3}
      BY <2>3 DEF IInv, InitializationSynchronises, GreetingSoFar
    <3> QED BY <1>0, <1>2, <1>5, <3>1, <3>2, <3>3 DEF Greeting, InitializationSynchronises, GreetingSoFar
  <2>4. CASE chardisplay4bmode /\ chardisplaytick = 1 /\ High(chardisplaydata) = 3
    <3>1. chardisplaydata' = 51
      BY <1>0, <1>5, <2>1, <2>4, WriteData, JoinType DEF IInv
    <3>2. set
      BY <1>5, <2>1, <2>4, <3>1 DEF Completes
    <3>3. chardisplay4bmode' = FourBits(51) /\ chardisplaytick' = 0
      BY <1>1, <3>1, <3>2
    <3>4. ~chardisplay4bmode' /\ chardisplaytick' = 0
      BY <1>7, <3>3
    <3> QED BY <1>0, <1>2, <1>5, <3>4 DEF Greeting, InitializationSynchronises, GreetingSoFar
  <2>5. CASE chardisplay4bmode /\ chardisplaytick = 1 /\ High(chardisplaydata) # 3
    <3>1. greeting \in {0, 4}
      BY <1>0, <2>5 DEF IInv, InitializationSynchronises, GreetingSoFar
    <3>2. TickAfter(chardisplaytick) = 0
      BY <2>5 DEF TickAfter
    <3>3. chardisplaytick' = 0
      BY <1>1, <3>2
    <3> QED BY <1>2, <1>5, <3>1, <3>3 DEF Greeting, InitializationSynchronises, GreetingSoFar
  <2> QED BY <1>0, <2>2, <2>3, <2>4, <2>5
<1>6. CASE rs = 0 /\ Ready /\ p1 = 32 /\ greeting = 3
  <2>1. ~chardisplay4bmode /\ chardisplaytick = 0
    BY <1>0, <1>6 DEF IInv, InitializationSynchronises
  <2>2. chardisplaydata' = 32 /\ set
    BY <1>6, <2>1, WriteData DEF IInv, Completes, FunctionSets
  <2>3. chardisplay4bmode' = FourBits(32) /\ chardisplaytick' = 0
    BY <1>1, <2>2
  <2>4. chardisplay4bmode' /\ chardisplaytick' = 0
    BY <1>7, <2>3
  <2> QED BY <1>2, <1>6, <2>4 DEF Greeting, InitializationSynchronises, GreetingSoFar
<1> QED BY <1>2, <1>4, <1>5, <1>6 DEF Greeting

LEMMA InitInvariant == Init => IInv
<1> SUFFICES ASSUME Init PROVE IInv
  OBVIOUS
<1>1. /\ chardisplayram \in [0 .. RamSize - 1 -> Bytes]
      /\ chardisplaycgram \in [0 .. CgSize - 1 -> Bytes]
  BY DEF Init, Bytes
<1>2. chardisplaydata \in Bytes /\ transfers \in 0 .. MaxTransfers
  BY PortAssumption, BusyAssumption DEF Init
<1>3. pout1 \in Bytes
  BY DEF Init, Bytes
<1>4. chardisplaytick \in {0, 1} /\ chardisplay4bmode \in BOOLEAN
  BY DEF Init
<1>5. chardisplayshift \in BOOLEAN /\ chardisplaychargen \in BOOLEAN
  BY Zenon DEF Init
<1>6. /\ logicmode \in {0, 3} /\ E \in {0, 1} /\ chardisplaycp \in Int /\ chardisplayofs \in Int
      /\ chardisplaydir \in {1, -1} /\ chardisplaydcb \in 0..7
      /\ chardisplaybusy \in Nat /\ greeting \in 0..4
  BY DEF Init
<1>7. TypeOK
  BY <1>1, <1>2, <1>3, <1>4, <1>5, <1>6 DEF TypeOK
<1>8. InitializationSynchronises /\ GreetingSoFar
  BY DEF Init, InitializationSynchronises, GreetingSoFar
<1> QED BY <1>7, <1>8 DEF IInv

(* Every step but a write ends the initialization, or changes nothing it   *)
(* is about.                                                               *)
LEMMA StepInvariant == IInv /\ [Next]_vars => IInv'
<1> SUFFICES ASSUME IInv, [Next]_vars PROVE IInv'
  OBVIOUS
<1>0. TypeOK /\ InitializationSynchronises /\ GreetingSoFar
  BY DEF IInv
<1>1. ASSUME NEW rs \in {0, 1}, Read(rs) PROVE IInv'
  <2>1. TypeOK'
    BY <1>0, <1>1, ReadType
  <2>2. greeting' = 0 /\ chardisplay4bmode' = chardisplay4bmode
        /\ chardisplaytick' = TickAfter(chardisplaytick)
    BY <1>1 DEF Read
  <2>3. ~chardisplay4bmode' => chardisplaytick' = 0
    BY <1>0, <2>2 DEF InitializationSynchronises, TickAfter
  <2> QED BY <2>1, <2>2, <2>3 DEF IInv, InitializationSynchronises, GreetingSoFar
<1>2. ASSUME NEW rs \in {0, 1}, NEW p1 \in Port1, Write(rs, p1) PROVE IInv'
  BY <1>0, <1>2, WriteType, WriteInitialization DEF IInv
<1>3. CASE OtherTick
  <2>1. TypeOK'
    BY <1>0, <1>3, WaitedType DEF OtherTick, memories, settings, bus, history, TypeOK
  <2> QED BY <1>0, <1>3, <2>1 DEF OtherTick, bus, history, IInv, InitializationSynchronises, GreetingSoFar
<1>4. ASSUME NEW mode \in {0, 3}, EnterMode(mode) PROVE IInv'
  <2>1. chardisplayram' \in [0 .. RamSize - 1 -> Bytes]
    BY <1>4 DEF EnterMode, Space, Bytes
  <2>2. TypeOK'
    BY <1>0, <1>4, <2>1 DEF EnterMode, settings, bus, TypeOK
  <2> QED BY <1>0, <1>4, <2>2 DEF EnterMode, bus, IInv, InitializationSynchronises, GreetingSoFar
<1>5. CASE UNCHANGED vars
  BY <1>0, <1>5 DEF vars, memories, settings, bus, history, IInv, TypeOK,
     InitializationSynchronises, GreetingSoFar
<1> QED BY <1>1, <1>2, <1>3, <1>4, <1>5 DEF Next

LEMMA Invariant == Spec => []IInv
BY InitInvariant, StepInvariant, PTL DEF Spec

(* Everything the display keeps has its type: the bytes put together from  *)
(* halves and the two memories stay bytes, for every program.              *)
THEOREM TypeCorrect == Spec => []TypeOK
<1>1. IInv => TypeOK
  BY DEF IInv
<1> QED BY <1>1, Invariant, PTL

(* The 3, 3, 3, 2 at the start of a program brings the display into 4-bit  *)
(* mode between two bytes from any state that an earlier program left.     *)
THEOREM InitializationHolds == Spec => []InitializationSynchronises
<1>1. IInv => InitializationSynchronises
  BY DEF IInv
<1> QED BY <1>1, Invariant, PTL

-----------------------------------------------------------------------------
(* The display implements the contents: each transfer that completes a     *)
(* byte while it is ready is one operation, all others are none.           *)
LEMMA AdvanceContents ==
    ASSUME Advance
    PROVE  Contents!Advance
BY DEF Advance, Step, Contents!Advance

LEMMA StoreContents ==
    ASSUME NEW b \in Bytes, Store(b)
    PROVE  Contents!Next
<1>1. Contents!Put(b)
  BY AdvanceContents DEF Store, Contents!Put
<1> QED BY <1>1 DEF Contents!Next

LEMMA WaitContents ==
    ASSUME OnlyWait, UNCHANGED memories
    PROVE  UNCHANGED Contents!contents
BY DEF OnlyWait, memories, settings, Contents!contents

LEMMA InstructionContents ==
    ASSUME TypeOK, NEW b \in Bytes, Instruction(b)
    PROVE  [Contents!Next]_(Contents!contents)
<1>1. CASE Clear(b)
  BY <1>1 DEF Clear, Contents!Clear, Contents!Blank, Contents!Next
<1>2. CASE Home(b)
  BY <1>2 DEF Home, memories, Contents!Home, Contents!Next
<1>3. CASE EntryMode(b)
  BY <1>3 DEF EntryMode, memories, Contents!Entry, Contents!Next
<1>4. CASE OnOff(b)
  BY <1>4 DEF OnOff, memories, Contents!contents
<1>5. CASE Shift(b)
  BY <1>5 DEF Shift, memories, TypeOK, Contents!MoveCursor, Contents!MoveText, Contents!Next
<1>6. CASE FunctionSet(b)
  BY <1>6 DEF FunctionSet, memories, settings, Contents!contents
<1>7. CASE SetChargen(b)
  BY <1>7 DEF SetChargen, memories, Contents!GoToShapes, Contents!Next
<1>8. CASE SetAddress(b)
  <2>1. b \in Int
    BY DEF Bytes
  <2>2. b % RamSize \in 0 .. RamSize - 1
    BY <2>1, SizesFacts, IndexInRange
  <2> QED BY <1>8, <2>2 DEF SetAddress, memories, Contents!GoTo, Contents!Next
<1>9. CASE NoInstruction(b)
  BY <1>9, WaitContents DEF NoInstruction
<1> QED BY <1>1, <1>2, <1>3, <1>4, <1>5, <1>6, <1>7, <1>8, <1>9 DEF Instruction

LEMMA StepContents == TypeOK /\ [Next]_vars => [Contents!Next]_(Contents!contents)
<1> SUFFICES ASSUME TypeOK, [Next]_vars PROVE [Contents!Next]_(Contents!contents)
  OBVIOUS
<1>1. ASSUME NEW rs \in {0, 1}, Read(rs) PROVE [Contents!Next]_(Contents!contents)
  <2>1. CASE rs = 1 /\ Ready /\ Completes(chardisplaytick)
    BY <1>1, <2>1, AdvanceContents DEF Read, memories, Contents!Get, Contents!Next
  <2>2. CASE ~(rs = 1 /\ Ready /\ Completes(chardisplaytick))
    BY <1>1, <2>2, WaitContents DEF Read
  <2> QED BY <2>1, <2>2
<1>2. ASSUME NEW rs \in {0, 1}, NEW p1 \in Port1, Write(rs, p1)
      PROVE  [Contents!Next]_(Contents!contents)
  <2>1. chardisplaydata' \in Bytes
    BY <1>2, WriteData
  <2>2. CASE Completes(chardisplaytick) /\ Ready /\ rs = 1
    BY <1>2, <2>1, <2>2, StoreContents DEF Write
  <2>3. CASE Completes(chardisplaytick) /\ Ready /\ rs # 1
    BY <1>2, <2>1, <2>3, InstructionContents DEF Write
  <2>4. CASE ~(Completes(chardisplaytick) /\ Ready)
    BY <1>2, <2>4, WaitContents DEF Write
  <2> QED BY <2>2, <2>3, <2>4
<1>3. CASE OtherTick
  BY <1>3 DEF OtherTick, memories, settings, Contents!contents
<1>4. ASSUME NEW mode \in {0, 3}, EnterMode(mode) PROVE [Contents!Next]_(Contents!contents)
  BY <1>4 DEF EnterMode, settings, Contents!Reopened, Contents!Blank, Contents!Next
<1>5. CASE UNCHANGED vars
  BY <1>5 DEF vars, memories, settings, Contents!contents
<1> QED BY <1>1, <1>2, <1>3, <1>4, <1>5 DEF Next

(* Whatever a program sends in whatever halves, at whatever time: the      *)
(* contents are those of a display that is given whole bytes.              *)
THEOREM ImplementsContents == Spec => ContentsSpec
<1>1. Init => Contents!Init
  BY DEF Init, Contents!Init
<1> QED BY <1>1, StepContents, TypeCorrect, PTL DEF Spec, ContentsSpec, Contents!Spec
-----------------------------------------------------------------------------
(* Whole bytes.  Between the two halves of a byte, the half sent last is   *)
(* the upper half of the cell that is being read, or of the byte that is   *)
(* being put together: nothing in between moves the cursor or writes.      *)
HalfSoFar ==
    (chardisplay4bmode /\ chardisplaytick = 1) =>
       /\ (last.kind = "read" /\ last.rs = 1 /\ last.ready) => last.half = High(Cell)
       /\ last.kind = "write" => last.half = High(chardisplaydata)

HalvesOfUpper ==               \* what a half of a byte is when it is on the upper lines
    \A b \in Bytes : High(16 * High(b)) = High(b) /\ High(16 * Low(b)) = Low(b)

LEMMA HalvesOnUpperLines == HalvesOfUpper
<1> SUFFICES ASSUME NEW b \in Bytes
             PROVE  High(16 * High(b)) = High(b) /\ High(16 * Low(b)) = Low(b)
  BY DEF HalvesOfUpper
<1>1. ASSUME NEW h \in 0..15 PROVE High(16 * h) = h
  BY DEF High
<1> QED BY <1>1, HalfType

LEMMA HalvesMakeByte ==
    ASSUME NEW b \in Bytes
    PROVE  16 * High(b) + Low(b) = b
BY DEF Bytes, High, Low

(* A ready read of data gives the half of the cell whose turn it is.       *)
LEMMA ReadGivesHalf ==
    ASSUME TypeOK, NEW rs \in {0, 1}, Read(rs), rs = 1, Ready, chardisplay4bmode
    PROVE  last'.half = IF chardisplaytick = 1 THEN Low(Cell) ELSE High(Cell)
<1>1. chardisplaydata' = Cell /\ Cell \in Bytes
  BY CellType DEF Read
<1>2. pout1' = 16 * (IF chardisplaytick = 1 THEN Low(Cell) ELSE High(Cell))
  BY <1>1 DEF Read
<1>3. last'.half = High(pout1')
  BY DEF Read, Remember
<1> QED BY <1>1, <1>2, <1>3, HalvesOnUpperLines DEF HalvesOfUpper

LEMMA ReadHalf ==
    ASSUME IInv, NEW rs \in {0, 1}, Read(rs)
    PROVE  HalfSoFar'
<1>1. /\ last'.kind = "read" /\ last'.rs = rs /\ last'.ready = Ready
      /\ chardisplay4bmode' = chardisplay4bmode
      /\ chardisplaytick' = TickAfter(chardisplaytick)
  BY DEF Read, Remember
<1> SUFFICES ASSUME chardisplay4bmode, chardisplaytick' = 1, rs = 1, Ready
             PROVE  last'.half = High(Cell')
  BY <1>1 DEF HalfSoFar
<1>2. chardisplaytick = 0
  BY <1>1 DEF TickAfter, IInv, TypeOK
<1>3. last'.half = High(Cell)
  BY <1>2, ReadGivesHalf DEF IInv
<1>4. Cell' = Cell
  BY <1>2 DEF Read, Completes, OnlyWait, settings, memories, Cell
<1> QED BY <1>3, <1>4

LEMMA WriteHalf ==
    ASSUME IInv, NEW rs \in {0, 1}, NEW p1 \in Port1, Write(rs, p1)
    PROVE  HalfSoFar'
<1>1. last'.kind = "write" /\ last'.half = High(p1)
  BY DEF Write, Remember
<1> SUFFICES ASSUME chardisplay4bmode', chardisplaytick' = 1
             PROVE  last'.half = High(chardisplaydata')
  BY <1>1 DEF HalfSoFar
<1>2. /\ chardisplaytick \in {0, 1} /\ chardisplay4bmode \in BOOLEAN /\ chardisplaydata \in Bytes
      /\ (~chardisplay4bmode => chardisplaytick = 0)
  BY DEF IInv, TypeOK, InitializationSynchronises
<1> DEFINE set == Completes(chardisplaytick) /\ Ready /\ rs = 0 /\ chardisplaydata' \in FunctionSets
<1>3. ~set /\ chardisplay4bmode' = chardisplay4bmode /\ chardisplaytick' = TickAfter(chardisplaytick)
  <2>1. /\ set => chardisplaytick' = 0
        /\ ~set => chardisplay4bmode' = chardisplay4bmode /\ chardisplaytick' = TickAfter(chardisplaytick)
    BY WriteMode
  <2>2. ~set
    BY <2>1
  <2> QED BY <2>1, <2>2
<1>4. chardisplay4bmode /\ chardisplaytick = 0
  BY <1>2, <1>3 DEF TickAfter
<1>5. p1 \in Bytes /\ High(p1) \in 0..15 /\ chardisplaydata' = Join(chardisplaydata, High(p1), 0)
  BY <1>4, WriteData DEF IInv
<1>6. High(Join(chardisplaydata, High(p1), 0)) = High(p1)
  BY <1>2, <1>5, JoinType
<1> QED BY <1>1, <1>5, <1>6

LEMMA InitHalf == Init => HalfSoFar
BY DEF Init, Nothing, HalfSoFar

LEMMA StepHalf == IInv /\ HalfSoFar /\ [Next]_vars => HalfSoFar'
<1> SUFFICES ASSUME IInv, HalfSoFar, [Next]_vars PROVE HalfSoFar'
  OBVIOUS
<1>1. ASSUME NEW rs \in {0, 1}, Read(rs) PROVE HalfSoFar'
  BY <1>1, ReadHalf
<1>2. ASSUME NEW rs \in {0, 1}, NEW p1 \in Port1, Write(rs, p1) PROVE HalfSoFar'
  BY <1>2, WriteHalf
<1>3. CASE OtherTick
  BY <1>3 DEF OtherTick, memories, settings, bus, history, HalfSoFar, Cell
<1>4. ASSUME NEW mode \in {0, 3}, EnterMode(mode) PROVE HalfSoFar'
  BY <1>4 DEF EnterMode, Nothing, HalfSoFar
<1>5. CASE UNCHANGED vars
  BY <1>5 DEF vars, memories, settings, bus, history, HalfSoFar, Cell
<1> QED BY <1>1, <1>2, <1>3, <1>4, <1>5 DEF Next

(* Of the steps only the transfers count, and they tell their kind.        *)
LEMMA SecondOfRead ==
    ASSUME [Next]_vars, IsSecond("read"), TypeOK
    PROVE  \E rs \in {0, 1} : Read(rs)
<1>1. CASE OtherTick
  BY <1>1 DEF OtherTick, history, IsSecond
<1>2. ASSUME NEW mode \in {0, 3}, EnterMode(mode) PROVE FALSE
  BY <1>2 DEF EnterMode, IsSecond
<1>3. ASSUME NEW rs \in {0, 1}, NEW p1 \in Port1, Write(rs, p1) PROVE FALSE
  BY <1>3 DEF Write, Remember, IsSecond
<1>4. CASE UNCHANGED vars
  BY <1>4 DEF vars, history, IsSecond
<1> QED BY <1>1, <1>2, <1>3, <1>4 DEF Next

LEMMA SecondOfWrite ==
    ASSUME [Next]_vars, IsSecond("write"), TypeOK
    PROVE  \E rs \in {0, 1}, p1 \in Port1 : Write(rs, p1)
<1>1. CASE OtherTick
  BY <1>1 DEF OtherTick, history, IsSecond
<1>2. ASSUME NEW mode \in {0, 3}, EnterMode(mode) PROVE FALSE
  BY <1>2 DEF EnterMode, IsSecond
<1>3. ASSUME NEW rs \in {0, 1}, Read(rs) PROVE FALSE
  BY <1>3 DEF Read, Remember, IsSecond
<1>4. CASE UNCHANGED vars
  BY <1>4 DEF vars, history, IsSecond
<1> QED BY <1>1, <1>2, <1>3, <1>4 DEF Next

LEMMA ReadsWhole ==
    ASSUME IInv, HalfSoFar, [Next]_vars
    PROVE  ReadWhole
<1> SUFFICES ASSUME IsSecond("read"), last.rs = 1, last'.rs = 1, last.ready, last'.ready
             PROVE  16 * last.half + last'.half = Cell
  BY DEF ReadWhole
<1>1. PICK rs \in {0, 1} : Read(rs)
  BY SecondOfRead DEF IInv
<1>2. rs = 1 /\ Ready /\ chardisplay4bmode /\ chardisplaytick = 1
  BY <1>1 DEF Read, Remember, IsSecond
<1>3. last.half = High(Cell)
  BY <1>2 DEF HalfSoFar, IsSecond
<1>4. last'.half = Low(Cell)
  BY <1>1, <1>2, ReadGivesHalf DEF IInv
<1> QED BY <1>3, <1>4, CellType, HalvesMakeByte DEF IInv

LEMMA WritesWhole ==
    ASSUME IInv, HalfSoFar, [Next]_vars
    PROVE  WrittenWhole
<1> SUFFICES ASSUME IsSecond("write"), last'.rs = 1, last'.ready, ~chardisplaychargen
             PROVE  chardisplayram'[chardisplaycp % RamSize] = 16 * last.half + last'.half
  BY DEF WrittenWhole
<1>1. PICK rs \in {0, 1}, p1 \in Port1 : Write(rs, p1)
  BY SecondOfWrite DEF IInv
<1>2. rs = 1 /\ Ready /\ chardisplay4bmode /\ chardisplaytick = 1 /\ last'.half = High(p1)
  BY <1>1 DEF Write, Remember, IsSecond
<1>3. last.half = High(chardisplaydata)
  BY <1>2 DEF HalfSoFar, IsSecond
<1>4. chardisplaydata' = 16 * High(chardisplaydata) + High(p1)
  BY <1>1, <1>2, WriteData, JoinType DEF IInv, TypeOK
<1>5. chardisplayram' = [chardisplayram EXCEPT ![chardisplaycp % RamSize] = chardisplaydata']
  BY <1>1, <1>2 DEF Write, Completes, Store
<1>6. chardisplaycp % RamSize \in 0 .. RamSize - 1
  BY SizesFacts, IndexInRange DEF IInv, TypeOK
<1> QED BY <1>2, <1>3, <1>4, <1>5, <1>6 DEF IInv, TypeOK

(* The two halves a program reads are those of one cell, and the byte that *)
(* is stored is made of the two halves that were sent, whatever happens    *)
(* between them.                                                           *)
THEOREM BytesStayWhole == Spec => WholeBytes
<1>1. IInv /\ HalfSoFar /\ [Next]_vars => [ReadWhole /\ WrittenWhole]_vars
  BY ReadsWhole, WritesWhole
<1>2. Spec => []HalfSoFar
  BY InitHalf, StepHalf, Invariant, PTL DEF Spec
<1> QED BY <1>1, <1>2, Invariant, PTL DEF Spec, WholeBytes
=============================================================================
