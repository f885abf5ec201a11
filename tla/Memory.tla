------------------------------- MODULE Memory -------------------------------
(***************************************************************************)
(* The data memories and the instructions that move, combine and test      *)
(* bytes and bits in them (opcodes.c): direct, by pointer, by register of  *)
(* the selected bank, by bit.  Arithmetic is in Alu, the stack in Frames.  *)
(*                                                                         *)
(* A cell is <<"ram", a>>, <<"sfr", a>> or <<"ext", a>>; above 127 a direct *)
(* address is a register and a pointer goes to the upper RAM.  A program   *)
(* is modelled that keeps to Cells: any of its instructions may come next. *)
(* Values are bytes; the program counter is left out, but for whether a    *)
(* conditional jump was taken.                                             *)
(***************************************************************************)
EXTENDS Integers, FiniteSets

CONSTANTS
    Cells,                     \* those the program uses
    HasUpper,                  \* whether mUpperData is there
    Ports,                     \* register addresses read through emu_sfrread
    opt_input_outputlow,       \* 0: a 0 in the latch reads 0; 1: the pin; 2: at random
    Pins, Noise,               \* what devices drive; what rand() gives
    Immediates, RegisterNumbers, BitAddresses,
    Start,                     \* contents that the program's first moves left
    Locks,                     \* bits the program uses as semaphores
    MaxOps                     \* instructions in a behaviour: a bound

Bytes == 0..255
ACC == <<"sfr", 224>>
PSW == <<"sfr", 208>>
DPL == <<"sfr", 130>>
DPH == <<"sfr", 131>>
BadValue == 119

ASSUME CellsAssumption ==
    /\ Cells \subseteq ({"ram"} \X Bytes) \cup ({"sfr"} \X (128..255)) \cup ({"ext"} \X Bytes)
    /\ {ACC, PSW, DPL, DPH} \subseteq Cells
    /\ HasUpper \in BOOLEAN
    /\ \E n \in {1, 2, 4, 8, 16, 32, 64, 128, 256} :       \* mExtDataMaxIdx + 1
          Cells \cap ({"ext"} \X Bytes) = {"ext"} \X (0 .. n - 1)
    /\ ~HasUpper => Cells \cap ({"ram"} \X (128..255)) = {}
ASSUME OperandsAssumption ==
    /\ opt_input_outputlow \in 0..2 /\ Ports \subseteq 128..255
    /\ Pins \subseteq Bytes /\ Noise \subseteq Bytes /\ Immediates \subseteq Bytes
    /\ RegisterNumbers \subseteq 0..7 /\ BitAddresses \subseteq Bytes
    /\ MaxOps \in Nat

VARIABLES
    mem,
    pout,                      \* what the devices drive onto the pins, by port
    taken,                     \* whether the last instruction was a jump taken
    by,                        \* history: how the last instruction named its destination
    exchanged,                 \* history: the exchange just made, if it was one
    granted,                   \* history: locks taken by JBC and not set since
    ops                        \* history: instructions so far

history == <<exchanged, granted, ops>>
vars == <<mem, pout, taken, by, history>>

Nothing == [cell |-> "none"]

-----------------------------------------------------------------------------
(* A byte as the set of its bits, and back. *)
Place == <<1, 2, 4, 8, 16, 32, 64, 128>>
Bits(v) == {k \in 0..7 : (v \div Place[k + 1]) % 2 = 1}
Byte(s) ==
    LET Worth(k) == IF k \in s THEN Place[k + 1] ELSE 0
    IN  Worth(0) + Worth(1) + Worth(2) + Worth(3) + Worth(4) + Worth(5) + Worth(6) + Worth(7)

And(v, w) == Byte(Bits(v) \cap Bits(w))
Or(v, w) == Byte(Bits(v) \cup Bits(w))
Xor(v, w) == Byte((Bits(v) \cup Bits(w)) \ (Bits(v) \cap Bits(w)))
Not(v) == 255 - v
WithBit(v, k, on) == Byte(IF on THEN Bits(v) \cup {k} ELSE Bits(v) \ {k})

-----------------------------------------------------------------------------
(* Variants with a slip in them, to see that the properties would notice.  *)
ParityOfNibble(v) == IF v % 16 \in {1, 2, 4, 7, 8, 11, 13, 14} THEN 1 ELSE 0
LatchReadsPins(m, c) == IF c[1] = "sfr" /\ c[2] \in Ports THEN pout[c[2]] ELSE m[c]
SwappedEarly(m, c, v) == [m EXCEPT ![ACC] = v, ![c] = v]
NotCleared(m, c, k) == m

-----------------------------------------------------------------------------
A == mem[ACC]
Carry == 7 \in Bits(mem[PSW])
WithCarry(m, on) == [m EXCEPT ![PSW] = WithBit(@, 7, on)]

(* The parity bit, from the table of that of sixteen values, 0x6996. *)
OddParity == {1, 2, 4, 7, 8, 11, 13, 14}
Parity(v) == IF Xor(v \div 16, v % 16) \in OddParity THEN 1 ELSE 0

(* tick() sets P after every instruction. *)
AfterTick(m) == [m EXCEPT ![PSW] = 2 * (@ \div 2) + Parity(m[ACC])]

Wrap(v) == v % 256

Bank(m) == (m[PSW] \div 8) % 4

Direct(a) == <<IF a > 127 THEN "sfr" ELSE "ram", a>>
Register(n) == <<"ram", n + 8 * Bank(mem)>>
Pointer(i) == <<"ram", mem[Register(i)]>>

Registers == {Register(n) : n \in RegisterNumbers} \cap Cells
DirectCells == {c \in Cells : c[1] = "sfr" \/ (c[1] = "ram" /\ c[2] < 128)}
Pointed ==
    {c \in {Pointer(i) : i \in {i \in RegisterNumbers \cap {0, 1} : Register(i) \in Cells}} :
        c \in Cells \/ (c[2] > 127 /\ ~HasUpper)}

(* What a read of a cell may give: of a port, the pins; of upper RAM that  *)
(* is not there, a constant.                                               *)
ReadPort(pin, latch) ==
    CASE opt_input_outputlow = 1 -> {pin}
      [] opt_input_outputlow = 0 -> {And(pin, latch)}
      [] OTHER -> {Or(And(pin, latch), And(r, Not(latch))) : r \in Noise}

Read(c) ==
    IF c \notin Cells THEN {BadValue}
    ELSE IF c[1] = "sfr" /\ c[2] \in Ports THEN ReadPort(pout[c[2]], mem[c])
    ELSE {mem[c]}

(* Where the latch is read, and not the pin. *)
Latch(m, c) == m[c]

-----------------------------------------------------------------------------
(* Bits: 128 of them in sixteen bytes of RAM, the others in the registers  *)
(* whose addresses are multiples of eight.                                 *)
BitCell(b) == IF b > 127 THEN <<"sfr", b - (b % 8)>> ELSE <<"ram", 32 + b \div 8>>
IsSet(m, b) == b % 8 \in Bits(m[BitCell(b)])

ParityBit == 208               \* address of P, which tick() computes

ASSUME BitsAssumption ==       \* what a program addresses by bit is in Cells
    /\ \A b \in BitAddresses : BitCell(b) \in Cells
    /\ Locks \subseteq BitAddresses \ {ParityBit}
ASSUME StartAssumption == Start \subseteq [Cells -> Bytes]

(* Every instruction: the memory it leaves, how it names the destination.  *)
Ends(m, how, jump) ==
    /\ mem' = AfterTick(m)
    /\ by' = how /\ taken' = jump
    /\ UNCHANGED pout
    /\ ops' = ops + 1

(* Setting a lock again lets it be taken again. *)
LocksSet == granted' = [b \in Locks |-> IF ~IsSet(mem, b) /\ IsSet(mem', b) THEN 0 ELSE granted[b]]

Jumps(m, how, jump) == Ends(m, how, jump) /\ LocksSet /\ exchanged' = Nothing

Leaves(m, how) == Jumps(m, how, FALSE)

Store(c, v, how) == Leaves([mem EXCEPT ![c] = v], how)

MoveToA == \E c \in DirectCells \cup Pointed \cup Registers : \E v \in Read(c) : Store(ACC, v, "a")

MoveToDirect == \E c \in DirectCells :
    \/ \E v \in Immediates \cup {A} : Store(c, v, "direct")
    \/ \E d \in DirectCells \cup Registers : \E v \in Read(d) : Store(c, v, "direct")

MoveToPointed == \E c \in Pointed :
    \/ \E v \in Immediates \cup {A} : Store(c, v, "pointer")
    \/ \E d \in DirectCells : \E v \in Read(d) : Store(c, v, "pointer")

MoveToRegister == \E c \in Registers :
    \/ \E v \in Immediates \cup {A} : Store(c, v, "register")
    \/ \E d \in DirectCells : \E v \in Read(d) : Store(c, v, "register")

(* mov_mem_indir_rx takes its two addresses the other way about: the       *)
(* direct one is read as by a pointer, and that in the pointer is direct.  *)
MovePointedToDirect(a, i) ==
    LET from == <<"ram", a>>
        to == Direct(mem[Register(i)])
    IN  /\ Register(i) \in Cells /\ to \in Cells
        /\ from \in Cells \/ (a > 127 /\ ~HasUpper)
        /\ \E v \in Read(from) : Store(to, v, "pointedToDirect")

Combined(v, w) == {And(v, w), Or(v, w), Xor(v, w)}

ChangeA == \E v \in {0, Not(A)} : Store(ACC, v, "a")          \* CLR and CPL

CombineIntoA(w) == \E v \in Combined(A, w) : Store(ACC, v, "a")

CombineImmediate == \E w \in Immediates : CombineIntoA(w)
CombineFrom == \E c \in DirectCells \cup Pointed : \E w \in Read(c) : CombineIntoA(w)
CombineRegister == \E c \in Registers : CombineIntoA(mem[c])

(* ANL and XRL with A change the latch; ORL, and all three with a          *)
(* constant, read the pins of a port first.                                *)
AndInto == \E c \in DirectCells : Store(c, And(Latch(mem, c), A), "direct")
XorInto == \E c \in DirectCells : Store(c, Xor(Latch(mem, c), A), "direct")
OrInto == \E c \in DirectCells : \E w \in Read(c) : Store(c, Or(w, A), "direct")
CombineConstant == \E c \in DirectCells, i \in Immediates : \E w \in Read(c) :
    \E v \in Combined(w, i) : Store(c, v, "direct")

CombineIntoDirect == AndInto \/ XorInto \/ OrInto \/ CombineConstant

CountDirect(step) == \E c \in DirectCells : \E v \in Read(c) :      \* INC and DEC
    Store(c, Wrap(v + step), "direct")
CountPointed(step) == \E c \in Pointed : \E v \in Read(c) : Store(c, Wrap(v + step), "pointer")
CountRegister(step) == \E c \in Registers : Store(c, Wrap(mem[c] + step), "register")

DecrementAndJump(c, v, how) == Jumps([mem EXCEPT ![c] = Wrap(v - 1)], how, v # 1)

DecrementDirect == \E c \in DirectCells : \E v \in Read(c) : DecrementAndJump(c, v, "direct")
DecrementRegister == \E c \in Registers : DecrementAndJump(c, mem[c], "register")

Swapped(m, c, v) == [m EXCEPT ![c] = m[ACC], ![ACC] = v]

Exchange(c, how) == \E v \in Read(c) :
    /\ Ends(Swapped(mem, c, v), how, FALSE) /\ LocksSet
    /\ exchanged' = [cell |-> c, a |-> A, value |-> v]

Exchanges ==
    \/ \E c \in DirectCells : Exchange(c, "direct")
    \/ \E c \in Pointed : Exchange(c, "pointer")
    \/ \E c \in Registers : Exchange(c, "register")

(* The low digit goes into A first and from there back to where it was.    *)
ExchangeDigit == \E c \in Pointed : \E v \in Read(c) :
    LET a == 16 * (A \div 16) + (v % 16)
    IN  Leaves([mem EXCEPT ![ACC] = a, ![c] = 16 * (v \div 16) + (a % 16)], "pointer")

-----------------------------------------------------------------------------
ReadBit(b) == {(b % 8 \in Bits(v)) : v \in Read(BitCell(b))}

WriteBit(b, on) ==
    LET c == BitCell(b)
    IN  [mem EXCEPT ![c] = WithBit(Latch(mem, c), b % 8, on)]

SetBit(b) == Leaves(WriteBit(b, TRUE), "bit")
ClearBit(b) == Leaves(WriteBit(b, FALSE), "bit")
ComplementBit(b) == Leaves(WriteBit(b, ~IsSet(mem, b)), "bit")
MoveCarryToBit(b) == Leaves(WriteBit(b, Carry), "bit")

IntoCarry(on) == Leaves(WithCarry(mem, on), "a")

MoveBitToCarry(b) == \E on \in ReadBit(b) : IntoCarry(on)
OrBit(b) == \E on \in ReadBit(b) : IntoCarry(Carry \/ on)
OrNotBit(b) == \E on \in ReadBit(b) : IntoCarry(Carry \/ ~on)
AndBit(b) == \E on \in ReadBit(b) : IntoCarry(Carry /\ on)
AndNotBit(b) == \E on \in ReadBit(b) : IntoCarry(Carry /\ ~on)
CarryAlone == \E on \in BOOLEAN : IntoCarry(on)           \* CLR, SETB and CPL C

JumpIfBit(b) == \E on \in ReadBit(b) : Jumps(mem, "none", on)
JumpIfNotBit(b) == \E on \in ReadBit(b) : Jumps(mem, "none", ~on)

JumpOnCarry == \E jump \in {Carry, ~Carry} : Jumps(mem, "none", jump)
JumpOnA == \E jump \in {A = 0, A # 0} : Jumps(mem, "none", jump)

Cleared(m, c, k) == [m EXCEPT ![c] = WithBit(@, k, FALSE)]

JumpAndClear(b) ==             \* JBC looks at the latch
    LET c == BitCell(b)
        on == b % 8 \in Bits(Latch(mem, c))
        m == IF on THEN Cleared(mem, c, b % 8) ELSE mem
    IN  /\ Ends(m, "bit", on)
        /\ granted' = IF on /\ b \in Locks THEN [granted EXCEPT ![b] = @ + 1] ELSE granted
        /\ exchanged' = Nothing

-----------------------------------------------------------------------------
(* The data pointer and external memory. *)
LoadDptr == \E hi \in Immediates, lo \in Immediates :
    Leaves([mem EXCEPT ![DPH] = hi, ![DPL] = lo], "direct")

IncrementDptr ==
    LET lo == Wrap(mem[DPL] + 1)
    IN  Leaves([mem EXCEPT ![DPL] = lo, ![DPH] = IF lo = 0 THEN Wrap(@ + 1) ELSE @], "direct")

(* mExtDataMaxIdx + 1, a power of two. *)
ExternalSize == Cardinality({c \in Cells : c[1] = "ext"})

External ==
    {<<"ext", a % ExternalSize>> :
       a \in {256 * mem[DPH] + mem[DPL]}
               \cup {mem[Register(i)] : i \in {i \in RegisterNumbers \cap {0, 1} : Register(i) \in Cells}}}

ReadExternal == \E c \in External : Store(ACC, mem[c], "a")
WriteExternal == \E c \in External : Store(c, A, "external")

-----------------------------------------------------------------------------
Instruction ==
    \/ MoveToA \/ MoveToDirect \/ MoveToPointed \/ MoveToRegister
    \/ \E c \in DirectCells, i \in {0, 1} : MovePointedToDirect(c[2], i)
    \/ ChangeA \/ CombineImmediate \/ CombineFrom \/ CombineRegister \/ CombineIntoDirect
    \/ \E step \in {1, -1} : CountDirect(step) \/ CountPointed(step) \/ CountRegister(step)
    \/ DecrementDirect \/ DecrementRegister
    \/ Exchanges \/ ExchangeDigit
    \/ \E b \in BitAddresses :
         \/ SetBit(b) \/ ClearBit(b) \/ ComplementBit(b) \/ MoveCarryToBit(b)
         \/ MoveBitToCarry(b) \/ OrBit(b) \/ OrNotBit(b) \/ AndBit(b) \/ AndNotBit(b)
         \/ JumpIfBit(b) \/ JumpIfNotBit(b) \/ JumpAndClear(b)
    \/ CarryAlone \/ JumpOnCarry
    \/ JumpOnA
    \/ LoadDptr \/ IncrementDptr \/ ReadExternal \/ WriteExternal

(* A device moves its pins, or the user types what a port is to read.      *)
DevicesDrive ==
    /\ \E p \in Ports, v \in Pins : pout' = [pout EXCEPT ![p] = v]
    /\ UNCHANGED <<mem, taken, by, history>>

(* The start is some state after the program's first moves. *)
Init ==
    /\ mem \in {AfterTick(m) : m \in Start}
    /\ pout \in [Ports -> Pins]
    /\ taken = FALSE /\ by = "none" /\ exchanged = Nothing /\ ops = 0
    /\ granted = [b \in Locks |-> IF IsSet(mem, b) THEN 0 ELSE 1]

Next == (ops < MaxOps /\ Instruction) \/ DevicesDrive

Spec == Init /\ [][Next]_vars

-----------------------------------------------------------------------------
(* Properties. *)

(* PSW.0 is 1 when the number of ones in A is odd, whatever instruction    *)
(* wrote A or PSW, and by which address.                                   *)
ParityOfA == mem[PSW] % 2 = Cardinality(Bits(A)) % 2

(* A semaphore that JBC took is not taken again until it was set: the pin  *)
(* of a port bit cannot grant it.                                          *)
LockGrantedOnce == \A b \in Locks : granted[b] <= 1

(* An instruction on one bit leaves the others of the byte as they were,   *)
(* those of a port's latch too whose pins are driven low (of PSW, all but  *)
(* P).                                                                     *)
OtherBitsKept ==
    [][by' = "bit" /\ ops' # ops =>
         \E b \in BitAddresses : \A c \in Cells : LET changed == Bits(Xor(mem[c], mem'[c]))
                                                 IN  changed \subseteq (IF c = BitCell(b) THEN {b % 8} ELSE {})
                                                         \cup (IF c = PSW THEN {0} ELSE {})]_vars

(* Exchanging A with the same cell twice undoes it, pointers into their    *)
(* own registers included; not of a port, whose pins are read, nor of PSW, *)
(* nor of upper RAM that is not there.                                     *)
ExchangeTwice ==
    [][(exchanged # Nothing /\ exchanged' # Nothing /\ ops' # ops /\ exchanged.cell = exchanged'.cell
          /\ exchanged.cell \in Cells \ {PSW} /\ exchanged.cell[2] \notin Ports)
         => mem'[ACC] = exchanged.a /\ mem'[exchanged.cell] = exchanged.value]_vars

(* disasm.c:600-608 prints opcode 86 as MOV direct, @Ri: what the pointer  *)
(* points to is stored at the direct address.                              *)
MovesAsPrinted ==
    [][ops' # ops /\ by' = "pointedToDirect" =>
         \E c \in DirectCells, i \in {0, 1} :
             /\ Register(i) \in Cells /\ Pointer(i) \in Cells
             /\ mem'[c] = mem[Pointer(i)]
             /\ \A d \in Cells \ {c, PSW} : mem'[d] = mem[d]]_vars
=============================================================================
