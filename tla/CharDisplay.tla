---------------------------- MODULE CharDisplay -----------------------------
(***************************************************************************)
(* The 16x2 character display of the logic board (logicboard.c:92-261),    *)
(* as a program drives it: data on P1, and P3.7 = E, P3.6 = RS,            *)
(* P3.5 = RW.  The board looks at the ports after each tick and acts on    *)
(* the edges of E: a read when it rises with RW high, a write when it      *)
(* falls with RW low.  RS, RW and P1 are read at those edges only, so they *)
(* are chosen there and not kept.                                          *)
(*                                                                         *)
(* The memories have RamSize and CgSize cells (0x80 and 0x40); the address *)
(* counter is a plain int and is masked where it is used.  Busy times are  *)
(* in ticks and follow from the clock.                                     *)
(***************************************************************************)
EXTENDS Integers, Sequences

CONSTANTS
    RamSize, CgSize,
    Port1,                     \* values the program puts on P1
    LeftOver,                  \* bytes an earlier program left in the interface
    BusyAccess, BusyCommand, BusyClear,
    MaxTransfers               \* reads and writes in a behaviour: a bound

Bytes == 0..255
Space == 32

ASSUME SizesAssumption ==
    /\ RamSize \in 1..128 /\ CgSize \in 1..RamSize
    /\ 128 % RamSize = 0 /\ RamSize % CgSize = 0
ASSUME PortAssumption == Port1 \subseteq Bytes /\ LeftOver \subseteq Bytes
ASSUME BusyAssumption ==
    BusyAccess \in Nat /\ BusyCommand \in Nat /\ BusyClear \in Nat /\ MaxTransfers \in Nat

VARIABLES
    logicmode,                 \* 3: the display; other widgets stand as 0
    E,                         \* P3.7 after the last tick, as in oldports
    pout1,                     \* what the board drives onto P1
    chardisplayram, chardisplaycgram, chardisplaycp, chardisplayofs,
    chardisplaydir, chardisplayshift, chardisplaydcb, chardisplaychargen,
    chardisplaydata,           \* the byte being put together
    chardisplay4bmode, chardisplaytick,
    chardisplaybusy,
    last,                      \* history: the transfer before, its half byte
    greeting,                  \* history: how far an initialization has come
    transfers                  \* history: how many there were

memories == <<chardisplayram, chardisplaycgram>>
settings == <<chardisplayofs, chardisplaydir, chardisplayshift, chardisplaydcb, chardisplaychargen>>
bus == <<chardisplaydata, chardisplay4bmode, chardisplaytick>>
history == <<last, greeting, transfers>>
vars == <<logicmode, E, pout1, memories, chardisplaycp, settings, bus, chardisplaybusy, history>>

Nothing == [kind |-> "none"]

(* reset() knows nothing of the display: what an earlier program left in   *)
(* the interface is still there.                                           *)
Init ==
    /\ logicmode = 0 /\ E = 0 /\ pout1 = 0      \* oldports is zero before the first tick
    /\ chardisplayram = [i \in 0 .. RamSize - 1 |-> 0]
    /\ chardisplaycgram = [i \in 0 .. CgSize - 1 |-> 0]
    /\ chardisplaycp = 0 /\ chardisplayofs = 0 /\ chardisplaydir = 1
    /\ chardisplayshift = FALSE /\ chardisplaydcb = 7 /\ chardisplaychargen = FALSE
    /\ chardisplaydata \in LeftOver /\ chardisplay4bmode \in BOOLEAN
    /\ chardisplaytick \in (IF chardisplay4bmode THEN {0, 1} ELSE {0})
    /\ chardisplaybusy = 0
    /\ last = Nothing /\ greeting = 0 /\ transfers = 0

-----------------------------------------------------------------------------
(* Variants with a slip in them, to see that the properties would notice.  *)
JoinLowFirst(data, half, tick) ==
    IF tick = 0 THEN (data \div 16) * 16 + half ELSE (data % 16) + half * 16
TickAfterInBoth(tick) == 1 - tick
StepOf(chargen, dir) == dir
Unjoined(data, half, tick) == half * 16 + data

-----------------------------------------------------------------------------
High(b) == b \div 16
Low(b) == b % 16

(* The busy count goes down before anything else. *)
Waited == IF chardisplaybusy > 0 THEN chardisplaybusy - 1 ELSE 0
Ready == Waited = 0

(* A transfer completes a byte: each one in 8-bit mode, the second half in *)
(* 4-bit mode.                                                             *)
Completes(tick) == ~chardisplay4bmode \/ tick = 1

TickAfter(tick) == IF chardisplay4bmode THEN 1 - tick ELSE tick

(* The half that arrives on the upper lines of P1 into its place. *)
Join(data, half, tick) == IF tick = 0 THEN half * 16 + Low(data) ELSE High(data) * 16 + half

Step(chargen, dir) == IF chargen THEN 1 ELSE dir

Advance ==
    /\ chardisplaycp' = chardisplaycp + Step(chardisplaychargen, chardisplaydir)
    /\ chardisplayofs' = chardisplayofs
                           + (IF chardisplayshift /\ ~chardisplaychargen THEN chardisplaydir ELSE 0)
    /\ chardisplaybusy' = BusyAccess
    /\ UNCHANGED <<chardisplaydir, chardisplayshift, chardisplaydcb, chardisplaychargen>>

OnlyWait ==
    /\ chardisplaybusy' = Waited
    /\ UNCHANGED <<chardisplaycp, settings>>

Cell == IF chardisplaychargen THEN chardisplaycgram[chardisplaycp % CgSize]
        ELSE chardisplayram[chardisplaycp % RamSize]

Counted == transfers < MaxTransfers /\ transfers' = transfers + 1

Remember(kind, rs, half) ==
    /\ last' = [kind |-> kind, rs |-> rs, half |-> half, ready |-> Ready]
    /\ Counted

-----------------------------------------------------------------------------
(* E rises with RW high. *)
Read(rs) ==
    /\ logicmode = 3 /\ E = 0 /\ E' = 1
    /\ chardisplaydata' =
         IF rs = 0 THEN (chardisplaycp % RamSize) + (IF Ready THEN 0 ELSE 128)
         ELSE IF Ready THEN Cell ELSE chardisplaydata
    /\ pout1' = IF ~chardisplay4bmode THEN chardisplaydata'
                ELSE 16 * (IF chardisplaytick = 1 THEN Low(chardisplaydata') ELSE High(chardisplaydata'))
    /\ chardisplaytick' = TickAfter(chardisplaytick)
    /\ IF rs = 1 /\ Ready /\ Completes(chardisplaytick) THEN Advance ELSE OnlyWait
    /\ Remember("read", rs, High(pout1'))
    /\ greeting' = 0
    /\ UNCHANGED <<logicmode, memories, chardisplay4bmode>>

(* The instructions, by the highest bit set. *)
Clear(b) ==
    /\ b = 1
    /\ chardisplayram' = [i \in 0 .. RamSize - 1 |-> Space]
    /\ chardisplaycp' = 0 /\ chardisplayofs' = 0 /\ chardisplaydir' = 1
    /\ chardisplaybusy' = BusyClear
    /\ UNCHANGED <<chardisplaycgram, chardisplayshift, chardisplaydcb, chardisplaychargen,
                   chardisplay4bmode>>

Home(b) ==
    /\ b \in 2..3
    /\ chardisplaycp' = 0 /\ chardisplayofs' = 0
    /\ chardisplaybusy' = BusyCommand
    /\ UNCHANGED <<memories, chardisplaydir, chardisplayshift, chardisplaydcb,
                   chardisplaychargen, chardisplay4bmode>>

EntryMode(b) ==
    /\ b \in 4..7
    /\ chardisplayshift' = (b % 2 = 1)
    /\ chardisplaydir' = IF b >= 6 THEN 1 ELSE -1
    /\ chardisplaybusy' = BusyCommand
    /\ UNCHANGED <<memories, chardisplaycp, chardisplayofs, chardisplaydcb,
                   chardisplaychargen, chardisplay4bmode>>

OnOff(b) ==
    /\ b \in 8..15
    /\ chardisplaydcb' = b % 8
    /\ chardisplaybusy' = BusyCommand
    /\ UNCHANGED <<memories, chardisplaycp, chardisplayofs, chardisplaydir, chardisplayshift,
                   chardisplaychargen, chardisplay4bmode>>

Shift(b) ==
    LET by == IF b % 8 >= 4 THEN 1 ELSE -1
    IN  /\ b \in 16..31
        /\ chardisplaycp' = chardisplaycp + (IF b % 16 >= 8 THEN by ELSE 0)
        /\ chardisplayofs' = chardisplayofs + (IF b % 16 >= 8 THEN 0 ELSE by)
        /\ chardisplaybusy' = BusyCommand
        /\ UNCHANGED <<memories, chardisplaydir, chardisplayshift, chardisplaydcb,
                       chardisplaychargen, chardisplay4bmode>>

FourBits(data) == data % 32 < 16

FunctionSets == 32..63         \* these also start a byte anew

FunctionSet(b) ==
    /\ b \in FunctionSets
    /\ chardisplay4bmode' = FourBits(b)
    /\ chardisplaybusy' = BusyCommand
    /\ UNCHANGED <<memories, chardisplaycp, settings>>

SetChargen(b) ==               \* the address in b is not used
    /\ b \in 64..127
    /\ chardisplaychargen' = TRUE
    /\ chardisplaybusy' = BusyCommand
    /\ UNCHANGED <<memories, chardisplaycp, chardisplayofs, chardisplaydir, chardisplayshift,
                   chardisplaydcb, chardisplay4bmode>>

SetAddress(b) ==
    /\ b >= 128
    /\ chardisplaycp' = b % RamSize
    /\ chardisplaychargen' = FALSE
    /\ chardisplaybusy' = BusyCommand
    /\ UNCHANGED <<memories, chardisplayofs, chardisplaydir, chardisplayshift, chardisplaydcb,
                   chardisplay4bmode>>

NoInstruction(b) == b = 0 /\ OnlyWait /\ UNCHANGED <<memories, chardisplay4bmode>>

Instruction(b) ==
    \/ Clear(b) \/ Home(b) \/ EntryMode(b) \/ OnOff(b) \/ Shift(b) \/ FunctionSet(b)
    \/ SetChargen(b) \/ SetAddress(b) \/ NoInstruction(b)

Store(b) ==
    /\ IF chardisplaychargen
       THEN /\ chardisplaycgram' = [chardisplaycgram EXCEPT ![chardisplaycp % CgSize] = b]
            /\ UNCHANGED chardisplayram
       ELSE /\ chardisplayram' = [chardisplayram EXCEPT ![chardisplaycp % RamSize] = b]
            /\ UNCHANGED chardisplaycgram
    /\ Advance
    /\ UNCHANGED chardisplay4bmode

(* The upper half of an initialization by instruction, 3 3 3 2, each sent  *)
(* when the display is not busy.                                           *)
Greeting(rs, p1) ==
    IF rs = 1 \/ ~Ready \/ p1 \notin {32, 48} THEN 0
    ELSE IF p1 = 48 THEN (IF greeting \in 0..2 THEN greeting + 1 ELSE IF greeting = 3 THEN 3 ELSE 1)
    ELSE IF greeting = 3 THEN 4 ELSE 0

(* E falls with RW low. *)
Write(rs, p1) ==
    /\ logicmode = 3 /\ E = 1 /\ E' = 0
    /\ chardisplaydata' = IF chardisplay4bmode THEN Join(chardisplaydata, High(p1), chardisplaytick)
                          ELSE p1
    /\ chardisplaytick' = IF Completes(chardisplaytick) /\ Ready /\ rs = 0 /\ chardisplaydata' \in FunctionSets
                          THEN 0 ELSE TickAfter(chardisplaytick)
    /\ IF Completes(chardisplaytick) /\ Ready
       THEN IF rs = 1 THEN Store(chardisplaydata') ELSE Instruction(chardisplaydata')
       ELSE OnlyWait /\ UNCHANGED <<memories, chardisplay4bmode>>
    /\ Remember("write", rs, High(p1))
    /\ greeting' = Greeting(rs, p1)
    /\ UNCHANGED <<logicmode, pout1>>

(* A tick in which E stays, or moves where it starts nothing; with another *)
(* widget on the board only the old value of E is kept.                    *)
OtherTick ==
    /\ E' \in {0, 1}
    /\ chardisplaybusy' = IF logicmode = 3 THEN Waited ELSE chardisplaybusy
    /\ UNCHANGED <<logicmode, pout1, memories, chardisplaycp, settings, bus, history>>

(* The user goes through the widgets, or comes back to the board's view:   *)
(* entering clears the text and nothing else.                              *)
EnterMode(mode) ==
    /\ logicmode' = mode
    /\ chardisplayram' = [i \in 0 .. RamSize - 1 |-> Space]
    /\ last' = Nothing
    /\ UNCHANGED <<E, pout1, chardisplaycgram, chardisplaycp, settings, bus, chardisplaybusy,
                   greeting, transfers>>

Next ==
    \/ \E rs \in {0, 1} : Read(rs)
    \/ \E rs \in {0, 1}, p1 \in Port1 : Write(rs, p1)
    \/ OtherTick
    \/ \E mode \in {0, 3} : EnterMode(mode)

Spec == Init /\ [][Next]_vars

-----------------------------------------------------------------------------
(* Properties. *)

TypeOK ==
    /\ logicmode \in {0, 3} /\ E \in {0, 1} /\ pout1 \in Bytes
    /\ chardisplayram \in [0 .. RamSize - 1 -> Bytes]
    /\ chardisplaycgram \in [0 .. CgSize - 1 -> Bytes]
    /\ chardisplaycp \in Int /\ chardisplayofs \in Int /\ chardisplaydir \in {1, -1}
    /\ chardisplayshift \in BOOLEAN /\ chardisplaydcb \in 0..7 /\ chardisplaychargen \in BOOLEAN
    /\ chardisplaydata \in Bytes /\ chardisplay4bmode \in BOOLEAN /\ chardisplaytick \in {0, 1}
    /\ chardisplaybusy \in Nat
    /\ greeting \in 0..4 /\ transfers \in 0 .. MaxTransfers

(* Initialization by instruction: three times 3 and then 2 on the upper    *)
(* lines, each when the display is ready, leave it in 4-bit mode between   *)
(* two bytes, whatever mode and half it was in before; and no half is left *)
(* behind in 8-bit mode for the next time 4-bit mode is chosen.            *)
InitializationSynchronises ==
    /\ ~chardisplay4bmode => chardisplaytick = 0
    /\ greeting = 3 => ~chardisplay4bmode
    /\ greeting = 4 => chardisplay4bmode /\ chardisplaytick = 0

IsSecond(kind) ==              \* the half sent last began the byte that ends now
    /\ transfers' # transfers /\ chardisplay4bmode /\ chardisplaytick = 1
    /\ last.kind = kind /\ last'.kind = kind

(* The two halves of a byte that was read are those of one cell, and what  *)
(* is stored is the byte made of the two halves as they were sent.         *)
ReadWhole ==
    (IsSecond("read") /\ last.rs = 1 /\ last'.rs = 1 /\ last.ready /\ last'.ready)
       => 16 * last.half + last'.half = Cell
WrittenWhole ==
    (IsSecond("write") /\ last'.rs = 1 /\ last'.ready)
       => \/ chardisplayram'[chardisplaycp % RamSize] = 16 * last.half + last'.half
          \/ chardisplaychargen
WholeBytes == [][ReadWhole /\ WrittenWhole]_vars

Contents == INSTANCE DisplayContents
    WITH ram <- chardisplayram, cgram <- chardisplaycgram, address <- chardisplaycp,
         chargen <- chardisplaychargen, dir <- chardisplaydir, shift <- chardisplayshift,
         ofs <- chardisplayofs

(* Whatever is sent in which halves, with the display busy or not: the     *)
(* contents change as those of a display that is given whole bytes, one    *)
(* operation at a time.                                                    *)
ContentsSpec == Contents!Spec
=============================================================================
