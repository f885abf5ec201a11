-------------------------- MODULE DisplayContents ---------------------------
(***************************************************************************)
(* What a character display of the 44780 kind does with whole bytes:       *)
(* its two memories, the address counter, and where the text is shown.     *)
(* Nothing of buses, halves of bytes or busy times.                        *)
(***************************************************************************)
EXTENDS Integers

CONSTANTS RamSize, CgSize, Bytes, Space

VARIABLES ram, cgram,          \* display memory, character shapes
          address, chargen,    \* the address counter, and whether it is of the shapes
          dir, shift,          \* how it moves after an access, and whether the text does
          ofs                  \* first cell shown

contents == <<ram, cgram, address, chargen, dir, shift, ofs>>

Init ==
    /\ ram = [i \in 0 .. RamSize - 1 |-> 0]
    /\ cgram = [i \in 0 .. CgSize - 1 |-> 0]
    /\ address = 0 /\ chargen = FALSE /\ dir = 1 /\ shift = FALSE /\ ofs = 0

(* After an access to display memory the counter moves, and the text with  *)
(* it if so set; character shapes are always gone through upwards.         *)
Advance ==
    /\ address' = address + (IF chargen THEN 1 ELSE dir)
    /\ ofs' = ofs + (IF shift /\ ~chargen THEN dir ELSE 0)
    /\ UNCHANGED <<chargen, dir, shift>>

Put(b) ==
    /\ ram' = IF chargen THEN ram ELSE [ram EXCEPT ![address % RamSize] = b]
    /\ cgram' = IF chargen THEN [cgram EXCEPT ![address % CgSize] = b] ELSE cgram
    /\ Advance

Get == Advance /\ UNCHANGED <<ram, cgram>>

Blank == ram' = [i \in 0 .. RamSize - 1 |-> Space]

Clear ==
    /\ Blank /\ address' = 0 /\ ofs' = 0 /\ dir' = 1
    /\ UNCHANGED <<cgram, chargen, shift>>

Home ==
    /\ address' = 0 /\ ofs' = 0
    /\ UNCHANGED <<ram, cgram, chargen, dir, shift>>

Entry ==
    /\ dir' \in {1, -1} /\ shift' \in BOOLEAN
    /\ UNCHANGED <<ram, cgram, address, chargen, ofs>>

MoveCursor ==
    /\ address' \in {address - 1, address + 1}
    /\ UNCHANGED <<ram, cgram, chargen, dir, shift, ofs>>

MoveText ==
    /\ ofs' \in {ofs - 1, ofs + 1}
    /\ UNCHANGED <<ram, cgram, address, chargen, dir, shift>>

GoTo ==
    /\ address' \in 0 .. RamSize - 1 /\ chargen' = FALSE
    /\ UNCHANGED <<ram, cgram, dir, shift, ofs>>

GoToShapes ==                  \* the emulated one keeps its address
    /\ chargen' = TRUE
    /\ UNCHANGED <<ram, cgram, address, dir, shift, ofs>>

(* The user of the emulator opens the view again. *)
Reopened == Blank /\ UNCHANGED <<cgram, address, chargen, dir, shift, ofs>>

Next ==
    \/ \E b \in Bytes : Put(b)
    \/ Get \/ Clear \/ Home \/ Entry \/ MoveCursor \/ MoveText \/ GoTo \/ GoToShapes \/ Reopened

Spec == Init /\ [][Next]_contents
=============================================================================
