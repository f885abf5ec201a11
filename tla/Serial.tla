------------------------------- MODULE Serial -------------------------------
(***************************************************************************)
(* The transmitter of the serial port: serial_tx (core.c:35-55), the SBUF  *)
(* write callback of the front end (emu.c:154-156) and the ring of bytes   *)
(* the main view shows.                                                    *)
(*                                                                         *)
(* A frame has FrameBits bits (8 in the code) and the ring OutSize bytes   *)
(* (18); both are parameters.  The clock, one call of serial_tx per        *)
(* overflow that timer_tick consumes, comes from module Timers.            *)
(***************************************************************************)
EXTENDS Integers, Sequences

CONSTANTS FrameBits, OutSize,
          MaxSent          \* frames sent in a behaviour: bounds the history below

ASSUME SizeAssumption ==
    FrameBits \in Nat \ {0} /\ OutSize \in Nat \ {0} /\ MaxSent \in Nat

VARIABLES
    SBUF,
    serial_out_remaining_bits,
    TXD,                   \* bit 1 of P3
    TI,                    \* bit 1 of SCON
    ES,                    \* serial interrupts enabled in IE
    serial_interrupt_trigger,
    serial_out,            \* the ring, indices 0 .. OutSize - 1
    serial_out_idx,        \* where the next byte goes
    line,                  \* history: levels of TXD clocked since SBUF was written
    sent,                  \* history: bytes of completed frames
    taken                  \* history: serial interrupts taken

ring == <<serial_out, serial_out_idx>>
history == <<line, sent, taken>>
serialVars == <<SBUF, serial_out_remaining_bits, TXD, TI, ES, serial_interrupt_trigger, ring, history>>

Bytes == 0 .. 2 ^ FrameBits - 1
Slots == 0 .. OutSize - 1

(* After reset(&emu, 1) on a zeroed em8051; SBUF is rand(). *)
SerialInit ==
    /\ SBUF \in Bytes
    /\ serial_out_remaining_bits = 0
    /\ TXD = 1 /\ TI = FALSE /\ ES = FALSE /\ serial_interrupt_trigger = FALSE
    /\ serial_out = [i \in Slots |-> 0] /\ serial_out_idx = 0
    /\ line = << >> /\ sent = << >> /\ taken = 0

-----------------------------------------------------------------------------
(* Variants with a slip in them, to see that the properties would notice.  *)
NextSlotShort(i) == (i + 1) % (OutSize + 1)
FrameStartShort == FrameBits - 1
TriggerStays == TRUE

-----------------------------------------------------------------------------
(* tx_bit is a bool: any of the bits that remain after the shift sets it.  *)
TxBit(byte, remaining) == IF byte \div (2 ^ remaining) # 0 THEN 1 ELSE 0

NextSlot(i) == (i + 1) % OutSize

FrameStart == FrameBits

(* serial_interrupt_trigger after its routine was entered. *)
TriggerAfterEntry == FALSE

(* One clock of the port. *)
SerialTx ==
    /\ serial_out_remaining_bits > 0
    /\ LET left == serial_out_remaining_bits - 1
           done == left = 0
       IN  /\ done => Len(sent) < MaxSent
           /\ serial_out_remaining_bits' = left
           /\ TXD' = TxBit(SBUF, left)
           /\ TI' = (TI \/ done)
           /\ line' = Append(line, TXD')
           /\ serial_interrupt_trigger' = (serial_interrupt_trigger \/ (done /\ ES))
           /\ serial_out' = IF done THEN [serial_out EXCEPT ![serial_out_idx] = SBUF]
                            ELSE serial_out
           /\ serial_out_idx' = IF done THEN NextSlot(serial_out_idx) ELSE serial_out_idx
           /\ sent' = IF done THEN Append(sent, SBUF) ELSE sent
    /\ UNCHANGED <<SBUF, ES, taken>>

(* The program writes SBUF: the frame starts, or starts again. *)
WriteSBUF == \E b \in Bytes :
    /\ SBUF' = b
    /\ serial_out_remaining_bits' = FrameStart
    /\ line' = << >>
    /\ UNCHANGED <<TXD, TI, ES, serial_interrupt_trigger, ring, sent, taken>>

(* The user changes SBUF in the memory editor, which calls no callback. *)
EditSBUF == \E b \in Bytes :
    /\ SBUF' = b
    /\ UNCHANGED <<serial_out_remaining_bits, TXD, TI, ES, serial_interrupt_trigger,
                   ring, history>>

WriteIE ==
    /\ ES' \in BOOLEAN
    /\ UNCHANGED <<SBUF, serial_out_remaining_bits, TXD, TI, serial_interrupt_trigger,
                   ring, history>>

WriteTI ==                   \* the program takes note of TI, or sets it
    /\ TI' \in BOOLEAN
    /\ UNCHANGED <<SBUF, serial_out_remaining_bits, TXD, ES, serial_interrupt_trigger,
                   ring, history>>

WriteP3 ==
    /\ TXD' \in {0, 1}
    /\ UNCHANGED <<SBUF, serial_out_remaining_bits, TI, ES, serial_interrupt_trigger,
                   ring, history>>

(* handle_interrupts enters the serial routine. *)
TakeInterrupt ==
    /\ serial_interrupt_trigger /\ ES
    /\ serial_interrupt_trigger' = TriggerAfterEntry
    /\ taken' = taken + 1
    /\ UNCHANGED <<SBUF, serial_out_remaining_bits, TXD, TI, ES, ring, line, sent>>

(* reset() clears the frame in progress and keeps the ring and its index.  *)
(* A wipe fills SBUF with rand(), a warm reset leaves it zero.             *)
ResetPort(aWipe) ==
    /\ SBUF' \in (IF aWipe THEN Bytes ELSE {0})
    /\ serial_out_remaining_bits' = 0
    /\ TXD' = 1 /\ TI' = FALSE /\ ES' = FALSE /\ serial_interrupt_trigger' = FALSE
    /\ line' = << >>
    /\ UNCHANGED <<ring, sent, taken>>

SerialNext ==
    \/ SerialTx \/ WriteSBUF \/ EditSBUF \/ WriteIE \/ WriteTI \/ WriteP3 \/ TakeInterrupt
    \/ \E aWipe \in BOOLEAN : ResetPort(aWipe)

SerialSpec == SerialInit /\ [][SerialNext]_serialVars

-----------------------------------------------------------------------------
(* Properties. *)

(* The ring holds the bytes sent last, the newest just before the index,   *)
(* through wrap-around, frames started again and resets in mid-frame.      *)
RingHoldsLastSent ==
    \A k \in 1 .. OutSize :
        k <= Len(sent) =>
            serial_out[(serial_out_idx - k) % OutSize] = sent[Len(sent) - k + 1]

(* A byte is only reported sent after FrameBits clocks of its own: a frame *)
(* started again, or cut short by a reset, borrows none from the old one.  *)
WholeFrames == [][sent' # sent => Len(line') = FrameBits]_serialVars

(* No frame interrupts the program twice, however the enable bit and TI    *)
(* are switched between the frame's end and the entry into the routine.    *)
OneInterruptPerFrame ==
    taken + (IF serial_interrupt_trigger THEN 1 ELSE 0) <= Len(sent)
=============================================================================
