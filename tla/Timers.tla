------------------------------- MODULE Timers -------------------------------
(***************************************************************************)
(* timer_tick (core.c:57-267): the two timers, their four modes, and the   *)
(* clock of the serial port.                                               *)
(*                                                                         *)
(* The registers count in the radix Byte (256 in the code) and the 13-bit  *)
(* mode uses the low Low (32) values of TLx; both are parameters.          *)
(* The external pins are not emulated: a timer that counts a pin, or is    *)
(* gated by one, stands still.                                             *)
(***************************************************************************)
EXTENDS Interrupts

CONSTANTS
    Byte,                  \* values of a register
    Low,                   \* values of the part of TLx that mode 0 counts
    TmodValues             \* the contents of TMOD this instance uses

Modes == 0..3              \* M1 and M0 of one timer

ASSUME RadixAssumption ==
    /\ Byte \in Nat /\ Low \in Nat
    /\ Low > 0 /\ Byte > 0
    /\ Byte % Low = 0

ASSUME TmodAssumption ==
    TmodValues \subseteq [mode : [{0, 1} -> Modes], halted : [{0, 1} -> BOOLEAN]]

VARIABLES
    TMOD,                  \* mode of each timer; halted: its C/T or GATE bit is set
    TR,                    \* the timers whose run bit is set
    TF,                    \* the timers whose overflow flag is set
    TL, TH,                \* the registers, for each timer
    SM1                    \* the serial port's variable baud rate modes

vars == <<TMOD, TR, TF, TL, TH, SM1>>

Timer == {0, 1}
Registers == [Timer -> 0 .. Byte - 1]

Init ==                        \* reset clears the SFRs
    /\ TMOD = [mode |-> [t \in Timer |-> 0], halted |-> [t \in Timer |-> FALSE]]
    /\ TR = {} /\ TF = {}
    /\ TL = [t \in Timer |-> 0] /\ TH = [t \in Timer |-> 0]
    /\ SM1 = FALSE

-----------------------------------------------------------------------------
(* Variants with a slip in them, to see that the properties would notice.  *)

Inc13NoCarryMask(tl, th) ==    \* the carry runs into the upper bits of TLx
    [tl |-> (tl + 1) % Byte,
     th |-> IF tl % Low = Low - 1 THEN (th + 1) % Byte ELSE th,
     over |-> tl % Low = Low - 1 /\ th = Byte - 1]

Inc8ReloadChecksTH(tl, th) ==  \* the overflow test of the 16-bit mode, copied
    [tl |-> IF tl = Byte - 1 THEN th ELSE tl + 1, th |-> th,
     over |-> tl = Byte - 1 /\ th = Byte - 1]

MaySetTF1Always == TRUE

Inc8OverLate(v) ==             \* the byte compared with 255 after it was increased
    [v |-> (v + 1) % Byte, over |-> (v + 1) % Byte > Byte - 1]

-----------------------------------------------------------------------------
(* One count in each mode: the new TLx and THx, and whether the timer      *)
(* overflowed.                                                             *)

Inc13(tl, th) ==
    LET low   == tl % Low
        carry == low = Low - 1
    IN  [tl   |-> (tl - low) + ((low + 1) % Low),
         th   |-> IF carry THEN (th + 1) % Byte ELSE th,
         over |-> carry /\ th = Byte - 1]

Inc16(tl, th) ==
    LET carry == tl = Byte - 1
    IN  [tl   |-> (tl + 1) % Byte,
         th   |-> IF carry THEN (th + 1) % Byte ELSE th,
         over |-> carry /\ th = Byte - 1]

Inc8Reload(tl, th) ==
    [tl |-> IF tl = Byte - 1 THEN th ELSE tl + 1, th |-> th, over |-> tl = Byte - 1]

Inc8(v) == [v |-> (v + 1) % Byte, over |-> v = Byte - 1]

Still(tl, th) == [tl |-> tl, th |-> th, over |-> FALSE]

Count(mode, tl, th) ==
    CASE mode = 0 -> Inc13(tl, th)
      [] mode = 1 -> Inc16(tl, th)
      [] mode = 2 -> Inc8Reload(tl, th)
      [] OTHER    -> Still(tl, th)

Runs(t) == t \in TR /\ ~TMOD.halted[t]

Split == TMOD.mode[0] = 3      \* timer 0 is two 8-bit timers

(* Only update TF1 if timer 0 is not in mode 3: TH0 owns the flag then.    *)
MaySetTF1 == ~Split

-----------------------------------------------------------------------------
(* The three blocks of timer_tick that count. *)

(* Mode 3: TL0 counts under the bits of timer 0, TH0 under those of timer 1. *)
SplitTL0 == IF Split /\ Runs(0) THEN Inc8(TL[0]) ELSE [v |-> TL[0], over |-> FALSE]
SplitTH0 == IF Split /\ Runs(1) THEN Inc8(TH[0]) ELSE [v |-> TH[0], over |-> FALSE]

Timer0 ==
    IF Split THEN [tl |-> SplitTL0.v, th |-> SplitTH0.v, over |-> SplitTL0.over]
    ELSE IF Runs(0) THEN Count(TMOD.mode[0], TL[0], TH[0]) ELSE Still(TL[0], TH[0])

Timer1 == IF Runs(1) THEN Count(TMOD.mode[1], TL[1], TH[1]) ELSE Still(TL[1], TH[1])

Overflowed ==
    {t \in Timer : \/ t = 0 /\ Timer0.over
                   \/ t = 1 /\ SplitTH0.over
                   \/ t = 1 /\ Timer1.over /\ MaySetTF1}

(* While timer 1 runs, a set TF1 clocks the serial port and is consumed.   *)
ClocksOnNewOverflow == Runs(1) /\ SM1 /\ 1 \in Overflowed       \* a slip

ClocksSerial == Runs(1) /\ SM1 /\ 1 \in TF \cup Overflowed

ConsumedBoth == IF ClocksSerial THEN {0, 1} ELSE {}              \* a slip

Consumed == IF ClocksSerial THEN {1} ELSE {}

TimerTick ==
    /\ TL' = [TL EXCEPT ![0] = Timer0.tl, ![1] = Timer1.tl]
    /\ TH' = [TH EXCEPT ![0] = Timer0.th, ![1] = Timer1.th]
    /\ TF' = (TF \cup Overflowed) \ Consumed
    /\ UNCHANGED <<TMOD, TR, SM1>>

-----------------------------------------------------------------------------
(* The program, or the user in one of the editors, between two counts.  In *)
(* tick() an instruction's write comes just before the timers run.         *)

WriteTMOD == TMOD' \in TmodValues /\ UNCHANGED <<TR, TF, TL, TH, SM1>>

WriteTCON ==                   \* the run bits and the flags share the register
    /\ TR' \in SUBSET Timer /\ TF' \in SUBSET Timer
    /\ UNCHANGED <<TMOD, TL, TH, SM1>>

WriteSCON == SM1' \in BOOLEAN /\ UNCHANGED <<TMOD, TR, TF, TL, TH>>

WriteTL == \E t \in Timer, b \in 0 .. Byte - 1 :
    TL' = [TL EXCEPT ![t] = b] /\ UNCHANGED <<TMOD, TR, TF, TH, SM1>>

WriteTH == \E t \in Timer, b \in 0 .. Byte - 1 :
    TH' = [TH EXCEPT ![t] = b] /\ UNCHANGED <<TMOD, TR, TF, TL, SM1>>

(* handle_interrupts, on entering the routine of a timer. *)
Acknowledge == \E t \in TF : TF' = TF \ {t} /\ UNCHANGED <<TMOD, TR, TL, TH, SM1>>

Write == WriteTMOD \/ WriteTCON \/ WriteSCON \/ WriteTL \/ WriteTH \/ Acknowledge

Reset ==
    /\ TMOD' = [mode |-> [t \in Timer |-> 0], halted |-> [t \in Timer |-> FALSE]]
    /\ TR' = {} /\ TF' = {} /\ SM1' = FALSE
    /\ TL' = [t \in Timer |-> 0] /\ TH' = [t \in Timer |-> 0]

Next == TimerTick \/ Write \/ Reset

(* timer_tick ends every tick() that is not spent in power-down. *)
Fairness == WF_vars(TimerTick)

Spec == Init /\ [][Next]_vars /\ Fairness

-----------------------------------------------------------------------------
(* Reference: a timer in mode 0, 1 or 2 is one counter.                    *)

Value(mode, tl, th) ==
    CASE mode = 0 -> th * Low + (tl % Low)
      [] mode = 1 -> th * Byte + tl
      [] OTHER    -> tl

Modulus(mode) ==
    CASE mode = 0 -> Byte * Low
      [] mode = 1 -> Byte * Byte
      [] OTHER    -> Byte

(* After the last value the counter starts again: at 0, or in mode 2 at THx. *)
Successor(mode, tl, th) ==
    IF Value(mode, tl, th) = Modulus(mode) - 1
    THEN IF mode = 2 THEN th ELSE 0
    ELSE Value(mode, tl, th) + 1

Wraps(t) ==
    /\ Runs(t) /\ TMOD.mode[t] # 3
    /\ Value(TMOD.mode[t], TL[t], TH[t]) = Modulus(TMOD.mode[t]) - 1

-----------------------------------------------------------------------------
(* Properties. *)

(* A running timer counts by one in its 13-bit, 16-bit or reload value,    *)
(* carries included, a stopped one keeps it, and the bits of TLx that the  *)
(* 13-bit mode does not count survive.                                     *)
CountsByOne ==
    [][TimerTick =>
         \A t \in Timer :
            LET m == TMOD.mode[t]
            IN  m # 3 =>
                  /\ Value(m, TL'[t], TH'[t])
                       = IF Runs(t) THEN Successor(m, TL[t], TH[t])
                         ELSE Value(m, TL[t], TH[t])
                  /\ m = 0 => TL'[t] \div Low = TL[t] \div Low
                  /\ m = 2 => TH'[t] = TH[t]]_vars

(* The counts that raise a flag: the one that wraps its timer; with timer  *)
(* 0 split, TF1 belongs to TH0 and timer 1 wraps in silence.               *)
TF0Rises == IF Split THEN Runs(0) /\ TL[0] = Byte - 1 ELSE Wraps(0)
TF1Rises == IF Split THEN Runs(1) /\ TH[0] = Byte - 1 ELSE Wraps(1)

(* A flag goes up on every count that wraps its timer and on no other, and *)
(* a tick leaves TF0 up until it is acknowledged; a TF1 that goes up may   *)
(* be consumed by the serial port in the same tick, and only then is lost. *)
FlagsWhenWrapping ==
    [][TimerTick =>
         /\ 0 \in TF' <=> 0 \in TF \/ TF0Rises
         /\ 1 \in TF' => 1 \in TF \/ TF1Rises
         /\ TF1Rises /\ ~SM1 => 1 \in TF']_vars

(* TF1 has two takers, the interrupt system and the serial port.  A flag   *)
(* that is up, or that the timer owning it raises in this tick, is left to *)
(* handle_interrupts or clocks the port and goes down: never both, never   *)
(* neither.  So with SM1 set the routine of timer 1 is never entered.      *)
TF1HasOneTaker ==
    [][TimerTick /\ (1 \in TF \/ TF1Rises) => (1 \in TF' <=> ~(SM1 /\ Runs(1)))]_vars

(* What timer_tick does to the requests stays within what module TickCore  *)
(* assumes of it.                                                          *)
RequestOf(flags) == {v \in {"ISR_TF0", "ISR_TF1"} :
                        (IF v = "ISR_TF0" THEN 0 ELSE 1) \in flags}

WithinTimerEffect ==
    [][TimerTick => RequestOf(TF') \in TimerEffect(Vectors, RequestOf(TF), {})]_vars

(* A timer that is left to run alone reaches its overflow, whatever its    *)
(* mode and wherever it starts.                                            *)
LeftAlone == <>[][TimerTick]_vars

OverflowsIfLeftAlone ==
    LeftAlone =>
      /\ <>[](Runs(0) /\ TMOD.mode[0] # 3) => <>(0 \in TF)
      /\ <>[](Runs(1) /\ TMOD.mode[1] # 3 /\ ~Split /\ ~SM1) => <>(1 \in TF)
=============================================================================
