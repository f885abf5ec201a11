-------------------------- MODULE PeripheralProofs ---------------------------
(***************************************************************************)
(* The theorems about the timers and the serial transmitter they clock:    *)
(* for every radix of the timers' registers and every width of the part of *)
(* TLx that mode 0 counts; for every length of a frame, every size of the  *)
(* ring and every history of writes, edits and resets.                     *)
(***************************************************************************)
EXTENDS Timers, Serial, SequenceTheorems, TLAPS

TypeOK ==
    /\ TMOD \in [mode : [Timer -> Modes], halted : [Timer -> BOOLEAN]]
    /\ TR \in SUBSET Timer /\ TF \in SUBSET Timer
    /\ TL \in Registers /\ TH \in Registers
    /\ SM1 \in BOOLEAN

Digit == 0 .. Byte - 1

-----------------------------------------------------------------------------
(* Two digits, the lower one in base b, as one number.                     *)
LEMMA TwoDigits ==
    ASSUME NEW n \in Nat \ {0}, NEW b \in Nat \ {0},
           NEW hi \in 0 .. n - 1, NEW lo \in 0 .. b - 1
    PROVE  /\ hi * b + lo \in 0 .. n * b - 1
           /\ (hi + 1) * b = hi * b + b
           /\ hi * b + lo = n * b - 1 <=> hi = n - 1 /\ lo = b - 1
<1>1. hi \in Nat /\ lo \in Nat /\ hi * b \in Nat /\ n * b \in Nat
  OBVIOUS
<1>2. (hi + 1) * b = hi * b + b
  BY <1>1
<1>3. hi = n - 1 => hi * b = n * b - b
  BY <1>1
<1>4. hi < n - 1 => hi * b + b <= n * b - b
  <2> SUFFICES ASSUME hi < n - 1 PROVE hi * b + b <= n * b - b
    OBVIOUS
  <2>1. hi + 1 \in Nat /\ n - 1 \in Nat /\ hi + 1 <= n - 1
    BY <1>1
  <2>2. (hi + 1) * b <= (n - 1) * b
    BY <2>1
  <2>3. (n - 1) * b = n * b - b
    BY <1>1
  <2> QED BY <1>1, <1>2, <2>2, <2>3
<1> QED BY <1>1, <1>2, <1>3, <1>4

(* The part of TLx that mode 0 counts, and the part above it.              *)
LEMMA LowPart ==
    ASSUME NEW tl \in Digit
    PROVE  /\ tl % Low \in 0 .. Low - 1
           /\ tl - (tl % Low) = Low * (tl \div Low)
           /\ tl \div Low \in Int
           /\ tl - (tl % Low) \in 0 .. Byte - Low
<1>1. /\ Byte \in Nat /\ Low \in Nat /\ Low > 0 /\ Byte > 0 /\ Byte % Low = 0
      /\ tl \in Nat /\ tl < Byte
  BY RadixAssumption DEF Digit
<1> DEFINE q == tl \div Low
           r == tl % Low
           p == Byte \div Low
<1>2. q \in Int /\ r \in 0 .. Low - 1 /\ tl = Low * q + r
  BY <1>1
<1>3. p \in Int /\ Byte = Low * p
  BY <1>1
<1> HIDE DEF p, q, r
<1>4. 0 <= q
  <2>1. CASE q <= -1
    <3>1. Low * q <= -Low
      BY <1>1, <1>2, <2>1
    <3> QED BY <1>1, <1>2, <3>1
  <2> QED BY <1>2, <2>1
<1>5. q <= p - 1
  <2>1. CASE q >= p
    <3>1. Low * q >= Low * p
      BY <1>1, <1>2, <1>3, <2>1
    <3> QED BY <1>1, <1>2, <1>3, <3>1
  <2> QED BY <1>2, <1>3, <2>1
<1>6. 0 <= Low * q /\ Low * q <= Byte - Low
  <2>1. Low * q <= Low * (p - 1) /\ Low * (p - 1) = Low * p - Low
    BY <1>1, <1>2, <1>3, <1>5
  <2>2. 0 <= Low * q
    BY <1>1, <1>2, <1>4
  <2> QED BY <1>1, <1>2, <1>3, <2>1, <2>2
<1>7. tl - r = Low * q /\ tl - r \in 0 .. Byte - Low
  BY <1>1, <1>2, <1>6
<1> QED BY <1>2, <1>7 DEF q, r

(* One count in mode 0 (core.c:138-152 and 204-220).                       *)
LEMMA Inc13Counts ==
    ASSUME NEW tl \in Digit, NEW th \in Digit
    PROVE  LET c == Inc13(tl, th)
           IN  /\ c.tl \in Digit /\ c.th \in Digit /\ c.over \in BOOLEAN
               /\ Value(0, c.tl, c.th) = Successor(0, tl, th)
               /\ c.tl \div Low = tl \div Low
               /\ c.over <=> Value(0, tl, th) = Modulus(0) - 1
<1> DEFINE low == tl % Low
           q == tl \div Low
           next == (low + 1) % Low
           c == Inc13(tl, th)
<1>1. /\ Byte \in Nat \ {0} /\ Low \in Nat \ {0} /\ Low <= Byte
      /\ th \in 0 .. Byte - 1
  <2>1. Byte \in Nat \ {0} /\ Low \in Nat \ {0}
    BY RadixAssumption
  <2>2. Low <= Byte
    BY <2>1, LowPart DEF Digit
  <2> QED BY <2>1, <2>2 DEF Digit
<1>2. low \in 0 .. Low - 1 /\ tl - low = Low * q /\ q \in Int /\ tl - low \in 0 .. Byte - Low
  BY LowPart
<1>3. next = IF low = Low - 1 THEN 0 ELSE low + 1
  BY <1>1, <1>2
<1>4. next \in 0 .. Low - 1
  BY <1>1, <1>2, <1>3
<1>5. /\ c.tl = (tl - low) + next
      /\ c.th = (IF low = Low - 1 THEN (th + 1) % Byte ELSE th)
      /\ c.over = (low = Low - 1 /\ th = Byte - 1)
  BY DEF Inc13
<1>6. Value(0, tl, th) = th * Low + low /\ Modulus(0) = Byte * Low
  BY DEF Value, Modulus
<1>7. Value(0, c.tl, c.th) = c.th * Low + (c.tl % Low)
  BY DEF Value
<1>8. Successor(0, tl, th) = IF th * Low + low = Byte * Low - 1 THEN 0 ELSE th * Low + low + 1
  BY <1>6 DEF Successor
<1> HIDE DEF low, q, next, c
<1>9. c.tl = Low * q + next
  BY <1>2, <1>5
<1>10. c.tl % Low = next /\ c.tl \div Low = q
  BY <1>1, <1>2, <1>4, <1>9
<1>11. /\ (th + 1) * Low = th * Low + Low
       /\ th * Low + low = Byte * Low - 1 <=> th = Byte - 1 /\ low = Low - 1
  BY <1>1, <1>2, TwoDigits
<1>12. (th + 1) % Byte = IF th = Byte - 1 THEN 0 ELSE th + 1
  BY <1>1
<1>13. c.tl \in Digit /\ c.th \in Digit
  BY <1>1, <1>2, <1>4, <1>5, <1>12 DEF Digit
<1>14. c.th * Low + next = Successor(0, tl, th)
  <2>1. th * Low \in Nat /\ low \in Nat /\ Low \in Nat
    BY <1>1, <1>2
  <2>2. CASE low # Low - 1
    BY <1>3, <1>5, <1>8, <1>11, <2>1, <2>2
  <2>3. CASE low = Low - 1 /\ th # Byte - 1
    <3>1. c.th = th + 1 /\ next = 0
      BY <1>3, <1>5, <1>12, <2>3
    <3>2. c.th * Low + next = th * Low + Low
      BY <1>11, <2>1, <3>1
    <3> QED BY <1>8, <1>11, <2>1, <2>3, <3>2
  <2>4. CASE low = Low - 1 /\ th = Byte - 1
    <3>1. c.th = 0 /\ next = 0
      BY <1>3, <1>5, <1>12, <2>4
    <3> QED BY <1>1, <1>8, <1>11, <2>4, <3>1
  <2> QED BY <2>2, <2>3, <2>4
<1>15. c.over <=> th * Low + low = Byte * Low - 1
  BY <1>5, <1>11
<1>16. c.over \in BOOLEAN
  BY <1>5
<1> QED BY <1>6, <1>7, <1>10, <1>13, <1>14, <1>15, <1>16 DEF c, q

(* One count in mode 1 (core.c:153-167 and 221-238).                       *)
LEMMA Inc16Counts ==
    ASSUME NEW tl \in Digit, NEW th \in Digit
    PROVE  LET c == Inc16(tl, th)
           IN  /\ c.tl \in Digit /\ c.th \in Digit /\ c.over \in BOOLEAN
               /\ Value(1, c.tl, c.th) = Successor(1, tl, th)
               /\ c.over <=> Value(1, tl, th) = Modulus(1) - 1
<1> DEFINE c == Inc16(tl, th)
<1>1. Byte \in Nat \ {0} /\ th \in 0 .. Byte - 1 /\ tl \in 0 .. Byte - 1
  BY RadixAssumption DEF Digit
<1>2. /\ (tl + 1) % Byte = IF tl = Byte - 1 THEN 0 ELSE tl + 1
      /\ (th + 1) % Byte = IF th = Byte - 1 THEN 0 ELSE th + 1
  BY <1>1
<1>3. /\ c.tl = (tl + 1) % Byte
      /\ c.th = (IF tl = Byte - 1 THEN (th + 1) % Byte ELSE th)
      /\ c.over = (tl = Byte - 1 /\ th = Byte - 1)
  BY DEF Inc16
<1>4. Value(1, tl, th) = th * Byte + tl /\ Modulus(1) = Byte * Byte
  BY DEF Value, Modulus
<1>5. Value(1, c.tl, c.th) = c.th * Byte + c.tl
  BY DEF Value
<1>6. Successor(1, tl, th) = IF th * Byte + tl = Byte * Byte - 1 THEN 0 ELSE th * Byte + tl + 1
  BY <1>4 DEF Successor
<1> HIDE DEF c
<1>7. /\ (th + 1) * Byte = th * Byte + Byte
      /\ th * Byte + tl = Byte * Byte - 1 <=> th = Byte - 1 /\ tl = Byte - 1
  BY <1>1, TwoDigits
<1>8. c.tl \in Digit /\ c.th \in Digit
  BY <1>1, <1>2, <1>3 DEF Digit
<1>9. c.th * Byte + c.tl = Successor(1, tl, th)
  <2>1. th * Byte \in Nat /\ tl \in Nat /\ Byte \in Nat
    BY <1>1
  <2>2. CASE tl # Byte - 1
    BY <1>2, <1>3, <1>6, <1>7, <2>1, <2>2
  <2>3. CASE tl = Byte - 1 /\ th # Byte - 1
    <3>1. c.th = th + 1 /\ c.tl = 0
      BY <1>2, <1>3, <2>3
    <3>2. c.th * Byte + c.tl = th * Byte + Byte
      BY <1>7, <2>1, <3>1
    <3> QED BY <1>6, <1>7, <2>1, <2>3, <3>2
  <2>4. CASE tl = Byte - 1 /\ th = Byte - 1
    <3>1. c.th = 0 /\ c.tl = 0
      BY <1>2, <1>3, <2>4
    <3> QED BY <1>1, <1>6, <1>7, <2>4, <3>1
  <2> QED BY <2>2, <2>3, <2>4
<1>10. c.over \in BOOLEAN /\ (c.over <=> th * Byte + tl = Byte * Byte - 1)
  BY <1>3, <1>7
<1> QED BY <1>4, <1>5, <1>8, <1>9, <1>10 DEF c
(* What one count does in each of the three modes that count: the value    *)
(* goes to its successor, and the overflow is reported exactly when it     *)
(* starts again.                                                           *)
LEMMA CountFacts ==
    ASSUME NEW m \in 0..2, NEW tl \in Digit, NEW th \in Digit
    PROVE  LET c == Count(m, tl, th)
           IN  /\ c.tl \in Digit /\ c.th \in Digit /\ c.over \in BOOLEAN
               /\ Value(m, c.tl, c.th) = Successor(m, tl, th)
               /\ m = 0 => c.tl \div Low = tl \div Low
               /\ m = 2 => c.th = th
               /\ c.over <=> Value(m, tl, th) = Modulus(m) - 1
<1>1. CASE m = 0
  <2>1. Count(m, tl, th) = Inc13(tl, th)
    BY <1>1 DEF Count
  <2> QED BY <1>1, <2>1, Inc13Counts
<1>2. CASE m = 1
  <2>1. Count(m, tl, th) = Inc16(tl, th)
    BY <1>2 DEF Count
  <2> QED BY <1>2, <2>1, Inc16Counts
<1>3. CASE m = 2
  <2> DEFINE c == Inc8Reload(tl, th)
  <2>1. Count(m, tl, th) = c
    BY <1>3 DEF Count
  <2>2. /\ c.tl = (IF tl = Byte - 1 THEN th ELSE tl + 1)
        /\ c.th = th /\ c.over = (tl = Byte - 1)
    BY DEF Inc8Reload
  <2> HIDE DEF c
  <2>3. Value(m, tl, th) = tl /\ Value(m, c.tl, c.th) = c.tl /\ Modulus(m) = Byte
    BY <1>3 DEF Value, Modulus
  <2>4. c.tl = Successor(m, tl, th)
    BY <1>3, <2>2, <2>3 DEF Successor
  <2>5. c.tl \in Digit
    BY <2>2, RadixAssumption DEF Digit
  <2>6. c.over \in BOOLEAN /\ (c.over <=> tl = Byte - 1)
    BY <2>2
  <2>7. c.over <=> Value(m, tl, th) = Modulus(m) - 1
    BY <2>3, <2>6
  <2>8. /\ Value(m, c.tl, c.th) = Successor(m, tl, th)
        /\ c.th = th /\ c.th \in Digit
    BY <2>2, <2>3, <2>4
  <2>9. m # 0
    BY <1>3
  <2> QED BY <2>1, <2>5, <2>6, <2>7, <2>8, <2>9
<1> QED BY <1>1, <1>2, <1>3

-----------------------------------------------------------------------------
LEMMA RegisterTypes ==
    ASSUME TypeOK
    PROVE  /\ TL[0] \in Digit /\ TL[1] \in Digit
           /\ TH[0] \in Digit /\ TH[1] \in Digit
           /\ TMOD.mode[0] \in 0..3 /\ TMOD.mode[1] \in 0..3
BY DEF TypeOK, Timer, Registers, Digit, Modes

LEMMA Inc8Type ==
    ASSUME NEW v \in Digit
    PROVE  Inc8(v).v \in Digit
BY RadixAssumption DEF Inc8, Digit

(* What a tick does to timer 0 outside mode 3.                             *)
LEMMA Timer0Whole ==
    ASSUME TypeOK, ~Split
    PROVE  /\ TMOD.mode[0] \in 0..2 /\ TL[0] \in Digit /\ TH[0] \in Digit
           /\ Timer0 = IF Runs(0) THEN Count(TMOD.mode[0], TL[0], TH[0])
                       ELSE Still(TL[0], TH[0])
           /\ Timer0.over <=> Wraps(0)
<1>1. TMOD.mode[0] \in 0..2 /\ TL[0] \in Digit /\ TH[0] \in Digit
  BY RegisterTypes DEF Split
<1>2. Timer0 = IF Runs(0) THEN Count(TMOD.mode[0], TL[0], TH[0]) ELSE Still(TL[0], TH[0])
  BY DEF Timer0
<1>3. CASE Runs(0)
  <2>1. Timer0.over <=> Value(TMOD.mode[0], TL[0], TH[0]) = Modulus(TMOD.mode[0]) - 1
    BY <1>1, <1>2, <1>3, CountFacts
  <2> QED BY <1>1, <1>2, <1>3, <2>1 DEF Wraps
<1>4. CASE ~Runs(0)
  <2>1. ~Timer0.over
    BY <1>2, <1>4 DEF Still
  <2> QED BY <1>1, <1>2, <1>4, <2>1 DEF Wraps
<1> QED BY <1>3, <1>4

LEMMA Timer1Whole ==
    ASSUME TypeOK
    PROVE  /\ TL[1] \in Digit /\ TH[1] \in Digit
           /\ TMOD.mode[1] # 3 => TMOD.mode[1] \in 0..2
           /\ TMOD.mode[1] = 3 => Timer1 = Still(TL[1], TH[1])
           /\ Timer1.over <=> Wraps(1)
<1>1. TMOD.mode[1] \in 0..3 /\ TL[1] \in Digit /\ TH[1] \in Digit
  BY RegisterTypes
<1>2. CASE Runs(1) /\ TMOD.mode[1] # 3
  <2>1. Timer1.over <=> Value(TMOD.mode[1], TL[1], TH[1]) = Modulus(TMOD.mode[1]) - 1
    BY <1>1, <1>2, CountFacts DEF Timer1
  <2> QED BY <1>1, <1>2, <2>1 DEF Wraps
<1>3. CASE ~(Runs(1) /\ TMOD.mode[1] # 3)
  <2>1. Timer1 = Still(TL[1], TH[1])
    BY <1>3 DEF Timer1, Count
  <2>2. ~Timer1.over
    BY <2>1 DEF Still
  <2> QED BY <1>1, <1>3, <2>1, <2>2 DEF Wraps
<1> QED BY <1>2, <1>3

(* The registers after a reset. *)
LEMMA ClearedType ==
    /\ [mode |-> [t \in Timer |-> 0], halted |-> [t \in Timer |-> FALSE]]
         \in [mode : [Timer -> Modes], halted : [Timer -> BOOLEAN]]
    /\ [t \in Timer |-> 0] \in Registers
<1>1. [t \in Timer |-> 0] \in [Timer -> Modes]
  BY DEF Modes
<1>2. [t \in Timer |-> FALSE] \in [Timer -> BOOLEAN]
  OBVIOUS
<1>3. [t \in Timer |-> 0] \in Registers
  BY RadixAssumption DEF Registers
<1> QED BY <1>1, <1>2, <1>3

LEMMA InitType == Init => TypeOK
BY ClearedType DEF Init, TypeOK

LEMMA TickType ==
    ASSUME TypeOK, TimerTick
    PROVE  TypeOK'
<1>1. Timer0.tl \in Digit /\ Timer0.th \in Digit
  <2>1. CASE Split
    <3>1. Inc8(TL[0]).v \in Digit /\ Inc8(TH[0]).v \in Digit
      BY RegisterTypes, Inc8Type
    <3>2. SplitTL0.v \in Digit /\ SplitTH0.v \in Digit
      BY <3>1, RegisterTypes DEF SplitTL0, SplitTH0
    <3> QED BY <2>1, <3>2 DEF Timer0
  <2>2. CASE ~Split
    <3>1. CASE Runs(0)
      BY <2>2, <3>1, Timer0Whole, CountFacts
    <3>2. CASE ~Runs(0)
      BY <2>2, <3>2, Timer0Whole DEF Still
    <3> QED BY <3>1, <3>2
  <2> QED BY <2>1, <2>2
<1>2. Timer1.tl \in Digit /\ Timer1.th \in Digit
  <2>1. CASE Runs(1) /\ TMOD.mode[1] # 3
    BY <2>1, Timer1Whole, CountFacts DEF Timer1
  <2>2. CASE ~(Runs(1) /\ TMOD.mode[1] # 3)
    <3>1. Timer1 = Still(TL[1], TH[1])
      BY <2>2 DEF Timer1, Count
    <3> QED BY <3>1, Timer1Whole DEF Still
  <2> QED BY <2>1, <2>2
<1>3. TL' \in Registers /\ TH' \in Registers
  BY <1>1, <1>2 DEF TimerTick, TypeOK, Registers, Timer, Digit
<1>4. TF' \in SUBSET Timer
  BY DEF TimerTick, TypeOK, Overflowed
<1> QED BY <1>3, <1>4 DEF TimerTick, TypeOK

LEMMA NextType == TypeOK /\ [Next]_vars => TypeOK'
<1> SUFFICES ASSUME TypeOK, [Next]_vars PROVE TypeOK'
  OBVIOUS
<1>1. CASE TimerTick
  BY <1>1, TickType
<1>2. CASE WriteTMOD
  BY <1>2, TmodAssumption DEF WriteTMOD, TypeOK, Timer
<1>3. CASE WriteTCON \/ WriteSCON \/ Acknowledge
  BY <1>3 DEF WriteTCON, WriteSCON, Acknowledge, TypeOK
<1>4. CASE WriteTL \/ WriteTH
  BY <1>4 DEF WriteTL, WriteTH, TypeOK, Registers
<1>5. CASE Reset
  BY <1>5, ClearedType DEF Reset, TypeOK
<1>6. CASE UNCHANGED vars
  BY <1>6 DEF vars, TypeOK
<1> QED BY <1>1, <1>2, <1>3, <1>4, <1>5, <1>6 DEF Next, Write

LEMMA TypeHolds == Spec => []TypeOK
<1> QED BY InitType, NextType, PTL DEF Spec

-----------------------------------------------------------------------------
(* In the 13-bit, 16-bit and reload modes timer_tick adds one to a single  *)
(* number, carries included, whatever the two registers hold               *)
(* (core.c:118-252).                                                       *)
THEOREM TimersCountByOne == Spec => CountsByOne
<1> DEFINE A == TimerTick =>
                  \A t \in Timer :
                     LET m == TMOD.mode[t]
                     IN  m # 3 =>
                           /\ Value(m, TL'[t], TH'[t])
                                = IF Runs(t) THEN Successor(m, TL[t], TH[t])
                                  ELSE Value(m, TL[t], TH[t])
                           /\ m = 0 => TL'[t] \div Low = TL[t] \div Low
                           /\ m = 2 => TH'[t] = TH[t]
<1>1. TypeOK /\ [Next]_vars => [A]_vars
  <2> SUFFICES ASSUME TypeOK, TimerTick, NEW t \in Timer, TMOD.mode[t] # 3
               PROVE  /\ Value(TMOD.mode[t], TL'[t], TH'[t])
                           = IF Runs(t) THEN Successor(TMOD.mode[t], TL[t], TH[t])
                             ELSE Value(TMOD.mode[t], TL[t], TH[t])
                      /\ TMOD.mode[t] = 0 => TL'[t] \div Low = TL[t] \div Low
                      /\ TMOD.mode[t] = 2 => TH'[t] = TH[t]
    OBVIOUS
  <2> DEFINE c == IF Runs(t) THEN Count(TMOD.mode[t], TL[t], TH[t]) ELSE Still(TL[t], TH[t])
  <2>1. /\ TL'[0] = Timer0.tl /\ TH'[0] = Timer0.th
        /\ TL'[1] = Timer1.tl /\ TH'[1] = Timer1.th
    BY DEF TimerTick, TypeOK, Registers, Timer
  <2>2. t = 0 \/ t = 1
    BY DEF Timer
  <2>3. /\ TMOD.mode[t] \in 0..2 /\ TL[t] \in Digit /\ TH[t] \in Digit
    BY <2>2, RegisterTypes
  <2>4. TL'[t] = c.tl /\ TH'[t] = c.th
    <3>1. CASE t = 0
      BY <2>1, <3>1, Timer0Whole DEF Split
    <3>2. CASE t = 1
      BY <2>1, <3>2 DEF Timer1
    <3> QED BY <2>2, <3>1, <3>2
  <2>5. CASE Runs(t)
    BY <2>3, <2>4, <2>5, CountFacts
  <2>6. CASE ~Runs(t)
    <3>1. TL'[t] = TL[t] /\ TH'[t] = TH[t]
      BY <2>4, <2>6 DEF Still
    <3> QED BY <2>6, <3>1
  <2> QED BY <2>5, <2>6
<1> HIDE DEF A
<1>2. Spec => [][A]_vars
  BY TypeHolds, <1>1, PTL DEF Spec
<1> QED BY <1>2 DEF CountsByOne, A

(* TF0 and TF1 go up on every count that wraps their timer, and on no      *)
(* other; in mode 3 of timer 0, TF1 goes up for TH0 alone.  Only the clock *)
(* of the serial port takes a flag down (core.c:63-263).                   *)
THEOREM FlagsMeanWrap == Spec => FlagsWhenWrapping
<1> DEFINE A == TimerTick =>
                  /\ 0 \in TF' <=> 0 \in TF \/ TF0Rises
                  /\ 1 \in TF' => 1 \in TF \/ TF1Rises
                  /\ TF1Rises /\ ~SM1 => 1 \in TF'
<1>1. TypeOK /\ [Next]_vars => [A]_vars
  <2> SUFFICES ASSUME TypeOK, TimerTick
               PROVE  /\ 0 \in TF' <=> 0 \in TF \/ TF0Rises
                      /\ 1 \in TF' => 1 \in TF \/ TF1Rises
                      /\ TF1Rises /\ ~SM1 => 1 \in TF'
    OBVIOUS
  <2>1. Timer0.over <=> TF0Rises
    <3>1. CASE Split
      BY <3>1 DEF Timer0, SplitTL0, Inc8, TF0Rises
    <3>2. CASE ~Split
      BY <3>2, Timer0Whole DEF TF0Rises
    <3> QED BY <3>1, <3>2
  <2>2. SplitTH0.over \/ (Timer1.over /\ ~Split) <=> TF1Rises
    <3>1. CASE Split
      BY <3>1 DEF SplitTH0, Inc8, TF1Rises
    <3>2. CASE ~Split
      <4>1. ~SplitTH0.over
        BY <3>2 DEF SplitTH0
      <4> QED BY <3>2, <4>1, Timer1Whole DEF TF1Rises
    <3> QED BY <3>1, <3>2
  <2>3. /\ 0 \in Overflowed <=> TF0Rises
        /\ 1 \in Overflowed <=> TF1Rises
    BY <2>1, <2>2 DEF Overflowed, MaySetTF1, Timer
  <2>4. 0 \notin Consumed /\ (~SM1 => 1 \notin Consumed)
    BY DEF Consumed, ClocksSerial
  <2> QED BY <2>3, <2>4 DEF TimerTick
<1> HIDE DEF A
<1>2. Spec => [][A]_vars
  BY TypeHolds, <1>1, PTL DEF Spec
<1> QED BY <1>2 DEF FlagsWhenWrapping, A

(* A TF1 that is up, or rises in this tick, is consumed by the serial port *)
(* if SM1 is set and timer 1 runs, and left to handle_interrupts if not    *)
(* (core.c:255-263).                                                       *)
THEOREM OneTakerOfTF1 == Spec => TF1HasOneTaker
<1> DEFINE A == TimerTick /\ (1 \in TF \/ TF1Rises) => (1 \in TF' <=> ~(SM1 /\ Runs(1)))
<1>1. TypeOK /\ [Next]_vars => [A]_vars
  <2> SUFFICES ASSUME TypeOK, TimerTick, 1 \in TF \/ TF1Rises
               PROVE  1 \in TF' <=> ~(SM1 /\ Runs(1))
    OBVIOUS
  <2>1. TF1Rises => 1 \in Overflowed
    <3>1. CASE Split
      <4>1. TF1Rises => SplitTH0.over
        BY <3>1 DEF TF1Rises, SplitTH0, Inc8
      <4> QED BY <4>1 DEF Overflowed, Timer
    <3>2. CASE ~Split
      <4>1. TF1Rises => Timer1.over
        BY <3>2, Timer1Whole DEF TF1Rises
      <4> QED BY <3>2, <4>1 DEF Overflowed, Timer, MaySetTF1
    <3> QED BY <3>1, <3>2
  <2>2. 1 \in TF \cup Overflowed
    BY <2>1
  <2>3. ClocksSerial <=> Runs(1) /\ SM1
    BY <2>2 DEF ClocksSerial
  <2>4. 1 \in TF' <=> ~ClocksSerial
    BY <2>2 DEF TimerTick, Consumed
  <2> QED BY <2>3, <2>4
<1> HIDE DEF A
<1>2. Spec => [][A]_vars
  BY TypeHolds, <1>1, PTL DEF Spec
<1> QED BY <1>2 DEF TF1HasOneTaker, A

(* timer_tick does no more to the requests than TickCore lets it do: the   *)
(* theorems about TickCore hold of the timers as they are (core.c:57-267). *)
THEOREM TimersKeepToEffect == Spec => WithinTimerEffect
<1> DEFINE A == TimerTick =>
                  RequestOf(TF') \in TimerEffect(Vectors, RequestOf(TF), {})
<1>1. TypeOK /\ [Next]_vars => [A]_vars
  <2> SUFFICES ASSUME TimerTick
               PROVE  RequestOf(TF') \in TimerEffect(Vectors, RequestOf(TF), {})
    OBVIOUS
  <2> DEFINE q == RequestOf(TF) \cup RequestOf(Overflowed)
             over == {RequestOf(TF) \cup o :
                        o \in SUBSET (Vectors \cap {"ISR_TF0", "ISR_TF1"})}
  <2>1. RequestOf(Overflowed) \in SUBSET (Vectors \cap {"ISR_TF0", "ISR_TF1"})
    BY DEF RequestOf, Vectors
  <2>2. q \in over
    BY <2>1
  <2>3. RequestOf(TF \cup Overflowed) = q
    BY DEF RequestOf
  <2>4. CASE ClocksSerial
    <3>1. TF' = (TF \cup Overflowed) \ {1} /\ 1 \in TF \cup Overflowed
      BY <2>4 DEF TimerTick, Consumed, ClocksSerial
    <3>2. RequestOf(TF') = RequestOf(TF \cup Overflowed) \ {"ISR_TF1"}
      BY <3>1 DEF RequestOf
    <3>3. "ISR_TF1" \in q
      BY <2>3, <3>1 DEF RequestOf
    <3> HIDE DEF q
    <3> QED BY <2>2, <2>3, <3>2, <3>3 DEF TimerEffect
  <2>5. CASE ~ClocksSerial
    <3>1. TF' = TF \cup Overflowed
      BY <2>5 DEF TimerTick, Consumed
    <3> HIDE DEF q
    <3> QED BY <2>2, <2>3, <3>1 DEF TimerEffect
  <2> QED BY <2>4, <2>5
<1> HIDE DEF A
<1>2. Spec => [][A]_vars
  BY TypeHolds, <1>1, PTL DEF Spec
<1> QED BY <1>2 DEF WithinTimerEffect, A

-----------------------------------------------------------------------------
(* The serial transmitter. *)

(* What SBUF and the ring can hold: a byte, or the 0 of a cleared one.     *)
Held == Bytes \cup {0}

PortTypeOK ==
    /\ SBUF \in Held
    /\ serial_out_remaining_bits \in 0 .. FrameBits
    /\ TXD \in {0, 1}
    /\ TI \in BOOLEAN /\ ES \in BOOLEAN /\ serial_interrupt_trigger \in BOOLEAN
    /\ serial_out \in [Slots -> Held] /\ serial_out_idx \in Slots
    /\ line \in Seq({0, 1}) /\ sent \in Seq(Held) /\ taken \in Nat

(* While a frame is under way the bits clocked since SBUF was written and  *)
(* those that remain make up a frame.  WholeFrames says this of the last   *)
(* bit only.                                                               *)
LineCounts ==
    serial_out_remaining_bits > 0
      => Len(line) + serial_out_remaining_bits = FrameBits

IInv == PortTypeOK /\ LineCounts /\ RingHoldsLastSent /\ OneInterruptPerFrame

-----------------------------------------------------------------------------
(* A slot counted back from the index, around the end of the ring.         *)
LEMMA SlotBehind ==
    ASSUME NEW i \in Slots, NEW k \in 0 .. OutSize
    PROVE  (i - k) % OutSize = IF k <= i THEN i - k ELSE i - k + OutSize
<1>1. CASE k <= i
  <2>1. i - k \in 0 .. OutSize - 1
    BY <1>1, SizeAssumption DEF Slots
  <2> QED BY <1>1, <2>1, SizeAssumption
<1>2. CASE ~(k <= i)
  <2>1. i - k \in (-OutSize) .. (-1)
    BY <1>2, SizeAssumption DEF Slots
  <2> QED BY <1>2, <2>1, SizeAssumption
<1> QED BY <1>1, <1>2

LEMMA NextSlotValue ==
    ASSUME NEW i \in Slots
    PROVE  /\ NextSlot(i) \in Slots
           /\ NextSlot(i) = IF i = OutSize - 1 THEN 0 ELSE i + 1
<1>1. CASE i = OutSize - 1
  <2>1. (i + 1) % OutSize = 0
    BY <1>1, SizeAssumption
  <2> QED BY <1>1, <2>1, SizeAssumption DEF NextSlot, Slots
<1>2. CASE i # OutSize - 1
  <2>1. i + 1 \in 0 .. OutSize - 1
    BY <1>2, SizeAssumption DEF Slots
  <2> QED BY <1>2, <2>1, SizeAssumption DEF NextSlot, Slots
<1> QED BY <1>1, <1>2

(* Once the index has moved on, the slot it left is the newest, and what   *)
(* was k slots behind is k + 1 slots behind.  The ring is full at OutSize  *)
(* bytes: no slot that is still counted is the one written to.             *)
LEMMA SlotsMoveBack ==
    ASSUME NEW i \in Slots, NEW k \in 1 .. OutSize
    PROVE  /\ k = 1 => (NextSlot(i) - k) % OutSize = i
           /\ k > 1 => /\ (NextSlot(i) - k) % OutSize = (i - (k - 1)) % OutSize
                       /\ (i - (k - 1)) % OutSize \in Slots \ {i}
<1> DEFINE j == NextSlot(i)
<1>1. j \in Slots /\ j = IF i = OutSize - 1 THEN 0 ELSE i + 1
  BY NextSlotValue
<1> HIDE DEF j
<1>2. (j - k) % OutSize = IF k <= j THEN j - k ELSE j - k + OutSize
  BY <1>1, SlotBehind
<1>3. (i - (k - 1)) % OutSize = IF k - 1 <= i THEN i - (k - 1) ELSE i - (k - 1) + OutSize
  BY SlotBehind, SizeAssumption
<1> HIDE DEF NextSlot
<1>4. /\ k = 1 => (j - k) % OutSize = i
      /\ k > 1 => /\ (j - k) % OutSize = (i - (k - 1)) % OutSize
                  /\ (i - (k - 1)) % OutSize \in Slots \ {i}
  BY <1>1, <1>2, <1>3, SizeAssumption DEF Slots
<1> QED BY <1>4 DEF j

-----------------------------------------------------------------------------
LEMMA InitIInv == SerialInit => IInv
BY SizeAssumption, EmptySeq
DEF SerialInit, IInv, PortTypeOK, Held, Slots, LineCounts, RingHoldsLastSent, OneInterruptPerFrame

(* The last bit of a frame: the byte goes into the ring and the history.   *)
LEMMA LastBit ==
    ASSUME IInv, SerialTx, serial_out_remaining_bits = 1
    PROVE  IInv'
<1>0. serial_out_remaining_bits - 1 = 0
  OBVIOUS
<1>1. /\ serial_out_remaining_bits' = 0
      /\ TXD' \in {0, 1}
      /\ line' = Append(line, TXD')
      /\ serial_out' = [serial_out EXCEPT ![serial_out_idx] = SBUF]
      /\ serial_out_idx' = NextSlot(serial_out_idx)
      /\ sent' = Append(sent, SBUF)
      /\ SBUF' = SBUF /\ ES' = ES /\ taken' = taken
  BY <1>0 DEF SerialTx, TxBit
<1>8. TI' \in BOOLEAN /\ serial_interrupt_trigger' \in BOOLEAN
  BY DEF SerialTx
<1>2. /\ sent' \in Seq(Held) /\ Len(sent') = Len(sent) + 1 /\ Len(sent) \in Nat
      /\ \A n \in 1 .. Len(sent) : sent'[n] = sent[n]
      /\ sent'[Len(sent) + 1] = SBUF
  BY <1>1, AppendProperties DEF IInv, PortTypeOK
<1>3. line' \in Seq({0, 1})
  BY <1>1, AppendProperties DEF IInv, PortTypeOK
<1>4. PortTypeOK'
  BY <1>1, <1>2, <1>3, <1>8, NextSlotValue, SizeAssumption DEF IInv, PortTypeOK
<1>5. LineCounts'
  BY <1>1 DEF LineCounts
<1>6. OneInterruptPerFrame'
  BY <1>1, <1>2, <1>8 DEF IInv, PortTypeOK, OneInterruptPerFrame
<1>7. RingHoldsLastSent'
  <2> SUFFICES ASSUME NEW k \in 1 .. OutSize, k <= Len(sent')
               PROVE  serial_out'[(serial_out_idx' - k) % OutSize] = sent'[Len(sent') - k + 1]
    BY DEF RingHoldsLastSent
  <2>1. serial_out_idx \in Slots /\ serial_out \in [Slots -> Held]
    BY DEF IInv, PortTypeOK
  <2>2. CASE k = 1
    <3>1. (serial_out_idx' - k) % OutSize = serial_out_idx
      BY <1>1, <2>1, <2>2, SlotsMoveBack
    <3>2. Len(sent') - k + 1 = Len(sent) + 1
      BY <1>2, <2>2
    <3> QED BY <1>1, <1>2, <2>1, <3>1, <3>2
  <2>3. CASE k > 1
    <3> DEFINE s == (serial_out_idx - (k - 1)) % OutSize
    <3>1. (serial_out_idx' - k) % OutSize = s /\ s \in Slots \ {serial_out_idx}
      BY <1>1, <2>1, <2>3, SlotsMoveBack
    <3>2. k - 1 \in 1 .. OutSize /\ k - 1 <= Len(sent)
      BY <1>2, <2>3, SizeAssumption
    <3>3. serial_out[s] = sent[Len(sent) - (k - 1) + 1]
      BY <3>2 DEF IInv, RingHoldsLastSent
    <3> HIDE DEF s
    <3>4. serial_out'[s] = serial_out[s]
      BY <1>1, <2>1, <3>1
    <3>5. Len(sent') - k + 1 = Len(sent) - (k - 1) + 1 /\ Len(sent') - k + 1 \in 1 .. Len(sent)
      BY <1>2, <2>3, <3>2
    <3> QED BY <1>2, <3>1, <3>3, <3>4, <3>5
  <2> QED BY <2>2, <2>3
<1> QED BY <1>4, <1>5, <1>6, <1>7 DEF IInv

(* Every other step leaves the ring and what was sent alone.               *)
LEMMA RingUntouched ==
    ASSUME RingHoldsLastSent, UNCHANGED <<serial_out, serial_out_idx, sent>>
    PROVE  RingHoldsLastSent'
BY DEF RingHoldsLastSent

(* A bit that is not the last: the ring and the history stay.              *)
LEMMA EarlierBit ==
    ASSUME IInv, SerialTx, serial_out_remaining_bits # 1
    PROVE  IInv'
<1>0. serial_out_remaining_bits > 0 /\ serial_out_remaining_bits - 1 # 0
  BY DEF SerialTx, IInv, PortTypeOK
<1>1. /\ serial_out_remaining_bits' = serial_out_remaining_bits - 1
      /\ TXD' \in {0, 1}
      /\ line' = Append(line, TXD')
      /\ serial_out' = serial_out /\ serial_out_idx' = serial_out_idx
      /\ sent' = sent /\ SBUF' = SBUF /\ ES' = ES /\ taken' = taken
  BY <1>0 DEF SerialTx, TxBit
<1>6. TI' \in BOOLEAN /\ serial_interrupt_trigger' \in BOOLEAN
  BY DEF SerialTx
<1>7. serial_interrupt_trigger' => serial_interrupt_trigger
  BY <1>0 DEF SerialTx
<1>2. line' \in Seq({0, 1}) /\ Len(line') = Len(line) + 1 /\ Len(line) \in Nat
  BY <1>1, AppendProperties DEF IInv, PortTypeOK
<1>3. PortTypeOK'
  BY <1>0, <1>1, <1>2, <1>6, SizeAssumption DEF IInv, PortTypeOK
<1>4. LineCounts'
  <2>1. serial_out_remaining_bits \in Nat /\ FrameBits \in Nat
    BY SizeAssumption DEF IInv, PortTypeOK
  <2>2. Len(line) + serial_out_remaining_bits = FrameBits
    BY <1>0 DEF IInv, LineCounts
  <2> QED BY <1>1, <1>2, <2>1, <2>2 DEF LineCounts
<1>5. OneInterruptPerFrame'
  <2>1. Len(sent) \in Nat
    BY LenProperties DEF IInv, PortTypeOK
  <2> QED BY <1>1, <1>6, <1>7, <2>1 DEF IInv, PortTypeOK, OneInterruptPerFrame
<1>8. RingHoldsLastSent'
  BY <1>1, RingUntouched DEF IInv
<1> QED BY <1>3, <1>4, <1>5, <1>8 DEF IInv

LEMMA NextIInv == IInv /\ [SerialNext]_serialVars => IInv'
<1> SUFFICES ASSUME IInv, [SerialNext]_serialVars PROVE IInv'
  OBVIOUS
<1>0. Len(sent) \in Nat
  BY LenProperties DEF IInv, PortTypeOK
<1>1. CASE SerialTx
  BY <1>1, LastBit, EarlierBit
<1>2. CASE ~SerialTx
  <2>1. UNCHANGED <<serial_out, serial_out_idx, sent>>
    BY <1>2 DEF SerialNext, WriteSBUF, EditSBUF, WriteIE, WriteTI, WriteP3, TakeInterrupt, ResetPort,
                serialVars, ring, history
  <2>2. SBUF' \in Held /\ line' \in Seq({0, 1})
    <3>1. << >> \in Seq({0, 1})
      BY EmptySeq
    <3> QED BY <1>2, <3>1 DEF IInv, PortTypeOK, Held, SerialNext, WriteSBUF, EditSBUF, WriteIE, WriteTI,
                              WriteP3, TakeInterrupt, ResetPort, serialVars, history
  <2>3. serial_out_remaining_bits' \in 0 .. FrameBits /\ TXD' \in {0, 1} /\ taken' \in Nat
    BY <1>2, SizeAssumption
    DEF IInv, PortTypeOK, SerialNext, WriteSBUF, FrameStart, EditSBUF, WriteIE, WriteTI, WriteP3,
        TakeInterrupt, ResetPort, serialVars, history
  <2>8. TI' \in BOOLEAN /\ ES' \in BOOLEAN /\ serial_interrupt_trigger' \in BOOLEAN
    BY <1>2
    DEF IInv, PortTypeOK, SerialNext, WriteSBUF, EditSBUF, WriteIE, WriteTI, WriteP3,
        TakeInterrupt, TriggerAfterEntry, ResetPort, serialVars
  <2>4. PortTypeOK'
    BY <2>1, <2>2, <2>3, <2>8 DEF IInv, PortTypeOK
  <2>5. LineCounts'
    <3>1. Len(<< >>) = 0
      BY EmptySeq
    <3> QED BY <1>2, <3>1, SizeAssumption
            DEF IInv, LineCounts, SerialNext, WriteSBUF, FrameStart, EditSBUF, WriteIE, WriteTI,
                WriteP3, TakeInterrupt, ResetPort, serialVars, history
  <2>6. RingHoldsLastSent'
    BY <2>1, RingUntouched DEF IInv
  <2>7. OneInterruptPerFrame'
    BY <1>0, <1>2
    DEF IInv, PortTypeOK, OneInterruptPerFrame, SerialNext, WriteSBUF, EditSBUF, WriteIE, WriteTI,
        WriteP3, TakeInterrupt, TriggerAfterEntry, ResetPort, serialVars, history
  <2> QED BY <2>4, <2>5, <2>6, <2>7 DEF IInv
<1> QED BY <1>1, <1>2

LEMMA IInvHolds == SerialSpec => []IInv
<1> QED BY InitIInv, NextIInv, PTL DEF SerialSpec

-----------------------------------------------------------------------------
(* The bytes the main view shows are the last ones that were sent, newest  *)
(* first from the index back, whatever the size of the ring, however often *)
(* it wraps, and whatever resets and edits come between (core.c:45-52).    *)
THEOREM RingIsHistory == SerialSpec => []RingHoldsLastSent
<1>1. IInv => RingHoldsLastSent
  BY DEF IInv
<1> QED BY <1>1, IInvHolds, PTL

(* A frame raises the serial interrupt at most once (core.c:50-53).        *)
THEOREM FrameInterruptsOnce == SerialSpec => []OneInterruptPerFrame
<1>1. IInv => OneInterruptPerFrame
  BY DEF IInv
<1> QED BY <1>1, IInvHolds, PTL

(* A byte enters the ring after FrameBits clocks since SBUF was written    *)
(* last, never with clocks of a frame that was started again or cut short  *)
(* by a reset (core.c:35-55).                                              *)
THEOREM FramesAreWhole == SerialSpec => WholeFrames
<1> DEFINE A == sent' # sent => Len(line') = FrameBits
<1>1. IInv /\ [SerialNext]_serialVars => [A]_serialVars
  <2> SUFFICES ASSUME IInv, SerialNext, sent' # sent
               PROVE  Len(line') = FrameBits
    OBVIOUS
  <2>1. SerialTx
    BY DEF SerialNext, WriteSBUF, EditSBUF, WriteIE, WriteTI, WriteP3, TakeInterrupt, ResetPort, history
  <2>2. serial_out_remaining_bits = 1 /\ line' = Append(line, TXD') /\ TXD' \in {0, 1}
    BY <2>1 DEF SerialTx, TxBit, IInv, PortTypeOK
  <2>3. Len(line') = Len(line) + 1 /\ Len(line) \in Nat
    BY <2>2, AppendProperties DEF IInv, PortTypeOK
  <2> QED BY <2>2, <2>3, SizeAssumption DEF IInv, LineCounts
<1> HIDE DEF A
<1>2. SerialSpec => [][A]_serialVars
  BY IInvHolds, <1>1, PTL DEF SerialSpec
<1> QED BY <1>2 DEF WholeFrames, A
=============================================================================
