--------------------------- MODULE FrontEndProofs ---------------------------
(***************************************************************************)
(* The theorems about the main loop, for every length of the history and   *)
(* every range of its counters, whatever keys are pressed and whatever the *)
(* program does.                                                           *)
(***************************************************************************)
EXTENDS FrontEnd, SequenceTheorems, TLAPS

TypeOK ==
    /\ mPC \in Addresses /\ old_pc \in Int /\ waits \in Nat
    /\ entered \in Nat /\ interrupted \in Int
    /\ at \in {"key", "loop", "draw"} /\ opt_step_instruction \in BOOLEAN
    /\ history \in [Lines -> Int] /\ historyline \in Lines
    /\ recent \in Seq(Int) /\ Len(recent) = HistoryLines
    /\ icount \in 0 .. Word - 1 /\ lastclock \in 0 .. Word - 1
    /\ missed \in 0 .. Word

(* The address of the next line: where the step's instruction is, or where *)
(* the first interrupt entered in the step was.                            *)
Noted == IF entered = 0 THEN mPC ELSE interrupted

(* An interrupt only goes unnoticed by the breakpoint inside of a step.    *)
StepsBegin ==
    /\ at # "loop" \/ ~opt_step_instruction => entered = 0
    /\ at = "loop" => old_pc = Noted

(* The CPU stands at the breakpoint because the user was stopped there, or *)
(* because a reset put it there.                                           *)
ToldThere ==
    mPC = breakpoint /\ entered = 0 => arrived = "stopped" \/ (arrived = "reset" /\ mPC = 0)

(* The line of the ring that is k lines older than the newest.             *)
LineBefore(line, k) == (line - k + HistoryLines) % HistoryLines

RingKeepsRecent ==
    \A k \in Lines : history[LineBefore(historyline, k)] = recent[HistoryLines - k]

(* The counter of the lines not yet printed is right until it has gone     *)
(* round.                                                                  *)
CountsMissed == missed < Word => Unprinted = missed

IInv == TypeOK /\ StepsBegin /\ ToldThere /\ RingKeepsRecent /\ CountsMissed

-----------------------------------------------------------------------------
(* Counters and lines that wrap.                                           *)
LEMMA Behind ==
    ASSUME NEW n \in Nat \ {0}, NEW i \in 0 .. n - 1, NEW j \in 0 .. n - 1
    PROVE  /\ (i - j + n) % n = IF j <= i THEN i - j ELSE i - j + n
           /\ (i - j) % n = IF j <= i THEN i - j ELSE i - j + n
<1>1. CASE j <= i
  <2>1. i - j \in 0 .. n - 1 /\ i - j + n = n * 1 + (i - j)
    BY <1>1
  <2>2. (i - j) % n = i - j
    BY <2>1
  <2>3. (i - j + n) % n = i - j
    BY <2>1
  <2> QED BY <1>1, <2>2, <2>3
<1>2. CASE ~(j <= i)
  <2>1. i - j \in (-n) .. (-1) /\ i - j + n \in 0 .. n - 1
    BY <1>2
  <2> QED BY <1>2, <2>1
<1> QED BY <1>1, <1>2

LEMMA Onward ==
    ASSUME NEW n \in Nat \ {0}, NEW i \in 0 .. n - 1
    PROVE  (i + 1) % n = IF i = n - 1 THEN 0 ELSE i + 1
<1>1. CASE i = n - 1
  <2>1. i + 1 = n * 1 + 0
    BY <1>1
  <2>2. n % n = 0
    OBVIOUS
  <2> QED BY <1>1, <2>2
<1>2. CASE i # n - 1
  <2>1. i + 1 \in 0 .. n - 1
    BY <1>2
  <2> QED BY <1>2, <2>1
<1> QED BY <1>1, <1>2

LEMMA Sizes ==
    /\ HistoryLines \in Nat \ {0} /\ RebuildLines \in 0 .. HistoryLines
    /\ Word \in Nat \ {0} /\ HistoryLines < Word
    /\ Addresses \subseteq Int /\ VectorPC \in Addresses /\ 0 \in Addresses
    /\ Waits \subseteq 0 .. 3
BY HistoryAssumption, AddressesAssumption, WaitsAssumption

(* Once a line has been added, every line is one further back.             *)
LEMMA LinesMoveBack ==
    ASSUME NEW line \in Lines, NEW k \in Lines
    PROVE  /\ NextLine(line) \in Lines /\ LineBefore(line, k) \in Lines
           /\ LineBefore(NextLine(line), 0) = NextLine(line)
           /\ k > 0 => /\ LineBefore(NextLine(line), k) = LineBefore(line, k - 1)
                       /\ LineBefore(line, k - 1) # NextLine(line)
<1> DEFINE n == HistoryLines
           next == NextLine(line)
<1>1. n \in Nat \ {0} /\ line \in 0 .. n - 1 /\ k \in 0 .. n - 1 /\ 0 \in 0 .. n - 1
  BY Sizes DEF Lines
<1>2. next = IF line = n - 1 THEN 0 ELSE line + 1
  BY <1>1, Onward DEF NextLine
<1> HIDE DEF next
<1>3. next \in 0 .. n - 1
  BY <1>1, <1>2
<1>4. LineBefore(line, k) = IF k <= line THEN line - k ELSE line - k + n
  BY <1>1, Behind DEF LineBefore
<1>5. LineBefore(next, 0) = next
  <2>1. LineBefore(next, 0) = IF 0 <= next THEN next - 0 ELSE next - 0 + n
    BY <1>1, <1>3, Behind DEF LineBefore
  <2> QED BY <1>3, <2>1
<1>6. ASSUME k > 0
      PROVE  /\ LineBefore(next, k) = LineBefore(line, k - 1)
             /\ LineBefore(line, k - 1) # next
  <2>1. k - 1 \in 0 .. n - 1
    BY <1>1, <1>6
  <2>2. LineBefore(next, k) = IF k <= next THEN next - k ELSE next - k + n
    BY <1>1, <1>3, Behind DEF LineBefore
  <2>3. LineBefore(line, k - 1) = IF k - 1 <= line THEN line - (k - 1) ELSE line - (k - 1) + n
    BY <1>1, <2>1, Behind DEF LineBefore
  <2> QED BY <1>1, <1>2, <1>6, <2>2, <2>3
<1> QED BY <1>1, <1>3, <1>4, <1>5, <1>6 DEF next, Lines

(* An instruction recorded leaves the newest line with the address noted   *)
(* for it, and the others as they were.                                    *)
LEMMA RecordKeeps ==
    ASSUME TypeOK, RingKeepsRecent, old_pc = Noted, Record
    PROVE  /\ icount' = (icount + 1) % Word
           /\ history' \in [Lines -> Int] /\ historyline' \in Lines
           /\ recent' \in Seq(Int) /\ Len(recent') = HistoryLines
           /\ RingKeepsRecent'
<1> DEFINE new == Noted
           next == NextLine(historyline)
<1>1. /\ HistoryLines \in Nat \ {0}
      /\ historyline \in Lines /\ history \in [Lines -> Int]
      /\ recent \in Seq(Int) /\ Len(recent) = HistoryLines /\ recent # << >>
      /\ new \in Int /\ old_pc \in Int
  BY Sizes DEF TypeOK, Noted
<1>2. /\ historyline' = next /\ icount' = (icount + 1) % Word
      /\ history' = [history EXCEPT ![next] = old_pc]
      /\ recent' = Append(Tail(recent), new) /\ old_pc = new
  BY DEF Record, Noted
<1> HIDE DEF new, next
<1>3. next \in Lines
  BY <1>1, LinesMoveBack DEF next
<1>4. /\ Tail(recent) \in Seq(Int) /\ Len(Tail(recent)) = HistoryLines - 1
      /\ \A i \in 1 .. HistoryLines - 1 : Tail(recent)[i] = recent[i + 1]
  BY <1>1, HeadTailProperties
<1>5. /\ recent' \in Seq(Int) /\ Len(recent') = HistoryLines
      /\ \A i \in 1 .. HistoryLines - 1 : recent'[i] = recent[i + 1]
      /\ recent'[HistoryLines] = new
  BY <1>1, <1>2, <1>4, AppendProperties
<1>6. ASSUME NEW k \in Lines
      PROVE  history'[LineBefore(next, k)] = recent'[HistoryLines - k]
  <2>1. CASE k = 0
    <3>1. LineBefore(next, k) = next
      BY <1>1, <2>1, LinesMoveBack DEF next
    <3>2. history'[next] = old_pc /\ recent'[HistoryLines - k] = new
      BY <1>1, <1>2, <1>3, <1>5, <2>1
    <3> QED BY <1>2, <3>1, <3>2
  <2>2. CASE k # 0
    <3> DEFINE s == LineBefore(historyline, k - 1)
    <3>1. k > 0 /\ k - 1 \in Lines /\ HistoryLines - k \in 1 .. HistoryLines - 1
      BY <1>1, <2>2 DEF Lines
    <3>2. LineBefore(next, k) = s /\ s # next /\ s \in Lines
      BY <1>1, <3>1, LinesMoveBack DEF next
    <3>3. recent'[HistoryLines - k] = recent[HistoryLines - (k - 1)]
      <4>1. recent'[HistoryLines - k] = recent[(HistoryLines - k) + 1]
        BY <1>5, <3>1
      <4>2. (HistoryLines - k) + 1 = HistoryLines - (k - 1)
        BY <1>1, <3>1 DEF Lines
      <4> QED BY <4>1, <4>2
    <3>4. history[s] = recent[HistoryLines - (k - 1)]
      BY <3>1 DEF RingKeepsRecent
    <3>5. history'[s] = history[s]
      BY <1>1, <1>2, <3>2
    <3> QED BY <3>2, <3>3, <3>4, <3>5
  <2> QED BY <2>1, <2>2
<1>7. RingKeepsRecent'
  BY <1>2, <1>6 DEF RingKeepsRecent, LineBefore
<1> QED BY <1>1, <1>2, <1>3, <1>5, <1>7

-----------------------------------------------------------------------------
(* What was printed and what was not, counted from what the view saw last. *)
LEMMA RebuildCounts ==
    ASSUME NEW c \in 0 .. Word - 1, NEW l, l = (c - RebuildLines) % Word
    PROVE  l \in 0 .. Word - 1 /\ (c - l) % Word = RebuildLines
<1>1. Word \in Nat \ {0} /\ RebuildLines \in 0 .. Word - 1
  BY Sizes
<1>2. l = IF RebuildLines <= c THEN c - RebuildLines ELSE c - RebuildLines + Word
  BY <1>1, Behind
<1>3. l \in 0 .. Word - 1
  BY <1>1, <1>2
<1>4. (c - l) % Word = IF l <= c THEN c - l ELSE c - l + Word
  BY <1>1, <1>3, Behind
<1> QED BY <1>1, <1>2, <1>3, <1>4

LEMMA OneMore ==
    ASSUME NEW c \in 0 .. Word - 1, NEW l \in 0 .. Word - 1
    PROVE  /\ (c + 1) % Word \in 0 .. Word - 1
           /\ ((c - l) % Word) + 1 < Word
                => (((c + 1) % Word) - l) % Word = ((c - l) % Word) + 1
<1> DEFINE d == (c + 1) % Word
<1>1. Word \in Nat \ {0}
  BY Sizes
<1>2. d = IF c = Word - 1 THEN 0 ELSE c + 1
  BY <1>1, Onward
<1> HIDE DEF d
<1>3. d \in 0 .. Word - 1
  BY <1>1, <1>2
<1>4. (c - l) % Word = IF l <= c THEN c - l ELSE c - l + Word
  BY <1>1, Behind
<1>5. (d - l) % Word = IF l <= d THEN d - l ELSE d - l + Word
  BY <1>1, <1>3, Behind
<1> QED BY <1>1, <1>2, <1>3, <1>4, <1>5 DEF d

LEMMA RebuildKeeps ==
    ASSUME icount \in 0 .. Word - 1, Rebuild(icount), icount' = icount
    PROVE  lastclock' \in 0 .. Word - 1 /\ missed' \in 0 .. Word /\ CountsMissed'
<1>1. RebuildLines \in 0 .. Word
  BY Sizes
<1>2. lastclock' = (icount - RebuildLines) % Word /\ missed' = RebuildLines
  BY DEF Rebuild
<1>3. lastclock' \in 0 .. Word - 1 /\ (icount - lastclock') % Word = RebuildLines
  BY <1>2, RebuildCounts
<1> QED BY <1>1, <1>2, <1>3 DEF CountsMissed, Unprinted

(* A turn of the inner loop, whatever the tick did.                        *)
LEMMA TurnCounts ==
    ASSUME TypeOK, CountsMissed, NEW ticked \in BOOLEAN, NEW rebuilt \in BOOLEAN,
           lastclock' = IF rebuilt THEN (icount - RebuildLines) % Word ELSE lastclock,
           missed' = Saturated((IF rebuilt THEN RebuildLines ELSE missed)
                                 + (IF ticked THEN 1 ELSE 0)),
           icount' = IF ticked THEN (icount + 1) % Word ELSE icount
    PROVE  /\ icount' \in 0 .. Word - 1 /\ lastclock' \in 0 .. Word - 1
           /\ missed' \in 0 .. Word /\ CountsMissed'
<1> DEFINE l == lastclock'
           m == IF rebuilt THEN RebuildLines ELSE missed
           u == (icount - l) % Word
<1>1. /\ Word \in Nat \ {0} /\ RebuildLines \in 0 .. Word
      /\ icount \in 0 .. Word - 1 /\ lastclock \in 0 .. Word - 1 /\ missed \in 0 .. Word
  BY Sizes DEF TypeOK
<1>2. l \in 0 .. Word - 1 /\ m \in 0 .. Word /\ (m < Word => u = m)
  <2>1. CASE rebuilt
    BY <1>1, <2>1, RebuildCounts
  <2>2. CASE ~rebuilt
    BY <1>1, <2>2 DEF CountsMissed, Unprinted
  <2> QED BY <2>1, <2>2
<1>3. missed' = Saturated(m + (IF ticked THEN 1 ELSE 0))
  OBVIOUS
<1> HIDE DEF m
<1>4. CASE ticked
  <2>1. missed' = (IF m + 1 < Word THEN m + 1 ELSE Word) /\ icount' = (icount + 1) % Word
    BY <1>3, <1>4 DEF Saturated
  <2>2. /\ (icount + 1) % Word \in 0 .. Word - 1
        /\ u + 1 < Word => (((icount + 1) % Word) - l) % Word = u + 1
    BY <1>1, <1>2, OneMore
  <2>3. missed' < Word => m < Word /\ missed' = m + 1
    BY <1>1, <1>2, <2>1
  <2>4. missed' \in 0 .. Word
    BY <1>1, <1>2, <2>1
  <2>5. missed' < Word => (icount' - l) % Word = missed'
    BY <1>2, <2>1, <2>2, <2>3
  <2> QED BY <1>2, <2>1, <2>2, <2>4, <2>5 DEF CountsMissed, Unprinted
<1>5. CASE ~ticked
  <2>1. missed' = (IF m < Word THEN m ELSE Word) /\ icount' = icount
    BY <1>1, <1>2, <1>3, <1>5 DEF Saturated
  <2>2. missed' \in 0 .. Word /\ (missed' < Word => (icount' - l) % Word = missed')
    BY <1>1, <1>2, <2>1
  <2> QED BY <1>1, <1>2, <2>1, <2>2 DEF CountsMissed, Unprinted
<1> QED BY <1>4, <1>5

LEMMA TurnKeeps ==
    ASSUME IInv, at = "loop", NEW ticked \in BOOLEAN, NEW next \in Addresses,
           NEW popup \in {"none", "ask", "exception"}, Turn(ticked, next, popup)
    PROVE  LET done == ticked \/ ~opt_step_instruction
           IN  /\ mPC' = next /\ breakpoint' = breakpoint
               /\ opt_step_instruction' = opt_step_instruction
               /\ at' \in {"loop", "draw"} /\ old_pc' \in Int
               /\ at' = "loop" => old_pc' = IF done THEN next ELSE old_pc
               /\ ~done => at' = "loop"
               /\ done /\ next = breakpoint => arrived' = "stopped"
               /\ ~ticked /\ next = mPC => arrived' \in {arrived, "stopped"}
               /\ history' \in [Lines -> Int] /\ historyline' \in Lines
               /\ recent' \in Seq(Int) /\ Len(recent') = HistoryLines
               /\ icount' \in 0 .. Word - 1 /\ lastclock' \in 0 .. Word - 1
               /\ missed' \in 0 .. Word
               /\ RingKeepsRecent' /\ CountsMissed'
<1> DEFINE done    == ticked \/ ~opt_step_instruction
           stop    == StopsAt(done, next)
           told    == stop \/ popup = "exception"
           rebuilt == told \/ (popup = "ask" /\ view = "main")
           left    == (targetclocks - 1) % Word
<1>1. TypeOK /\ StepsBegin /\ RingKeepsRecent /\ CountsMissed /\ next \in Int
  BY Sizes DEF IInv
<1>2. PICK time \in IF told THEN {FALSE} ELSE {timeLeft, FALSE} :
        IF ~done \/ Loops(time, left)
        THEN /\ at' = "loop" /\ timeLeft' = time /\ targetclocks' = left
             /\ old_pc' = IF done THEN next ELSE old_pc
        ELSE /\ at' = "draw"
             /\ timeLeft' = FALSE /\ targetclocks' = 0 /\ old_pc' = 0
  BY DEF Turn
<1>3. /\ mPC' = next /\ breakpoint' = breakpoint
      /\ opt_step_instruction' = opt_step_instruction
      /\ arrived' = IF stop THEN "stopped"
                    ELSE IF next = mPC /\ ~ticked THEN arrived ELSE "ran"
  BY DEF Turn, settings
<1>4. /\ lastclock' = IF rebuilt THEN (icount - RebuildLines) % Word ELSE lastclock
      /\ missed' = Saturated((IF rebuilt THEN RebuildLines ELSE missed)
                                 + (IF ticked THEN 1 ELSE 0))
      /\ IF ticked THEN Record ELSE UNCHANGED ring
  BY DEF Turn
<1>5. /\ at' \in {"loop", "draw"} /\ old_pc' \in Int
      /\ at' = "loop" => old_pc' = IF done THEN next ELSE old_pc
      /\ ~done => at' = "loop"
  BY <1>1, <1>2 DEF TypeOK
<1>6. /\ done /\ next = breakpoint => arrived' = "stopped"
      /\ ~ticked /\ next = mPC => arrived' \in {arrived, "stopped"}
  BY <1>3 DEF StopsAt
<1>7. /\ history' \in [Lines -> Int] /\ historyline' \in Lines
      /\ recent' \in Seq(Int) /\ Len(recent') = HistoryLines
      /\ RingKeepsRecent'
      /\ icount' = IF ticked THEN (icount + 1) % Word ELSE icount
  <2>1. CASE ticked
    BY <1>1, <1>4, <2>1, RecordKeeps DEF StepsBegin
  <2>2. CASE ~ticked
    BY <1>1, <1>4, <2>2 DEF ring, TypeOK, RingKeepsRecent, LineBefore
  <2> QED BY <2>1, <2>2
<1>8. rebuilt \in BOOLEAN
  BY DEF StopsAt
<1> HIDE DEF rebuilt
<1>9. /\ icount' \in 0 .. Word - 1 /\ lastclock' \in 0 .. Word - 1
      /\ missed' \in 0 .. Word /\ CountsMissed'
  BY <1>1, <1>4, <1>7, <1>8, TurnCounts
<1> QED BY <1>3, <1>5, <1>6, <1>7, <1>9

LEMMA InitIInv ==
    ASSUME Init
    PROVE  IInv
<1>1. /\ HistoryLines \in Nat \ {0} /\ Word \in Nat \ {0} /\ RebuildLines \in 0 .. Word - 1
  BY Sizes
<1>2. /\ mPC = 0 /\ old_pc = 0 /\ waits = 0 /\ at = "draw"
      /\ entered = 0 /\ interrupted = 0 /\ arrived = "stopped"
      /\ opt_step_instruction = FALSE /\ historyline = 0 /\ icount = 0
      /\ history = [i \in Lines |-> 0] /\ recent = [i \in 1 .. HistoryLines |-> 0]
      /\ lastclock = (0 - RebuildLines) % Word /\ missed = RebuildLines
  BY DEF Init
<1>3. recent \in Seq(Int) /\ Len(recent) = HistoryLines
  BY <1>1, <1>2
<1>4. lastclock \in 0 .. Word - 1 /\ (icount - lastclock) % Word = RebuildLines
  <2>1. icount \in 0 .. Word - 1 /\ lastclock = (icount - RebuildLines) % Word
    BY <1>1, <1>2
  <2> QED BY <2>1, RebuildCounts
<1>5. TypeOK
  <2>1. historyline \in Lines /\ history \in [Lines -> Int] /\ mPC \in Addresses
    BY <1>1, <1>2, Sizes DEF Lines
  <2>2. icount \in 0 .. Word - 1 /\ missed \in 0 .. Word
    BY <1>1, <1>2
  <2> QED BY <1>2, <1>3, <1>4, <2>1, <2>2 DEF TypeOK
<1>6. RingKeepsRecent
  <2> SUFFICES ASSUME NEW k \in Lines
               PROVE  history[LineBefore(historyline, k)] = recent[HistoryLines - k]
    BY DEF RingKeepsRecent
  <2>1. 0 \in Lines
    BY <1>1 DEF Lines
  <2>2. LineBefore(historyline, k) \in Lines
    BY <1>2, <2>1, LinesMoveBack
  <2>3. HistoryLines - k \in 1 .. HistoryLines
    BY <1>1 DEF Lines
  <2> QED BY <1>2, <2>2, <2>3
<1> QED BY <1>2, <1>4, <1>5, <1>6 DEF IInv, StepsBegin, ToldThere, Noted, CountsMissed, Unprinted

LEMMA NextIInv ==
    ASSUME IInv, [Next]_vars
    PROVE  IInv'
<1>1. TypeOK /\ StepsBegin /\ ToldThere /\ RingKeepsRecent /\ CountsMissed
  BY DEF IInv
<1>2. ASSUME UNCHANGED ring
      PROVE  /\ history' \in [Lines -> Int] /\ historyline' \in Lines
             /\ recent' \in Seq(Int) /\ Len(recent') = HistoryLines
             /\ icount' \in 0 .. Word - 1 /\ RingKeepsRecent'
  BY <1>1, <1>2 DEF ring, TypeOK, RingKeepsRecent, LineBefore
<1>3. ASSUME UNCHANGED <<icount, seen>>
      PROVE  lastclock' \in 0 .. Word - 1 /\ missed' \in 0 .. Word /\ CountsMissed'
  BY <1>1, <1>3 DEF seen, TypeOK, CountsMissed, Unprinted
<1>4. ASSUME NEW v, ChangeView(v), icount' = icount
      PROVE  lastclock' \in 0 .. Word - 1 /\ missed' \in 0 .. Word /\ CountsMissed'
  BY <1>1, <1>3, <1>4, RebuildKeeps DEF ChangeView, TypeOK
<1>5. ASSUME at = "key", mPC' \in Addresses, NEW space \in BOOLEAN, Proceed(space)
      PROVE  /\ at' \in {"loop", "draw"} /\ old_pc' \in Int
             /\ entered' = 0 /\ interrupted' \in Int
             /\ at' = "loop" => old_pc' = mPC'
  BY <1>1, <1>5, Sizes DEF Proceed, slot, TypeOK, StepsBegin

(* A tick.                                                                 *)
<1>6. ASSUME at = "loop", NEW ticked \in BOOLEAN, NEW next \in Addresses,
             NEW popup \in {"none", "ask", "exception"}, Turn(ticked, next, popup),
             waits' \in Nat,
             \/ ticked /\ StepEnds
             \/ ~ticked /\ next = mPC
                /\ IF InStep' THEN UNCHANGED <<entered, interrupted>> ELSE StepEnds
             \/ ~ticked
                /\ IF InStep' THEN entered' = entered + 1 /\ interrupted' = Noted ELSE StepEnds
      PROVE  IInv'
  <2> DEFINE done == ticked \/ ~opt_step_instruction
  <2>1. /\ mPC' = next /\ breakpoint' = breakpoint
        /\ opt_step_instruction' = opt_step_instruction
        /\ at' \in {"loop", "draw"} /\ old_pc' \in Int
        /\ at' = "loop" => old_pc' = IF done THEN next ELSE old_pc
        /\ ~done => at' = "loop"
        /\ done /\ next = breakpoint => arrived' = "stopped"
        /\ ~ticked /\ next = mPC => arrived' \in {arrived, "stopped"}
    BY <1>6, TurnKeeps
  <2>2. /\ history' \in [Lines -> Int] /\ historyline' \in Lines
        /\ recent' \in Seq(Int) /\ Len(recent') = HistoryLines
        /\ icount' \in 0 .. Word - 1 /\ lastclock' \in 0 .. Word - 1
        /\ missed' \in 0 .. Word
        /\ RingKeepsRecent' /\ CountsMissed'
    BY <1>6, TurnKeeps
  <2>3. /\ entered' \in Nat /\ interrupted' \in Int
        /\ InStep' <=> at' = "loop" /\ opt_step_instruction
        /\ done => entered' = 0
    BY <1>1, <1>6, <2>1, Sizes DEF TypeOK, StepsBegin, StepEnds, InStep, Noted
  <2>4. TypeOK'
    BY <1>1, <1>6, <2>1, <2>2, <2>3 DEF TypeOK
  <2>5. StepsBegin'
    BY <1>1, <1>6, <2>1, <2>3 DEF StepsBegin, StepEnds, Noted, TypeOK
  <2>6. ToldThere'
    BY <1>1, <1>6, <2>1, <2>3 DEF ToldThere, StepEnds, TypeOK
  <2> QED BY <2>2, <2>4, <2>5, <2>6 DEF IInv
<1>7. CASE TickWaits
  <2>1. waits' \in Nat
    BY <1>1, <1>7 DEF TickWaits, TypeOK
  <2>2. mPC \in Addresses
    BY <1>1 DEF TypeOK
  <2> QED BY <1>6, <1>7, <2>1, <2>2 DEF TickWaits
<1>8. ASSUME NEW popup \in {"none", "exception"}, TickEntersInterrupt(popup)
      PROVE  IInv'
  BY <1>6, <1>8, Sizes DEF TickEntersInterrupt, Noted
<1>9. ASSUME NEW popup \in {"none", "ask", "exception"}, TickExecutes(popup)
      PROVE  IInv'
  <2>1. waits' \in Nat
    BY <1>9, Sizes DEF TickExecutes
  <2> QED BY <1>6, <1>9, <2>1 DEF TickExecutes

(* Keys that leave the program where it is, and those that do not.         *)
<1>10. ASSUME at = "key", UNCHANGED <<cpu, breakpoint, ring, arrived>>,
              opt_step_instruction' \in BOOLEAN, NEW space \in BOOLEAN, Proceed(space),
              UNCHANGED seen \/ \E v \in {"main", "other"} : ChangeView(v)
       PROVE  IInv'
  <2>1. mPC' = mPC /\ waits' = waits /\ icount' = icount /\ mPC' \in Addresses
    BY <1>1, <1>10 DEF cpu, ring, TypeOK
  <2>2. /\ at' \in {"loop", "draw"} /\ entered' = 0 /\ interrupted' \in Int /\ old_pc' \in Int
        /\ at' = "loop" => old_pc' = mPC'
    BY <1>5, <1>10, <2>1
  <2>3. lastclock' \in 0 .. Word - 1 /\ missed' \in 0 .. Word /\ CountsMissed'
    BY <1>3, <1>4, <1>10, <2>1
  <2>4. TypeOK'
    BY <1>1, <1>2, <1>10, <2>1, <2>2, <2>3 DEF TypeOK
  <2>5. StepsBegin' /\ ToldThere'
    BY <1>1, <1>10, <2>1, <2>2 DEF StepsBegin, ToldThere, Noted
  <2> QED BY <1>2, <1>10, <2>3, <2>4, <2>5 DEF IInv
<1>11. CASE KeyStep \/ KeyRun \/ KeyNone \/ KeySpeed \/ KeyOption
  <2>1. opt_step_instruction' \in BOOLEAN /\ UNCHANGED <<cpu, breakpoint, ring, arrived, seen>>
    BY <1>1, <1>11
    DEF KeyStep, KeyRun, KeyNone, KeySpeed, KeyOption, KeepView, settings, TypeOK
  <2>2. at = "key" /\ \E space \in BOOLEAN : Proceed(space)
    BY <1>11 DEF KeyStep, KeyRun, KeyNone, KeySpeed, KeyOption
  <2> QED BY <1>10, <2>1, <2>2
<1>12. ASSUME NEW v \in {"main", "other"}, KeyView(v)
       PROVE  IInv'
  BY <1>1, <1>10, <1>12 DEF KeyView, settings, TypeOK
<1>13. CASE KeyReset
  <2>1. /\ mPC' = 0 /\ waits' = 0 /\ arrived' = "reset" /\ mPC' \in Addresses
        /\ UNCHANGED ring /\ UNCHANGED seen /\ icount' = icount
        /\ opt_step_instruction' = opt_step_instruction
    BY <1>13, Sizes DEF KeyReset, KeepView, settings, ring
  <2>2. /\ at' \in {"loop", "draw"} /\ entered' = 0 /\ interrupted' \in Int /\ old_pc' \in Int
        /\ at' = "loop" => old_pc' = mPC'
    BY <1>5, <1>13, <2>1 DEF KeyReset
  <2>3. TypeOK' /\ CountsMissed'
    BY <1>1, <1>2, <1>3, <2>1, <2>2 DEF TypeOK
  <2> QED BY <1>2, <2>1, <2>2, <2>3 DEF IInv, StepsBegin, ToldThere, Noted
<1>14. ASSUME Popup, mPC' \in Addresses, waits' \in Nat,
              opt_step_instruction' = opt_step_instruction
       PROVE  IInv'
  <2>1. /\ at' = "draw" /\ old_pc' = old_pc /\ arrived' = "stopped"
        /\ entered' = entered /\ interrupted' = interrupted
        /\ UNCHANGED ring /\ icount' = icount /\ ChangeView(view) /\ entered = 0
    BY <1>1, <1>14 DEF Popup, slot, ring, StepsBegin
  <2>2. lastclock' \in 0 .. Word - 1 /\ missed' \in 0 .. Word /\ CountsMissed'
    BY <1>4, <2>1
  <2>3. TypeOK'
    BY <1>1, <1>2, <1>14, <2>1, <2>2 DEF TypeOK
  <2> QED BY <1>2, <2>1, <2>2, <2>3 DEF IInv, StepsBegin, ToldThere, Noted
<1>15. CASE KeyBreakpoint \/ KeyGoto \/ KeyLoad \/ KeyHome
  BY <1>1, <1>14, <1>15, Sizes
  DEF KeyBreakpoint, KeyGoto, KeyLoad, KeyHome, cpu, settings, TypeOK
<1>16. CASE Draw
  <2>1. /\ at = "draw" /\ at' = "key" /\ mPC' = mPC /\ waits' = waits /\ breakpoint' = breakpoint
        /\ opt_step_instruction' = opt_step_instruction
        /\ entered' = entered /\ interrupted' = interrupted
        /\ old_pc' = old_pc /\ UNCHANGED ring /\ icount' = icount
        /\ arrived' \in {arrived, "stopped"}
        /\ (lastclock' = icount /\ missed' = 0) \/ UNCHANGED seen
    BY <1>16 DEF Draw, cpu, settings, slot, ring
  <2>2. lastclock' \in 0 .. Word - 1 /\ missed' \in 0 .. Word /\ CountsMissed'
    <3>1. CASE lastclock' = icount /\ missed' = 0
      <4>1. Word \in Nat \ {0} /\ icount \in 0 .. Word - 1
        BY <1>1, Sizes DEF TypeOK
      <4>2. (icount - icount) % Word = 0
        BY <4>1
      <4> QED BY <2>1, <3>1, <4>1, <4>2 DEF CountsMissed, Unprinted
    <3>2. CASE UNCHANGED seen
      BY <1>3, <2>1, <3>2
    <3> QED BY <2>1, <3>1, <3>2
  <2>3. TypeOK'
    BY <1>1, <1>2, <2>1, <2>2 DEF TypeOK
  <2> QED BY <1>1, <1>2, <2>1, <2>2, <2>3 DEF IInv, StepsBegin, ToldThere, Noted
<1>17. CASE UNCHANGED vars
  <2>1. UNCHANGED <<cpu, ring, seen, slot, settings, at, arrived>>
    BY <1>17 DEF vars
  <2>2. /\ mPC' = mPC /\ waits' = waits /\ breakpoint' = breakpoint /\ icount' = icount
        /\ opt_step_instruction' = opt_step_instruction
        /\ entered' = entered /\ interrupted' = interrupted
        /\ old_pc' = old_pc /\ at' = at /\ arrived' = arrived
    BY <2>1 DEF cpu, settings, slot, ring
  <2>3. TypeOK' /\ CountsMissed'
    BY <1>1, <1>2, <1>3, <2>1, <2>2 DEF TypeOK
  <2> QED BY <1>1, <1>2, <2>1, <2>2, <2>3 DEF IInv, StepsBegin, ToldThere, Noted
<1> QED
  BY <1>7, <1>8, <1>9, <1>11, <1>12, <1>13, <1>15, <1>16, <1>17 DEF Next, Tick, Key

-----------------------------------------------------------------------------
LEMMA Invariant == Spec => []IInv
<1>1. Init => IInv
  BY InitIInv
<1>2. IInv /\ [Next]_vars => IInv'
  BY NextIInv
<1> QED BY <1>1, <1>2, PTL DEF Spec

(* The instruction at the breakpoint is not executed before the user was   *)
(* stopped there, whatever keys set the breakpoint or moved the program    *)
(* counter, unless an interrupt led to it within an instruction step, or   *)
(* it is at 0 and a reset in run mode went there (emu.c:436-443, 467-512). *)
THEOREM StopsAtBreakpoint == Spec => BreakpointStops
<1>1. IInv /\ [Next]_vars
        => [(at = "loop" /\ icount' # icount /\ mPC = breakpoint /\ entered = 0) =>
              \/ arrived = "stopped"
              \/ arrived = "reset" /\ mPC = 0]_vars
  BY DEF IInv, ToldThere
<1> QED BY <1>1, Invariant, PTL DEF Spec, BreakpointStops

(* The lines printed are the last ones recorded, as long as fewer ran than *)
(* the counter can tell apart.                                             *)
LEMMA ReplayIsRecent ==
    ASSUME IInv, missed < Word
    PROVE  LET n == IF missed < HistoryLines THEN missed ELSE HistoryLines
           IN  Replay(history, historyline, Printable)
                 = SubSeq(recent, HistoryLines - n + 1, HistoryLines)
<1> DEFINE n       == IF missed < HistoryLines THEN missed ELSE HistoryLines
           printed == Replay(history, historyline, Printable)
           newest  == SubSeq(recent, HistoryLines - n + 1, HistoryLines)
<1>1. /\ HistoryLines \in Nat \ {0} /\ Word \in Nat /\ missed \in Nat
      /\ historyline \in Lines /\ RingKeepsRecent /\ Unprinted = missed
      /\ recent \in Seq(Int) /\ Len(recent) = HistoryLines
  BY Sizes DEF IInv, TypeOK, CountsMissed
<1>2. Printable = n /\ n \in 0 .. HistoryLines
  BY <1>1 DEF Printable
<1> HIDE DEF n
<1>3. printed = [i \in 1 .. n |->
                   history[(historyline - n + HistoryLines + i) % HistoryLines]]
  BY <1>2 DEF Replay
<1>4. newest = [i \in 1 .. n |-> recent[HistoryLines - n + i]]
  <2> DEFINE m == HistoryLines - n + 1
  <2>1. /\ newest = [i \in 1 .. HistoryLines - m + 1 |-> recent[i + m - 1]]
    BY <1>1, <1>2
  <2>2. HistoryLines - m + 1 = n /\ \A i \in 1 .. n : i + m - 1 = HistoryLines - n + i
    BY <1>1, <1>2
  <2> HIDE DEF m
  <2> QED BY <2>1, <2>2
<1>5. ASSUME NEW i \in 1 .. n
      PROVE  history[(historyline - n + HistoryLines + i) % HistoryLines]
               = recent[HistoryLines - n + i]
  <2> DEFINE k == n - i
  <2>1. k \in Lines
    BY <1>1, <1>2 DEF Lines
  <2>2. historyline - n + HistoryLines + i = historyline - k + HistoryLines
    BY <1>1, <1>2 DEF Lines
  <2>3. HistoryLines - n + i = HistoryLines - k
    BY <1>1, <1>2
  <2> HIDE DEF k
  <2>4. history[LineBefore(historyline, k)] = recent[HistoryLines - k]
    BY <1>1, <2>1 DEF RingKeepsRecent
  <2> QED BY <2>2, <2>3, <2>4 DEF LineBefore
<1>6. printed = newest
  BY <1>3, <1>4, <1>5
<1> QED BY <1>6 DEF n

(* Whenever the main view prints the history, it prints what ran, in order *)
(* and none twice, in every behaviour of the main loop; a line whose step  *)
(* entered interrupts has the address they interrupted (emu.c:482-511,     *)
(* mainview.c:473-491).                                                    *)
THEOREM HistoryIsTrue == Spec => PrintsWhatRan
<1>1. IInv /\ [Next]_vars
        => [(at = "draw" /\ Prints /\ missed < Word) =>
             LET n == IF missed < HistoryLines THEN missed ELSE HistoryLines
             IN  Replay(history, historyline, Printable)
                   = SubSeq(recent, HistoryLines - n + 1, HistoryLines)]_vars
  BY ReplayIsRecent
<1> QED BY <1>1, Invariant, PTL DEF Spec, PrintsWhatRan
=============================================================================
