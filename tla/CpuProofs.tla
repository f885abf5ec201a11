------------------------------ MODULE CpuProofs ------------------------------
(***************************************************************************)
(* The theorems about TickCore, for every set of interrupt sources and     *)
(* every program, and before them the one about its arbitration: whatever  *)
(* is pending and whatever the priorities, the five tests of               *)
(* handle_interrupts choose the request that comes first.  At the end,     *)
(* those about the arithmetic of the same CPU (Alu), for every operand.    *)
(***************************************************************************)
EXTENDS TickCore, Alu, TLAPS

(* What holds of the candidate once the sources of "seen" were polled: it  *)
(* is the first of the pending ones among them, and "hi" is its level; but *)
(* a high-level candidate also precedes every source not polled yet.       *)
Candidate(a, seen, pending, ip) ==
    /\ a \in [dest : Vectors \cup {NoVector}, lo : BOOLEAN, hi : BOOLEAN]
    /\ a.lo <=> pending \cap seen # {}
    /\ ~a.lo => a.dest = NoVector /\ ~a.hi
    /\ a.lo => /\ IsFirst(a.dest, pending \cap seen, ip)
               /\ a.dest \in seen
               /\ a.hi <=> a.dest \in ip

(* Polling one more source, later than all that were polled, keeps the     *)
(* candidate the first of the pending ones (one of the five tests,         *)
(* core.c:281-335).                                                        *)
LEMMA PollKeepsFirst ==
    ASSUME NEW a, NEW seen \in SUBSET Vectors, NEW v \in Vectors \ seen,
           NEW pending, NEW ip,
           \A w \in seen : Rank[w] < Rank[v],
           Candidate(a, seen, pending, ip)
    PROVE  Candidate(Poll(a, v, pending, ip), seen \cup {v}, pending, ip)
<1> DEFINE b == Poll(a, v, pending, ip)
<1>0. b \in [dest : Vectors \cup {NoVector}, lo : BOOLEAN, hi : BOOLEAN]
  BY DEF Candidate, Poll
<1> SUFFICES Candidate(b, seen \cup {v}, pending, ip)
  OBVIOUS
<1>1. CASE v \notin pending
  <2>1. b = a /\ pending \cap (seen \cup {v}) = pending \cap seen
    BY <1>1 DEF Poll
  <2> HIDE DEF b
  <2> QED BY <2>1 DEF Candidate
<1>2. CASE v \in pending /\ a.hi
  <2>1. b = a /\ a.lo /\ a.dest \in ip /\ a.dest \in seen
    BY <1>2 DEF Poll, Candidate
  <2>2. Precedes(a.dest, v, ip)
    BY <2>1 DEF Precedes
  <2>3. \A w \in pending \cap (seen \cup {v}) :
           w \in (pending \cap seen) \cup {v}
    OBVIOUS
  <2> HIDE DEF b
  <2> QED BY <1>2, <2>1, <2>2, <2>3 DEF Candidate, IsFirst
<1>3. CASE v \in pending /\ ~a.hi
  <2>1. b = [dest |-> IF a.lo /\ v \notin ip THEN a.dest ELSE v,
             lo |-> TRUE, hi |-> v \in ip]
    BY <1>3 DEF Poll
  <2> HIDE DEF b
  <2>2. CASE ~a.lo
    <3>1. b.dest = v /\ pending \cap (seen \cup {v}) = {v}
      BY <1>3, <2>1, <2>2 DEF Candidate
    <3> QED BY <1>0, <1>3, <2>1, <2>2, <3>1 DEF Candidate, IsFirst
  <2>3. CASE a.lo /\ v \notin ip
    <3>1. a.dest \notin ip /\ a.dest \in seen /\ b.dest = a.dest
      BY <1>3, <2>1, <2>3 DEF Candidate
    <3>2. Precedes(a.dest, v, ip)
      BY <2>3, <3>1 DEF Precedes
    <3> QED BY <1>0, <1>3, <2>1, <2>3, <3>1, <3>2 DEF Candidate, IsFirst
  <2>4. CASE a.lo /\ v \in ip
    <3>1. b.dest = v /\ a.dest \notin ip
      BY <1>3, <2>1, <2>4 DEF Candidate
    <3>2. \A w \in pending \cap seen : w \notin ip
      BY <2>4, <3>1 DEF Candidate, IsFirst, Precedes
    <3>3. \A w \in pending \cap seen : Precedes(v, w, ip)
      BY <2>4, <3>2 DEF Precedes
    <3> QED BY <1>0, <1>3, <2>1, <2>4, <3>1, <3>3 DEF Candidate, IsFirst
  <2> QED BY <2>2, <2>3, <2>4
<1> QED BY <1>1, <1>2, <1>3

(* handle_interrupts serves the pending request that comes first, at the   *)
(* level its IP bit gives it, and nothing when nothing is pending.         *)
THEOREM ArbitrateIsFirst ==
    ASSUME NEW pending \in SUBSET Vectors, NEW ip
    PROVE  LET a == Arbitrate(pending, ip)
           IN  IF pending = {} THEN a.dest = NoVector
               ELSE /\ IsFirst(a.dest, pending, ip)
                    /\ a.dest \in Vectors
                    /\ a.hi \in BOOLEAN
                    /\ a.hi <=> a.dest \in ip
<1> DEFINE a0 == [dest |-> NoVector, lo |-> FALSE, hi |-> FALSE]
           a1 == Poll(a0, "ISR_INT0", pending, ip)
           a2 == Poll(a1, "ISR_TF0", pending, ip)
           a3 == Poll(a2, "ISR_INT1", pending, ip)
           a4 == Poll(a3, "ISR_TF1", pending, ip)
           a5 == Poll(a4, "ISR_SR", pending, ip)
<1>0. Candidate(a0, {}, pending, ip)
  BY DEF Candidate
<1> HIDE DEF a0
<1>1. Candidate(a1, {"ISR_INT0"}, pending, ip)
  BY <1>0, PollKeepsFirst, {} \cup {"ISR_INT0"} = {"ISR_INT0"} DEF Vectors
<1> HIDE DEF a1
<1>2. Candidate(a2, {"ISR_INT0"} \cup {"ISR_TF0"}, pending, ip)
  BY <1>1, PollKeepsFirst DEF Vectors, Rank
<1> HIDE DEF a2
<1>3. Candidate(a3, {"ISR_INT0", "ISR_TF0"} \cup {"ISR_INT1"}, pending, ip)
  <2>1. {"ISR_INT0"} \cup {"ISR_TF0"} = {"ISR_INT0", "ISR_TF0"}
    OBVIOUS
  <2> QED BY <1>2, <2>1, PollKeepsFirst DEF Vectors, Rank
<1> HIDE DEF a3
<1>4. Candidate(a4, {"ISR_INT0", "ISR_TF0", "ISR_INT1"} \cup {"ISR_TF1"}, pending, ip)
  <2>1. {"ISR_INT0", "ISR_TF0"} \cup {"ISR_INT1"} = {"ISR_INT0", "ISR_TF0", "ISR_INT1"}
    OBVIOUS
  <2> QED BY <1>3, <2>1, PollKeepsFirst DEF Vectors, Rank
<1> HIDE DEF a4
<1>5. Candidate(a5, {"ISR_INT0", "ISR_TF0", "ISR_INT1", "ISR_TF1"} \cup {"ISR_SR"},
                pending, ip)
  <2>1. {"ISR_INT0", "ISR_TF0", "ISR_INT1"} \cup {"ISR_TF1"}
          = {"ISR_INT0", "ISR_TF0", "ISR_INT1", "ISR_TF1"}
    OBVIOUS
  <2> QED BY <1>4, <2>1, PollKeepsFirst DEF Vectors, Rank
<1>6. a5 = Arbitrate(pending, ip)
  BY DEF Arbitrate, a0, a1, a2, a3, a4
<1> HIDE DEF a5
<1>7. pending \cap ({"ISR_INT0", "ISR_TF0", "ISR_INT1", "ISR_TF1"} \cup {"ISR_SR"})
        = pending
  BY DEF Vectors
<1>8. Candidate(a5, Vectors, pending, ip) /\ pending \cap Vectors = pending
  BY <1>5, <1>7 DEF Vectors
<1> QED BY <1>6, <1>8 DEF Candidate

-----------------------------------------------------------------------------
(* The values of mInterruptActive as the stacks of levels they stand for.  *)
LEMMA RoutinesOfValue ==
    ASSUME NEW n \in 0..3
    PROVE  RoutinesOf(n) = IF n = 0 THEN << >>
                           ELSE IF n = 1 THEN <<0>>
                           ELSE IF n = 2 THEN <<1>> ELSE <<0, 1>>
<1>1. 0 % 2 = 0 /\ 1 % 2 = 1 /\ 2 % 2 = 0 /\ 3 % 2 = 1
  OBVIOUS
<1>3. CASE n = 0
  BY <1>1, <1>3 DEF RoutinesOf
<1>4. CASE n = 1
  BY <1>1, <1>4 DEF RoutinesOf
<1>5. CASE n = 2
  BY <1>1, <1>5 DEF RoutinesOf
<1>6. CASE n = 3
  BY <1>1, <1>6 DEF RoutinesOf
<1> QED BY <1>3, <1>4, <1>5, <1>6

-----------------------------------------------------------------------------
(* How many more routines can still be entered above those in progress. *)
Headroom == IF mInterruptActive = 0 THEN 2 ELSE IF mInterruptActive = 1 THEN 1 ELSE 0

(* Ticks that can still pass before the next boundary. *)
Remaining == IF mTickDelay <= 1 THEN 0 ELSE mTickDelay - 1

(* The ticks waited, those still to wait, and two for each routine that    *)
(* can still be entered, never exceed six: entering one costs a tick, adds *)
(* one to wait for, and uses up one level.  StepBounded alone is not       *)
(* inductive, for it says nothing of what is still to come.                *)
StepBudget == waited + Remaining + 2 * Headroom <= 6

IInv == TypeOK /\ StepBudget

-----------------------------------------------------------------------------
(* The timers and the serial port raise no request but those of the        *)
(* instance's sources (timer_tick, core.c:57-267).                         *)
LEMMA TimerEffectType ==
    ASSUME NEW req \in SUBSET Sources, NEW ie \in SUBSET Bits,
           NEW q \in TimerEffect(Sources, req, ie)
    PROVE  q \in SUBSET Sources
BY DEF TimerEffect, Bits

(* What is chosen is one of the instance's sources, or nothing.            *)
LEMMA ChosenType ==
    ASSUME TypeOK
    PROVE  /\ Chosen.dest # NoVector => Chosen.dest \in Pending(IE, request)
           /\ Pending(IE, request) \in SUBSET Sources
           /\ Pending(IE, request) # {} => Chosen.hi \in BOOLEAN
           /\ Pending(IE, request) = {} => Chosen.dest = NoVector
<1>1. Pending(IE, request) \in SUBSET Sources
  BY DEF Pending, TypeOK
<1>2. Pending(IE, request) \in SUBSET Vectors
  BY <1>1, SourcesAssumption
<1> DEFINE p == Pending(IE, request)
<1> HIDE DEF p
<1>3. p \in SUBSET Vectors
  BY <1>2 DEF p
<1>4. LET a == Arbitrate(p, IP)
      IN  IF p = {} THEN a.dest = NoVector
          ELSE /\ IsFirst(a.dest, p, IP)
               /\ a.dest \in Vectors
               /\ a.hi \in BOOLEAN
               /\ a.hi <=> a.dest \in IP
  BY <1>3, ArbitrateIsFirst
<1>5. Chosen = Arbitrate(p, IP)
  BY DEF Chosen, p
<1>6. /\ Chosen.dest # NoVector => Chosen.dest \in p
      /\ p # {} => Chosen.hi \in BOOLEAN
      /\ p = {} => Chosen.dest = NoVector
  BY <1>4, <1>5 DEF IsFirst
<1> QED BY <1>1, <1>6 DEF p

(* A routine is only entered if its level is free: the facts about an      *)
(* interrupting tick that every proof below needs.                         *)
LEMMA InterruptFacts ==
    ASSUME TypeOK, InterruptTick
    PROVE  /\ Chosen.dest \in Pending(IE, request)
           /\ Chosen.dest \in Sources
           /\ Chosen.hi \in BOOLEAN
           /\ \/ mInterruptActive = 0 /\ ~Chosen.hi /\ mInterruptActive' = 1
              \/ mInterruptActive = 0 /\ Chosen.hi /\ mInterruptActive' = 2
              \/ mInterruptActive = 1 /\ Chosen.hi /\ mInterruptActive' = 3
<1>1. Chosen.dest # NoVector /\ mInterruptActive <= 1 /\ (mInterruptActive = 1 => Chosen.hi)
  BY DEF InterruptTick, TakesInterrupt, Admits
<1>2. Chosen.dest \in Pending(IE, request) /\ Chosen.dest \in Sources /\ Chosen.hi \in BOOLEAN
  BY <1>1, ChosenType
<1>3. mInterruptActive \in {0, 1}
  BY <1>1 DEF TypeOK
<1>4. mInterruptActive' = SetLevel(mInterruptActive, Chosen.hi)
  BY DEF InterruptTick
<1> QED BY <1>1, <1>2, <1>3, <1>4 DEF SetLevel

-----------------------------------------------------------------------------
LEMMA InitIInv == Init => IInv
BY PconBitsAssumption
DEF Init, IInv, TypeOK, StepBudget, Remaining, Headroom, Expired, Bits

(* An instruction starts the wait anew, so it keeps the budget whatever    *)
(* its delay.                                                              *)
LEMMA InstructionIInv ==
    ASSUME IInv, Instruction
    PROVE  IInv'
<1> USE DEF Executes
<1>1. IE' \subseteq Bits /\ IP' \subseteq Sources /\ PCON' \subseteq PconBits
  BY DEF IInv, TypeOK, Instruction, PlainOp, WriteIE, WriteIP, WriteTCON, WritePCON, Reti
<1>2. request' \subseteq Sources
  <2>1. \E req \in SUBSET Sources, ie \in SUBSET Bits : request' \in TimerEffect(Sources, req, ie)
    <3>1. CASE PlainOp BY <3>1 DEF IInv, TypeOK, PlainOp
    <3>2. CASE WriteIE BY <3>2 DEF IInv, TypeOK, WriteIE
    <3>3. CASE WriteIP BY <3>3 DEF IInv, TypeOK, WriteIP
    <3>4. CASE WriteTCON
      <4>1. PICK raised \in SUBSET TconFlags :
               request' \in TimerEffect(Sources, raised \cup (request \cap {"ISR_SR"}), IE)
        BY <3>4 DEF WriteTCON
      <4>2. raised \cup (request \cap {"ISR_SR"}) \in SUBSET Sources
        BY DEF IInv, TypeOK, TconFlags
      <4> QED BY <4>1, <4>2 DEF IInv, TypeOK
    <3>5. CASE WritePCON BY <3>5 DEF IInv, TypeOK, WritePCON
    <3>6. CASE Reti BY <3>6 DEF IInv, TypeOK, Reti
    <3> QED BY <3>1, <3>2, <3>3, <3>4, <3>5, <3>6 DEF Instruction
  <2> QED BY <2>1, TimerEffectType
<1>3. mTickDelay' \in {0, 1, 3} /\ mPC' = "program" /\ waited' = 0
  BY ShortDelaysAssumption
  DEF Instruction, PlainOp, OpDelays, WriteIE, WriteIP, WriteTCON, WritePCON, Reti
<1>4. mInterruptActive' \in 0..3
  BY DEF IInv, TypeOK, Instruction, PlainOp, WriteIE, WriteIP, WriteTCON, WritePCON, Reti,
         ClearLevel
<1>5. StepBudget'
  <2>1. Remaining' \in {0, 1, 2}
    BY <1>3 DEF Remaining
  <2>2. Headroom' \in {0, 1, 2}
    BY <1>4 DEF Headroom
  <2>3. \A r, h \in {0, 1, 2} : 0 + r + 2 * h <= 6
    OBVIOUS
  <2> QED BY <1>3, <2>1, <2>2, <2>3 DEF StepBudget
<1> QED BY <1>1, <1>2, <1>3, <1>4, <1>5 DEF IInv, TypeOK

(* The digits of the editors stay within the bits of the registers.        *)
LEMMA EditType ==
    ASSUME TypeOK, Edit
    PROVE  /\ IE' \subseteq Bits /\ IP' \subseteq Sources
           /\ request' \subseteq Sources /\ PCON' \subseteq PconBits
           /\ UNCHANGED <<mInterruptActive, mTickDelay, mPC, waited>>
<1>1. ASSUME NEW r, NEW bits, NEW upper, NEW q \in Typed(r, bits, upper)
      PROVE  q \subseteq r \cup bits
  BY <1>1 DEF Typed
<1>2. CASE IE' \in Typed(IE, Bits, {"EA", "ISR_SR"}) /\ UNCHANGED <<IP, request, PCON>>
  BY <1>1, <1>2 DEF TypeOK, Edit
<1>3. CASE IP' \in Typed(IP, Sources, {"ISR_SR"}) /\ UNCHANGED <<IE, request, PCON>>
  BY <1>1, <1>3 DEF TypeOK, Edit
<1>4. CASE /\ request' \in Typed(request, TconFlags, {"ISR_TF0", "ISR_TF1"})
           /\ UNCHANGED <<IE, IP, PCON>>
  <2>1. request' \subseteq request \cup TconFlags
    BY <1>1, <1>4
  <2> QED BY <1>4, <2>1 DEF TypeOK, Edit, TconFlags
<1>5. CASE PCON' \in Typed(PCON, PconBits, {"POF"}) /\ UNCHANGED <<IE, IP, request>>
  BY <1>1, <1>5 DEF TypeOK, Edit
<1> QED BY <1>2, <1>3, <1>4, <1>5 DEF Edit

LEMMA NextIInv == IInv /\ [Next]_vars => IInv'
<1> SUFFICES ASSUME IInv, [Next]_vars PROVE IInv'
  OBVIOUS
<1>1. CASE WaitTick
  <2>1. request' \in SUBSET Sources
    BY <1>1, TimerEffectType DEF WaitTick, IInv, TypeOK
  <2>2. TypeOK'
    BY <1>1, <2>1 DEF WaitTick, Expired, IInv, TypeOK
  <2>3. StepBudget'
    BY <1>1 DEF WaitTick, Expired, IInv, TypeOK, StepBudget, Remaining, Headroom
  <2> QED BY <2>2, <2>3 DEF IInv
<1>2. CASE PowerDownTick
  BY <1>2 DEF PowerDownTick, Expired, IInv, TypeOK, StepBudget, Remaining, Headroom
<1>3. CASE InterruptTick
  <2>1. /\ Chosen.dest \in Sources
        /\ \/ mInterruptActive = 0 /\ mInterruptActive' = 1
           \/ mInterruptActive = 0 /\ mInterruptActive' = 2
           \/ mInterruptActive = 1 /\ mInterruptActive' = 3
    BY <1>3, InterruptFacts DEF IInv
  <2>2. request' \in SUBSET Sources
    <3>1. Acknowledge(request, Chosen.dest) \in SUBSET Sources
      BY DEF Acknowledge, IInv, TypeOK
    <3> QED BY <1>3, <3>1, TimerEffectType DEF InterruptTick, IInv, TypeOK
  <2>3. /\ Expired
        /\ PCON' = PCON \ {"IDL"} /\ mPC' = Chosen.dest /\ mTickDelay' = 2
        /\ waited' = waited + 1 /\ IE' = IE /\ IP' = IP
    BY <1>3 DEF InterruptTick, TakesInterrupt, Wake, VectorDelay
  <2>4. TypeOK'
    BY <2>1, <2>2, <2>3 DEF IInv, TypeOK
  <2>5. StepBudget'
    BY <2>1, <2>3 DEF Expired, IInv, TypeOK, StepBudget, Remaining, Headroom
  <2> QED BY <2>4, <2>5 DEF IInv
<1>4. CASE IdleTick
  <2>1. request' \in SUBSET Sources
    BY <1>4, TimerEffectType DEF IdleTick, IInv, TypeOK
  <2> QED BY <1>4, <2>1 DEF IdleTick, IInv, TypeOK, Expired, StepBudget, Remaining, Headroom
<1>5. CASE Instruction
  BY <1>5, InstructionIInv
<1>6. CASE \E aWipe \in BOOLEAN : Reset(aWipe)
  BY <1>6, PconBitsAssumption
  DEF Reset, IInv, TypeOK, Expired, StepBudget, Remaining, Headroom, Bits
<1>7. CASE Edit
  <2>1. TypeOK'
    BY <1>7, EditType DEF IInv, TypeOK
  <2> QED BY <1>7, <2>1, EditType DEF IInv, StepBudget, Remaining, Headroom
<1>8. CASE UNCHANGED vars
  BY <1>8 DEF vars, registers, IInv, TypeOK, StepBudget, Remaining, Headroom
<1> QED BY <1>1, <1>2, <1>3, <1>4, <1>5, <1>6, <1>7, <1>8 DEF Next, Tick

LEMMA IInvHolds == Spec => []IInv
<1> QED BY InitIInv, NextIInv, PTL DEF Spec

-----------------------------------------------------------------------------
(* Every variable of the CPU's control keeps its type: in particular       *)
(* mInterruptActive never leaves 0..3 and no delay exceeds three ticks.    *)
THEOREM TypeCorrect == Spec => []TypeOK
<1>1. IInv => TypeOK
  BY DEF IInv
<1> QED BY <1>1, IInvHolds, PTL

(* The wait of a single step ends: tick() returns false at most six times  *)
(* in a row, for every program and every timing of the requests.           *)
THEOREM StepTerminates == Spec => []StepBounded
<1>1. IInv => StepBounded
  BY DEF IInv, TypeOK, StepBudget, StepBounded, Remaining, Headroom
<1> QED BY <1>1, IInvHolds, PTL

(* No tick and no reset leaves the CPU idle or powered down with ticks to  *)
(* wait: either it was so before, or the user typed the bit during the     *)
(* wait.                                                                   *)
THEOREM LowPower == Spec => LowPowerAtBoundary
<1> DEFINE A == (Asleep' /\ ~Expired') => (Asleep /\ ~Expired) \/ Edit
<1>1. [Next]_vars => [A]_vars
  <2> SUFFICES ASSUME Next PROVE A
    OBVIOUS
  <2>1. CASE WaitTick
    BY <2>1 DEF WaitTick, Asleep
  <2>2. CASE PowerDownTick \/ IdleTick
    BY <2>2 DEF PowerDownTick, IdleTick, Expired
  <2>3. CASE InterruptTick
    BY <2>3 DEF InterruptTick, TakesInterrupt, Wake, Asleep
  <2>4. CASE PlainOp
    BY <2>4 DEF PlainOp, Executes, AtBoundary, Asleep
  <2>5. CASE WriteIE \/ WriteIP \/ WriteTCON \/ WritePCON \/ Reti
    <3>1. mTickDelay' \in {0, 1}
      BY <2>5, ShortDelaysAssumption
      DEF WriteIE, WriteIP, WriteTCON, WritePCON, Reti, Executes
    <3> QED BY <3>1 DEF Expired
  <2>6. CASE \E aWipe \in BOOLEAN : Reset(aWipe)
    BY <2>6 DEF Reset, Expired
  <2> QED BY <2>1, <2>2, <2>3, <2>4, <2>5, <2>6 DEF Next, Tick, Instruction
<1> HIDE DEF A
<1>2. Spec => [][A]_vars
  BY <1>1, PTL DEF Spec
<1> QED BY <1>2 DEF LowPowerAtBoundary, A

-----------------------------------------------------------------------------
(* The only step that raises mInterruptActive is an interrupting tick.     *)
LEMMA OnlyInterruptEnters ==
    ASSUME TypeOK, Next, mInterruptActive' > mInterruptActive
    PROVE  InterruptTick
<1>1. CASE WaitTick \/ PowerDownTick \/ IdleTick
  BY <1>1 DEF WaitTick, PowerDownTick, IdleTick, TypeOK
<1>2. CASE Instruction
  <2>1. mInterruptActive' \in {mInterruptActive, ClearLevel(mInterruptActive)}
    BY <1>2 DEF Instruction, PlainOp, WriteIE, WriteIP, WriteTCON, WritePCON, Reti
  <2> QED BY <2>1 DEF ClearLevel, TypeOK
<1>3. CASE \E aWipe \in BOOLEAN : Reset(aWipe)
  BY <1>3 DEF Reset, TypeOK
<1>4. CASE Edit
  BY <1>4 DEF Edit, TypeOK
<1> QED BY <1>1, <1>2, <1>3, <1>4 DEF Next, Tick

(* Whenever a routine is entered, its request was the first of those that  *)
(* were pending (handle_interrupts, core.c:279-343).                       *)
THEOREM ServesFirst == Spec => ServesFirstRequest
<1> DEFINE A == mInterruptActive' > mInterruptActive
                  => IsFirst(mPC', Pending(IE, request), IP)
<1>1. IInv /\ [Next]_vars => [A]_vars
  <2> SUFFICES ASSUME IInv, Next, mInterruptActive' > mInterruptActive
               PROVE  IsFirst(mPC', Pending(IE, request), IP)
    OBVIOUS
  <2>1. InterruptTick
    BY OnlyInterruptEnters DEF IInv
  <2>2. Chosen.dest \in Pending(IE, request) /\ mPC' = Chosen.dest
    BY <2>1, InterruptFacts DEF IInv, InterruptTick
  <2>3. Pending(IE, request) \in SUBSET Vectors
    BY SourcesAssumption DEF IInv, TypeOK, Pending
  <2>4. IsFirst(Arbitrate(Pending(IE, request), IP).dest, Pending(IE, request), IP)
    BY <2>2, <2>3, ArbitrateIsFirst
  <2> QED BY <2>2, <2>4 DEF Chosen
<1> HIDE DEF A
<1>2. Spec => [][A]_vars
  BY IInvHolds, <1>1, PTL DEF Spec
<1> QED BY <1>2 DEF ServesFirstRequest, A

(* In power-down a CPU at a boundary returns from tick() before it looks   *)
(* at requests, timers or the program: only a reset or the user's typing   *)
(* changes anything (core.c:394-398).                                      *)
THEOREM PowerDownIsFrozen == Spec => PowerDownFreezes
<1> DEFINE A == ("PD" \in PCON /\ Expired)
                  => UNCHANGED <<registers, mInterruptActive, mPC>> \/ Edit \/ IsReset
<1>1. IInv /\ [Next]_vars => [A]_vars
  <2> SUFFICES ASSUME Next, "PD" \in PCON, Expired, ~IsReset, ~Edit
               PROVE  UNCHANGED <<registers, mInterruptActive, mPC>>
    OBVIOUS
  <2>1. ~WaitTick /\ ~InterruptTick /\ ~IdleTick
    BY DEF WaitTick, InterruptTick, TakesInterrupt, IdleTick, AtBoundary
  <2>2. ~Instruction
    BY DEF Instruction, PlainOp, WriteIE, WriteIP, WriteTCON, WritePCON, Reti, Executes,
           AtBoundary
  <2>3. PowerDownTick
    BY <2>1, <2>2 DEF Next, Tick, IsReset
  <2> QED BY <2>3 DEF PowerDownTick, registers
<1> HIDE DEF A
<1>2. Spec => [][A]_vars
  BY IInvHolds, <1>1, PTL DEF Spec
<1> QED BY <1>2 DEF PowerDownFreezes, A

-----------------------------------------------------------------------------
(* timer_tick takes no request away but that of timer 1, which clocks the  *)
(* serial port (core.c:57-267).                                            *)
LEMMA TimerEffectKeeps ==
    ASSUME NEW sources, NEW req, NEW ie,
           NEW q \in TimerEffect(sources, req, ie),
           NEW v \in req, v # "ISR_TF1"
    PROVE  v \in q
BY DEF TimerEffect

(* A request of timer 0 or of the serial port waits for its own routine:   *)
(* the sources polled before it, RETI, idle and power-down lose none, and  *)
(* only the program or the user, through TCON, or a reset takes one back   *)
(* (core.c:269-384).                                                       *)
THEOREM KeepsRequests == Spec => RequestsKept
<1> DEFINE A == \A v \in {"ISR_TF0", "ISR_SR"} :
                  v \in request /\ v \notin request'
                    => \/ mPC' = v
                       \/ v = "ISR_TF0" /\ (WriteTCON \/ Edit)
                       \/ IsReset
<1>1. IInv /\ [Next]_vars => [A]_vars
  <2> SUFFICES ASSUME IInv, Next, ~IsReset,
                      NEW v \in {"ISR_TF0", "ISR_SR"},
                      v \in request, v \notin request'
               PROVE  mPC' = v \/ (v = "ISR_TF0" /\ (WriteTCON \/ Edit))
    OBVIOUS
  <2>1. v # "ISR_TF1"
    OBVIOUS
  <2>2. \A req, ie : v \in req => request' \notin TimerEffect(Sources, req, ie)
    BY <2>1, TimerEffectKeeps
  <2>3. CASE WaitTick \/ PowerDownTick \/ IdleTick
    BY <2>2, <2>3 DEF WaitTick, PowerDownTick, IdleTick
  <2>4. CASE InterruptTick
    <3>1. request' \in TimerEffect(Sources, Acknowledge(request, Chosen.dest), IE)
      BY <2>4 DEF InterruptTick
    <3>2. v \notin Acknowledge(request, Chosen.dest)
      BY <2>2, <3>1
    <3>3. v = Chosen.dest
      BY <3>2 DEF Acknowledge
    <3> QED BY <2>4, <3>3 DEF InterruptTick
  <2>5. CASE WriteTCON
    <3>1. PICK raised \in SUBSET TconFlags :
             request' \in TimerEffect(Sources, raised \cup (request \cap {"ISR_SR"}), IE)
      BY <2>5 DEF WriteTCON
    <3>2. v \notin raised \cup (request \cap {"ISR_SR"})
      BY <2>2, <3>1
    <3> QED BY <2>5, <3>2
  <2>7. CASE Edit
    <3>1. v = "ISR_SR" => v \in request'
      BY <2>7 DEF Edit, Typed, TconFlags
    <3> QED BY <2>7, <3>1
  <2>6. CASE PlainOp \/ WriteIE \/ WriteIP \/ WritePCON \/ Reti
    BY <2>2, <2>6 DEF PlainOp, WriteIE, WriteIP, WritePCON, Reti
  <2> QED BY <2>3, <2>4, <2>5, <2>6, <2>7 DEF Next, Tick, Instruction, IsReset
<1> HIDE DEF A
<1>2. Spec => [][A]_vars
  BY IInvHolds, <1>1, PTL DEF Spec
<1> QED BY <1>2 DEF RequestsKept, A

-----------------------------------------------------------------------------
(* The two bits of mInterruptActive implement the priority stack: a        *)
(* routine is interrupted only by one of a higher level, and RETI ends the *)
(* one entered last.                                                       *)
THEOREM ImplementsPriorityNest == Spec => NestSpec
<1>1. Init => Nest!Init
  BY RoutinesOfValue DEF Init, InProgress, Nest!Init
<1>2. IInv /\ [Next]_vars => [Nest!Next]_InProgress /\ [Nest!Step \/ IsReset]_InProgress
  <2> SUFFICES ASSUME IInv, [Next]_vars, InProgress' # InProgress
               PROVE  Nest!Next /\ (Nest!Step \/ IsReset)
    OBVIOUS
  <2>0. TypeOK /\ TypeOK'
    BY NextIInv DEF IInv
  <2>1. InProgress = IF mInterruptActive = 0 THEN << >>
                     ELSE IF mInterruptActive = 1 THEN <<0>>
                     ELSE IF mInterruptActive = 2 THEN <<1>> ELSE <<0, 1>>
    BY <2>0, RoutinesOfValue DEF TypeOK, InProgress
  <2>2. InProgress' = IF mInterruptActive' = 0 THEN << >>
                      ELSE IF mInterruptActive' = 1 THEN <<0>>
                      ELSE IF mInterruptActive' = 2 THEN <<1>> ELSE <<0, 1>>
    BY <2>0, RoutinesOfValue DEF TypeOK, InProgress
  <2>3. mInterruptActive' # mInterruptActive
    BY <2>1, <2>2
  <2>4. CASE InterruptTick
    <3>1. CASE mInterruptActive = 0 /\ mInterruptActive' = 1
      <4>1. Nest!Enter(0)
        BY <2>1, <2>2, <3>1 DEF Nest!Enter
      <4> QED BY <4>1 DEF Nest!Step, Nest!Next
    <3>2. CASE mInterruptActive = 0 /\ mInterruptActive' = 2
      <4>1. Nest!Enter(1)
        BY <2>1, <2>2, <3>2 DEF Nest!Enter
      <4> QED BY <4>1 DEF Nest!Step, Nest!Next
    <3>3. CASE mInterruptActive = 1 /\ mInterruptActive' = 3
      <4>1. Nest!Enter(1)
        BY <2>1, <2>2, <3>3 DEF Nest!Enter, Nest!Top
      <4> QED BY <4>1 DEF Nest!Step, Nest!Next
    <3> QED BY <2>0, <2>4, <3>1, <3>2, <3>3, InterruptFacts
  <2>5. CASE Instruction
    <3>1. mInterruptActive' = ClearLevel(mInterruptActive)
      BY <2>3, <2>5 DEF Instruction, PlainOp, WriteIE, WriteIP, WriteTCON, WritePCON, Reti
    <3>2. \/ mInterruptActive = 1 /\ mInterruptActive' = 0
          \/ mInterruptActive = 2 /\ mInterruptActive' = 0
          \/ mInterruptActive = 3 /\ mInterruptActive' = 1
      BY <2>0, <2>3, <3>1 DEF TypeOK, ClearLevel
    <3>3. Nest!Return
      BY <2>1, <2>2, <3>2 DEF Nest!Return
    <3> QED BY <3>3 DEF Nest!Step, Nest!Next
  <2>6. CASE \E aWipe \in BOOLEAN : Reset(aWipe)
    <3>1. Nest!Clear
      BY <2>2, <2>6 DEF Reset, Nest!Clear
    <3> QED BY <2>6, <3>1 DEF Nest!Next, IsReset
  <2>7. CASE WaitTick \/ PowerDownTick \/ IdleTick \/ Edit \/ UNCHANGED vars
    BY <2>3, <2>7 DEF WaitTick, PowerDownTick, IdleTick, Edit, vars
  <2> QED BY <2>4, <2>5, <2>6, <2>7 DEF Next, Tick
<1> QED BY <1>1, <1>2, IInvHolds, PTL DEF Spec, NestSpec, Nest!Spec

-----------------------------------------------------------------------------
(* The arithmetic. *)

(* What the second half of an operation on words needs from the first: the *)
(* low byte of the result and the carry in C, untouched by the moves in    *)
(* between, are the sum or the difference of the low operands.             *)
HalfDone ==
    /\ pair.op = "add" => pair.low + 256 * C = pair.x + pair.y
    /\ pair.op = "sub" => pair.low = pair.x - pair.y + 256 * C

RegistersOK ==
    /\ ACC \in Byte /\ B \in Byte
    /\ C \in Bit /\ AC \in Bit /\ OV \in Bit
    /\ pair \in Pairs \cup {NoPair}

AInv == RegistersOK /\ HalfDone

(* The flags of an addition are bits, and C is what does not fit in the    *)
(* byte (add_solve_flags, opcodes.c:111-119).                              *)
LEMMA AddFlagsCarry ==
    ASSUME NEW a \in Byte, NEW v \in Byte, NEW cin \in Bit
    PROVE  LET f == AddFlags(a, v, cin)
           IN  /\ f.c \in Bit /\ f.ac \in Bit /\ f.ov \in Bit
               /\ Wrap(a + v + cin) + 256 * f.c = a + v + cin
               /\ Wrap(a + v + cin) \in Byte
<1>1. (a + v + cin) \div 256 \in Bit
  BY DEF Byte, Bit
<1>2. ((a % 8) + (v % 8) + cin) \div 8 \in Bit
  BY DEF Byte, Bit
<1>3. \A n \in Int : n % 2 \in Bit
  BY DEF Bit
<1>4. (((a + v + cin) \div 256) + ((a % 128) + (v % 128) + cin) \div 128) \in Int
  BY DEF Byte, Bit
<1>5. Wrap(a + v + cin) + 256 * ((a + v + cin) \div 256) = a + v + cin
  BY DEF Byte, Bit, Wrap
<1>6. Wrap(a + v + cin) \in Byte
  BY DEF Byte, Bit, Wrap
<1> QED BY <1>1, <1>2, <1>3, <1>4, <1>5, <1>6 DEF AddFlags

(* OV of an addition: the signed sum does not fit.                         *)
LEMMA AddFlagsOverflow ==
    ASSUME NEW a \in Byte, NEW v \in Byte, NEW cin \in Bit
    PROVE  AddFlags(a, v, cin).ov = 0
             <=> Fits(Signed(a, 256) + Signed(v, 256) + cin, 256)
BY DEF AddFlags, Fits, Signed, Byte, Bit

(* The flags of a subtraction are bits, and C is the borrow                *)
(* (sub_solve_flags, opcodes.c:121-129).                                   *)
LEMMA SubFlagsBorrow ==
    ASSUME NEW a \in Byte, NEW v \in Byte, NEW cin \in Bit
    PROVE  LET f == SubFlags(a, v, cin)
           IN  /\ f.c \in Bit /\ f.ac \in Bit /\ f.ov \in Bit
               /\ Wrap(a - (v + cin)) = a - v - cin + 256 * f.c
               /\ Wrap(a - (v + cin)) \in Byte
<1>1. \A n \in Int : n % 2 \in Bit
  BY DEF Bit
<1>2. (a - v - cin) \div 256 \in Int /\ ((a % 8) - (v % 8) - cin) \div 8 \in Int
  BY DEF Byte, Bit
<1>3. ((((a - v - cin) \div 256) % 2) + ((a % 128) - (v % 128) - cin) \div 128) \in Int
  BY DEF Byte, Bit
<1>4. Wrap(a - (v + cin)) = a - v - cin + 256 * (((a - v - cin) \div 256) % 2)
  BY DEF Byte, Bit, Wrap
<1>5. Wrap(a - (v + cin)) \in Byte
  BY DEF Byte, Bit, Wrap
<1> QED BY <1>1, <1>2, <1>3, <1>4, <1>5 DEF SubFlags

(* The sign of the result, corrected by OV, is that of the difference.     *)
LEMMA SubFlagsSign ==
    ASSUME NEW a \in Byte, NEW v \in Byte, NEW cin \in Bit
    PROVE  (Wrap(a - (v + cin)) >= 128) # (SubFlags(a, v, cin).ov = 1)
             <=> Signed(a, 256) - Signed(v, 256) - cin < 0
BY DEF SubFlags, Wrap, Signed, Byte, Bit

(* DIV: quotient and remainder (div_ab, opcodes.c:683-701).                *)
LEMMA QuotientAndRemainder ==
    ASSUME NEW a \in Byte, NEW b \in Byte, b # 0
    PROVE  /\ (a \div b) \in Byte /\ (a % b) \in Byte
           /\ (a \div b) * b + (a % b) = a /\ a % b < b
<1>1. a \in Int /\ b \in Int /\ b > 0
  BY DEF Byte
<1>2. a = b * (a \div b) + (a % b)
  BY <1>1
<1>3. a % b \in 0 .. b - 1
  BY <1>1
<1>4. a \div b \in 0 .. a
  BY <1>1 DEF Byte
<1> QED BY <1>1, <1>2, <1>3, <1>4 DEF Byte

(* MUL: the product of two bytes in two bytes (mul_ab, opcodes.c:722-733). *)
LEMMA ProductInBytes ==
    ASSUME NEW a \in Byte, NEW b \in Byte
    PROVE  \E n \in Nat :
              /\ n = a * b
              /\ (n % 256) \in Byte /\ (n \div 256) \in Byte
              /\ Word(n \div 256, n % 256) = n
              /\ n \div 256 # 0 <=> n > 255
<1>1. a * b \in Nat /\ a * b <= 255 * b /\ 255 * b <= 255 * 255
  BY SMT DEF Byte
<1>2. PICK n \in Nat : n = a * b /\ n <= 255 * 255
  BY <1>1, SMT DEF Byte
<1>3. 256 * (n \div 256) + (n % 256) = n /\ n % 256 \in 0 .. 255 /\ n \div 256 \in Nat
  BY SMT
<1>4. n \div 256 <= 255 /\ (n \div 256 # 0 <=> n > 255)
  BY <1>2, <1>3, SMT
<1> QED BY <1>2, <1>3, <1>4, SMT DEF Word, Byte

(* The sign of a word is that of its high byte.                            *)
LEMMA SignedWord ==
    ASSUME NEW h \in Byte, NEW l \in Byte
    PROVE  Signed(Word(h, l), 65536) = 256 * Signed(h, 256) + l
BY DEF Signed, Word, Byte

LEMMA WordType ==
    ASSUME NEW h \in Byte, NEW l \in Byte
    PROVE  Word(h, l) \in Int /\ 0 <= Word(h, l) /\ Word(h, l) < 65536
BY SMT DEF Word, Byte

(* A difference modulo a word, and the borrow that says its sign.          *)
LEMMA Borrowed ==
    ASSUME NEW w \in Int, 0 <= w, w < 65536, NEW z \in Int, NEW d \in Bit,
           w = z + 65536 * d
    PROVE  w = z % 65536 /\ (d = 1 <=> z < 0)
<1>1. CASE d = 0
  BY <1>1, SMT
<1>2. CASE d = 1
  <2>1. z = w - 65536
    BY <1>2, SMT
  <2> QED BY <2>1, <1>2, SMT
<1> QED BY <1>1, <1>2 DEF Bit

-----------------------------------------------------------------------------
LEMMA AInvInit == AluInit => AInv
BY DEF AluInit, AInv, RegistersOK, HalfDone, NoPair, Byte, Bit

(* What the instructions that do not take part in an operation on words    *)
(* must do: forget the half that was done.                                 *)
LEMMA Forgets ==
    ASSUME ACC' \in Byte, B' \in Byte, C' \in Bit, AC' \in Bit, OV' \in Bit, pair' = NoPair
    PROVE  AInv'
BY DEF AInv, RegistersOK, HalfDone, NoPair

LEMMA AddKeeps ==
    ASSUME AInv, NEW v \in Byte, Add(v)
    PROVE  AInv'
<1>1. ACC \in Byte /\ B \in Byte /\ 0 \in Bit
  BY DEF AInv, RegistersOK, Bit
<1>2. LET f == AddFlags(ACC, v, 0)
      IN  /\ f.c \in Bit /\ f.ac \in Bit /\ f.ov \in Bit
          /\ Wrap(ACC + v + 0) + 256 * f.c = ACC + v + 0
          /\ Wrap(ACC + v + 0) \in Byte
  BY <1>1, AddFlagsCarry
<1>3. ACC + v + 0 = ACC + v
  BY <1>1 DEF Byte
<1>4. RegistersOK'
  BY <1>1, <1>2, <1>3 DEF Add, SetFlags, RegistersOK, Pairs
<1>5. HalfDone'
  BY <1>1, <1>2, <1>3 DEF Add, SetFlags, HalfDone
<1> QED BY <1>4, <1>5 DEF AInv

LEMMA SubbKeeps ==
    ASSUME AInv, NEW v \in Byte, Subb(v)
    PROVE  AInv'
<1>1. ACC \in Byte /\ B \in Byte /\ C \in Bit
  BY DEF AInv, RegistersOK
<1>2. LET f == SubFlags(ACC, v, C)
      IN  /\ f.c \in Bit /\ f.ac \in Bit /\ f.ov \in Bit
          /\ Wrap(ACC - (v + C)) = ACC - v - C + 256 * f.c
          /\ Wrap(ACC - (v + C)) \in Byte
  BY <1>1, SubFlagsBorrow
<1>3. RegistersOK'
  BY <1>1, <1>2 DEF Subb, SetFlags, RegistersOK, Pairs
<1>4. HalfDone'
  <2>1. CASE C = 0 /\ pair = NoPair
    <3>1. ACC - v - C = ACC - v
      BY <1>1, <2>1 DEF Byte
    <3> QED BY <1>1, <1>2, <2>1, <3>1 DEF Subb, SetFlags, HalfDone
  <2>2. CASE ~(C = 0 /\ pair = NoPair)
    BY <2>2 DEF Subb, HalfDone, NoPair
  <2> QED BY <2>1, <2>2
<1> QED BY <1>3, <1>4 DEF AInv

LEMMA AddcKeeps ==
    ASSUME AInv, NEW v \in Byte, Addc(v)
    PROVE  AInv'
<1>1. ACC \in Byte /\ B \in Byte /\ C \in Bit
  BY DEF AInv, RegistersOK
<1>2. LET f == AddFlags(ACC, v, C)
      IN  /\ f.c \in Bit /\ f.ac \in Bit /\ f.ov \in Bit
          /\ Wrap(ACC + v + C) \in Byte
  BY <1>1, AddFlagsCarry
<1> QED BY <1>1, <1>2, Forgets DEF Addc, SetFlags

LEMMA MulDivKeep ==
    ASSUME AInv, Mul \/ Div
    PROVE  AInv'
<1>1. ACC \in Byte /\ B \in Byte /\ 0 \in Bit /\ 1 \in Bit /\ AC \in Bit /\ pair' = NoPair
  BY DEF AInv, RegistersOK, Bit, Mul, Div
<1>2. CASE Mul
  <2>1. PICK n \in Nat :
           n = ACC * B /\ (n % 256) \in Byte /\ (n \div 256) \in Byte
    BY <1>1, ProductInBytes
  <2>2. ACC' = n % 256 /\ B' = n \div 256
    BY <1>2, <2>1 DEF Mul
  <2> QED BY <1>1, <1>2, <2>1, <2>2, Forgets DEF Mul
<1>3. CASE Div /\ B = 0
  BY <1>1, <1>3, Forgets DEF Div, Divide
<1>4. CASE Div /\ B # 0
  BY <1>1, <1>4, QuotientAndRemainder, Forgets DEF Div, Divide
<1> QED BY <1>2, <1>3, <1>4

LEMMA OthersKeep ==
    ASSUME AInv, Da \/ RotateWithCarry \/ ChangeA \/ ChangeC \/ ChangeAC
                   \/ \E v \in Byte : Cjne(v) \/ MovA(v) \/ MovB(v)
    PROVE  AInv'
<1>1. ACC \in Byte /\ B \in Byte /\ 0 \in Bit /\ 1 \in Bit
      /\ C \in Bit /\ AC \in Bit /\ OV \in Bit
  BY DEF AInv, RegistersOK, Bit
<1>2. \A n \in Int : Wrap(n) \in Byte
  BY DEF Wrap, Byte
<1>3. CASE Da
  <2>1. DaStep(ACC, C, AC).acc \in Byte /\ DaStep(ACC, C, AC).c \in Bit
    BY <1>1, <1>2 DEF DaStep, Byte
  <2> QED BY <1>1, <1>3, <2>1, Forgets DEF Da
<1>4. CASE RotateWithCarry
  <2>1. /\ RrcOf(ACC, C).acc \in Byte /\ RrcOf(ACC, C).c \in Bit
        /\ RlcOf(ACC, C).acc \in Byte /\ RlcOf(ACC, C).c \in Bit
    BY <1>1 DEF RrcOf, RlcOf, Wrap, Byte, Bit
  <2> QED BY <1>1, <1>4, <2>1, Forgets DEF RotateWithCarry
<1>5. CASE ChangeA
  <2>1. /\ RrOf(ACC) \in Byte /\ RlOf(ACC) \in Byte /\ SwapOf(ACC) \in Byte
        /\ Wrap(ACC + 1) \in Byte /\ Wrap(ACC - 1) \in Byte
        /\ 255 - ACC \in Byte /\ 0 \in Byte
    BY <1>1 DEF RrOf, RlOf, SwapOf, Wrap, Byte
  <2> QED BY <1>1, <1>5, <2>1, Forgets DEF ChangeA, flags
<1>6. CASE ChangeC
  BY <1>1, <1>6, Forgets DEF ChangeC
<1>7. ASSUME NEW v \in Byte, Cjne(v) PROVE AInv'
  BY <1>1, <1>7, Forgets DEF Cjne
<1>8. ASSUME NEW v \in Byte, MovA(v) \/ MovB(v) PROVE AInv'
  BY <1>8 DEF MovA, MovB, AInv, RegistersOK, HalfDone, flags
<1>9. CASE ChangeAC
  BY <1>9 DEF ChangeAC, AInv, RegistersOK, HalfDone
<1> QED BY <1>3, <1>4, <1>5, <1>6, <1>7, <1>8, <1>9

(* For any operands and behaviours of any length.                          *)
LEMMA AInvAlways == AluSpec => []AInv
<1>1. AInv /\ [AluNext]_aluVars => AInv'
  <2> SUFFICES ASSUME AInv, [AluNext]_aluVars PROVE AInv'
    OBVIOUS
  <2>1. ASSUME NEW v \in Operands,
               Add(v) \/ Addc(v) \/ Subb(v) \/ Cjne(v) \/ MovA(v) \/ MovB(v)
        PROVE AInv'
    BY <2>1, OperandsAssumption, AddKeeps, AddcKeeps, SubbKeeps, OthersKeep
  <2>2. CASE Mul \/ Div
    BY <2>2, MulDivKeep
  <2>3. CASE Da \/ RotateWithCarry \/ ChangeA \/ ChangeC \/ ChangeAC
    BY <2>3, OthersKeep
  <2>4. CASE UNCHANGED aluVars
    BY <2>4 DEF aluVars, flags, AInv, RegistersOK, HalfDone
  <2> QED BY <2>1, <2>2, <2>3, <2>4 DEF AluNext
<1> QED BY AInvInit, <1>1, PTL DEF AluSpec

-----------------------------------------------------------------------------
(* ADDC on the high bytes after ADD on the low ones.                       *)
LEMMA SecondSum ==
    ASSUME NEW a \in Byte, NEW v \in Byte, NEW x \in Byte, NEW y \in Byte,
           NEW l \in Byte, NEW c \in Bit, l + 256 * c = x + y
    PROVE  LET f == AddFlags(a, v, c)
           IN  /\ Word(Wrap(a + v + c), l) + 65536 * f.c = Word(a, x) + Word(v, y)
               /\ f.ov = 0 <=> Fits(Signed(Word(a, x), 65536) + Signed(Word(v, y), 65536), 65536)
<1> DEFINE f == AddFlags(a, v, c)
           h == Wrap(a + v + c)
           s == Signed(a, 256) + Signed(v, 256) + c
<1>1. f.c \in Bit /\ h + 256 * f.c = a + v + c /\ h \in Byte
  BY AddFlagsCarry
<1>2. f.ov = 0 <=> Fits(s, 256)
  BY AddFlagsOverflow
<1>3. /\ Signed(Word(a, x), 65536) = 256 * Signed(a, 256) + x
      /\ Signed(Word(v, y), 65536) = 256 * Signed(v, 256) + y
  BY SignedWord, SMT
<1>4. Signed(a, 256) \in Int /\ Signed(v, 256) \in Int
  BY DEF Signed, Byte
<1>5. a \in Int /\ v \in Int /\ x \in Int /\ y \in Int /\ l \in 0..255 /\ c \in Int
  BY DEF Byte, Bit
<1>6. s \in Int
  BY <1>4, <1>5
<1> HIDE DEF f, h
<1>7. f.c \in Int /\ h \in Int
  BY <1>1 DEF Byte, Bit
<1>8. Word(h, l) + 65536 * f.c = Word(a, x) + Word(v, y)
  <2>1. PICK d \in Int : d = f.c /\ h = a + v + c - 256 * d
    BY <1>1, <1>5, <1>7, SMT
  <2>2. l = x + y - 256 * c /\ l \in Int
    BY <1>5, SMT
  <2>3. (256 * h + l) + 65536 * d = (256 * a + x) + (256 * v + y)
    BY <2>1, <2>2, <1>5, <1>7, SMT
  <2> QED BY <2>1, <2>3, SMT DEF Word
<1>9. Signed(Word(a, x), 65536) + Signed(Word(v, y), 65536) = 256 * s + l
  BY <1>3, <1>4, <1>5, SMT
<1> HIDE DEF s
<1>10. Fits(256 * s + l, 65536) <=> Fits(s, 256)
  BY <1>5, <1>6, SMT DEF Fits
<1> QED BY <1>2, <1>8, <1>9, <1>10, SMT DEF f, h

(* SUBB on the high bytes after SUBB on the low ones.                      *)
LEMMA SecondDifference ==
    ASSUME NEW a \in Byte, NEW v \in Byte, NEW x \in Byte, NEW y \in Byte,
           NEW l \in Byte, NEW c \in Bit, l = x - y + 256 * c
    PROVE  LET f == SubFlags(a, v, c)
               h == Wrap(a - (v + c))
           IN  /\ Word(h, l) = (Word(a, x) - Word(v, y)) % 65536
               /\ f.c = 1 <=> Word(a, x) < Word(v, y)
               /\ (h >= 128) # (f.ov = 1)
                    <=> Signed(Word(a, x), 65536) < Signed(Word(v, y), 65536)
<1> DEFINE f == SubFlags(a, v, c)
           h == Wrap(a - (v + c))
           d == Signed(a, 256) - Signed(v, 256) - c
<1>1. f.c \in Bit /\ h = a - v - c + 256 * f.c /\ h \in Byte
  BY SubFlagsBorrow
<1>2. (h >= 128) # (f.ov = 1) <=> d < 0
  BY SubFlagsSign
<1>3. /\ Signed(Word(a, x), 65536) = 256 * Signed(a, 256) + x
      /\ Signed(Word(v, y), 65536) = 256 * Signed(v, 256) + y
  BY SignedWord, SMT
<1>4. Signed(a, 256) \in Int /\ Signed(v, 256) \in Int
  BY DEF Signed, Byte
<1>5. a \in Int /\ v \in Int /\ x \in Int /\ y \in Int /\ l \in 0..255 /\ c \in Int
  BY DEF Byte, Bit
<1>6. d \in Int
  BY <1>4, <1>5
<1> HIDE DEF f, h
<1>7. f.c \in Int /\ h \in Int
  BY <1>1 DEF Byte, Bit
<1>8. Word(h, l) = (Word(a, x) - Word(v, y)) + 65536 * f.c
  BY <1>1, <1>5, <1>7, SMT DEF Word
<1>9. /\ Word(h, l) \in Int /\ 0 <= Word(h, l) /\ Word(h, l) < 65536
      /\ Word(a, x) \in Int /\ Word(v, y) \in Int
  BY <1>1, WordType, SMT
<1>10. /\ Word(a, x) - Word(v, y) \in Int
       /\ Word(a, x) - Word(v, y) < 0 <=> Word(a, x) < Word(v, y)
  BY <1>9, SMT
<1>11. /\ Word(h, l) = (Word(a, x) - Word(v, y)) % 65536
       /\ f.c = 1 <=> Word(a, x) < Word(v, y)
  BY <1>1, <1>8, <1>9, <1>10, Borrowed, SMT
<1>12. Signed(Word(a, x), 65536) - Signed(Word(v, y), 65536) = 256 * d + l
  BY <1>3, <1>4, <1>5, SMT
<1>13. Signed(Word(a, x), 65536) \in Int /\ Signed(Word(v, y), 65536) \in Int
  BY <1>3, <1>4, <1>5, SMT
<1> HIDE DEF d
<1>14. Signed(Word(a, x), 65536) < Signed(Word(v, y), 65536) <=> d < 0
  BY <1>5, <1>6, <1>12, <1>13, SMT
<1> QED BY <1>2, <1>11, <1>14, SMT DEF f, h

LEMMA SumsOfWords == AInv => SumOfWords
<1> SUFFICES ASSUME AInv, NEW v \in Operands, Addc(v), pair.op = "add"
    PROVE  LET x == Word(ACC, pair.x)
               y == Word(v, pair.y)
           IN  /\ Word(ACC', pair.low) + 65536 * C' = x + y
               /\ OV' = 0 <=> Fits(Signed(x, 65536) + Signed(y, 65536), 65536)
  BY SMT DEF SumOfWords
<1>1. /\ ACC \in Byte /\ C \in Bit /\ v \in Byte
      /\ pair.x \in Byte /\ pair.y \in Byte /\ pair.low \in Byte
      /\ pair.low + 256 * C = pair.x + pair.y
  <2>1. pair \in Pairs
    <3>1. pair # NoPair
      BY DEF NoPair
    <3> QED BY <3>1 DEF AInv, RegistersOK
  <2>2. pair.x \in Byte /\ pair.y \in Byte /\ pair.low \in Byte
    BY <2>1 DEF Pairs
  <2> QED BY <2>2, OperandsAssumption, Zenon DEF AInv, RegistersOK, HalfDone
<1>2. /\ ACC' = Wrap(ACC + v + C)
      /\ C' = AddFlags(ACC, v, C).c /\ OV' = AddFlags(ACC, v, C).ov
  BY DEF Addc, SetFlags
<1>3. /\ Word(Wrap(ACC + v + C), pair.low) + 65536 * AddFlags(ACC, v, C).c
           = Word(ACC, pair.x) + Word(v, pair.y)
      /\ AddFlags(ACC, v, C).ov = 0
           <=> Fits(Signed(Word(ACC, pair.x), 65536) + Signed(Word(v, pair.y), 65536), 65536)
  BY <1>1, SecondSum, SMT
<1> QED BY <1>2, <1>3, SMT

LEMMA DifferencesOfWords == AInv => DifferenceOfWords
<1> SUFFICES ASSUME AInv, NEW v \in Operands, Subb(v), pair.op = "sub"
    PROVE  LET x == Word(ACC, pair.x)
               y == Word(v, pair.y)
           IN  /\ Word(ACC', pair.low) = (x - y) % 65536
               /\ C' = 1 <=> x < y
               /\ (ACC' >= 128) # (OV' = 1) <=> Signed(x, 65536) < Signed(y, 65536)
  BY SMT DEF DifferenceOfWords
<1>1. /\ ACC \in Byte /\ C \in Bit /\ v \in Byte
      /\ pair.x \in Byte /\ pair.y \in Byte /\ pair.low \in Byte
      /\ pair.low = pair.x - pair.y + 256 * C
  <2>1. pair \in Pairs
    <3>1. pair # NoPair
      BY DEF NoPair
    <3> QED BY <3>1 DEF AInv, RegistersOK
  <2>2. pair.x \in Byte /\ pair.y \in Byte /\ pair.low \in Byte
    BY <2>1 DEF Pairs
  <2> QED BY <2>2, OperandsAssumption, Zenon DEF AInv, RegistersOK, HalfDone
<1>2. /\ ACC' = Wrap(ACC - (v + C))
      /\ C' = SubFlags(ACC, v, C).c /\ OV' = SubFlags(ACC, v, C).ov
  BY DEF Subb, SetFlags
<1>3. LET h == Wrap(ACC - (v + C))
      IN  /\ Word(h, pair.low) = (Word(ACC, pair.x) - Word(v, pair.y)) % 65536
          /\ SubFlags(ACC, v, C).c = 1 <=> Word(ACC, pair.x) < Word(v, pair.y)
          /\ (h >= 128) # (SubFlags(ACC, v, C).ov = 1)
               <=> Signed(Word(ACC, pair.x), 65536) < Signed(Word(v, pair.y), 65536)
  BY <1>1, SecondDifference, SMT
<1> QED BY <1>2, <1>3, SMT

LEMMA DivisionsUndo == AInv => DivisionUndoes
<1> SUFFICES ASSUME AInv PROVE DivisionUndoes
  OBVIOUS
<1>1. ACC \in Byte /\ B \in Byte
  BY DEF AInv, RegistersOK
<1>2. ASSUME Mul PROVE Word(B', ACC') = ACC * B /\ (OV' = 1 <=> ACC * B > 255)
  <2>1. PICK n \in Nat :
           n = ACC * B /\ Word(n \div 256, n % 256) = n /\ (n \div 256 # 0 <=> n > 255)
    BY <1>1, ProductInBytes
  <2>2. ACC' = n % 256 /\ B' = n \div 256 /\ OV' = IF n \div 256 # 0 THEN 1 ELSE 0
    BY <1>2, <2>1 DEF Mul
  <2>3. OV' = 1 <=> n > 255
    BY <2>1, <2>2
  <2> QED BY <2>1, <2>2, <2>3
<1>3. ASSUME Div, B # 0 PROVE ACC' * B + B' = ACC /\ B' < B /\ OV' = 0
  BY <1>1, <1>3, QuotientAndRemainder DEF Div, Divide
<1>4. ASSUME Div, B = 0 PROVE ACC' = ACC /\ OV' = 1
  BY <1>4 DEF Div, Divide
<1> QED BY <1>2, <1>3, <1>4 DEF DivisionUndoes

(* Two additions or two subtractions of bytes, the second with the carry   *)
(* of the first, add or subtract words, with the flags of a word; a        *)
(* product fills both registers and a division is undone by it             *)
(* (opcodes.c:111-131, 393-418, 675-691, 749-774, 842-853).                *)
THEOREM WordsThroughBytes == AluSpec => WideArithmetic
<1>1. AInv => SumOfWords /\ DifferenceOfWords /\ DivisionUndoes
  BY SumsOfWords, DifferencesOfWords, DivisionsUndo
<1> QED BY AInvAlways, <1>1, PTL DEF WideArithmetic

-----------------------------------------------------------------------------
(* Two decimal digits and a carry: six more, if it is above nine, makes the *)
(* digit and the carry.                                                    *)
LEMMA DaAdjusts ==
    ASSUME NEW x \in Byte, NEW y \in Byte, IsDecimal(x), IsDecimal(y),
           NEW low \in Byte, NEW c \in Bit, low + 256 * c = x + y
    PROVE  LET d == DaStep(low, c, CarryFromBit3(x, y))
           IN  /\ IsDecimal(d.acc)
               /\ Decimal(d.acc) + 100 * d.c = Decimal(x) + Decimal(y)
<1> DEFINE xh == x \div 16  xl == x % 16  yh == y \div 16  yl == y % 16
           ac == CarryFromBit3(x, y)
           t == IF low % 16 > 9 \/ ac = 1 THEN low + 6 ELSE low
           res == IF t - (t % 16) > 144 \/ c = 1 THEN t + 96 ELSE t
<1>1. /\ xh \in 0..9 /\ xl \in 0..9 /\ yh \in 0..9 /\ yl \in 0..9
      /\ x = 16 * xh + xl /\ y = 16 * yh + yl
  BY SMT DEF IsDecimal, Byte
<1>2. ac = IF xl + yl > 15 THEN 1 ELSE 0
  BY <1>1, SMT DEF CarryFromBit3
<1>3. Decimal(x) = 10 * xh + xl /\ Decimal(y) = 10 * yh + yl
  BY DEF Decimal
<1>4. low = 16 * (xh + yh) + (xl + yl) - 256 * c /\ low \in 0..255 /\ c \in 0..1
  BY <1>1, SMT DEF Byte, Bit
<1> HIDE DEF xh, xl, yh, yl, ac
<1>5. PICK h, l \in 0..9, k, g \in 0..1 :
          xl + yl = 10 * k + l /\ xh + yh + k = 10 * g + h
  <2>1. PICK k \in 0..1, l \in 0..9 : xl + yl = 10 * k + l
    <3>1. CASE xl + yl > 9
      <4>1. xl + yl = 10 * 1 + (xl + yl - 10) /\ xl + yl - 10 \in 0..9
        BY <1>1, <3>1, SMT
      <4> QED BY <4>1
    <3>2. CASE ~(xl + yl > 9)
      <4>1. xl + yl = 10 * 0 + (xl + yl) /\ xl + yl \in 0..9
        BY <1>1, <3>2, SMT
      <4> QED BY <4>1
    <3> QED BY <3>1, <3>2
  <2>2. PICK g \in 0..1, h \in 0..9 : xh + yh + k = 10 * g + h
    <3>1. CASE xh + yh + k > 9
      <4>1. xh + yh + k = 10 * 1 + (xh + yh + k - 10) /\ xh + yh + k - 10 \in 0..9
        BY <1>1, <3>1, SMT
      <4> QED BY <4>1
    <3>2. CASE ~(xh + yh + k > 9)
      <4>1. xh + yh + k = 10 * 0 + (xh + yh + k) /\ xh + yh + k \in 0..9
        BY <1>1, <3>2, SMT
      <4> QED BY <4>1
    <3> QED BY <3>1, <3>2
  <2> QED BY <2>1, <2>2
<1>6. t = 16 * (xh + yh + k) + l - 256 * c /\ t % 16 = l
  BY <1>1, <1>2, <1>4, <1>5, SMT
<1>7. t - (t % 16) > 144 \/ c = 1 <=> g = 1
  BY <1>1, <1>4, <1>5, <1>6, SMT
<1>8. res = 16 * h + l + 256 * (g - c)
  BY <1>4, <1>5, <1>6, <1>7, SMT
<1>9. c = 1 => g = 1
  BY <1>7
<1> HIDE DEF t, res
<1>10. Wrap(res) = 16 * h + l /\ (IF res > 153 THEN 1 ELSE c) = g
  <2>1. 16 * h + l \in 0..153
    BY SMT
  <2>2. CASE g = c
    BY <1>4, <1>8, <2>1, <2>2, SMT DEF Wrap
  <2>3. CASE g = 1 /\ c = 0
    <3>1. res = 16 * h + l + 256
      BY <1>8, <2>3, SMT
    <3> QED BY <2>1, <2>3, <3>1, SMT DEF Wrap
  <2> QED BY <1>4, <1>9, <2>2, <2>3, SMT
<1>11. DaStep(low, c, ac) = [acc |-> 16 * h + l, c |-> g]
  BY <1>10 DEF DaStep, t, res
<1>12. IsDecimal(16 * h + l) /\ Decimal(16 * h + l) = 10 * h + l
  BY <1>5, SMT DEF IsDecimal, Decimal
<1>13. Decimal(x) + Decimal(y) = 10 * h + l + 100 * g
  BY <1>1, <1>3, <1>5, SMT
<1> QED BY <1>11, <1>12, <1>13 DEF ac

(* DA turns the sum of two decimal bytes into the decimal sum, its hundred *)
(* into C, if AC is what the low digits carried, whoever set it, or if the *)
(* low digit of the sum is above nine (opcodes.c:1072-1100).               *)
THEOREM DaSumsDecimals == AluSpec => DecimalAdjust
<1>1. ASSUME AInv, Da, pair.op = "add", ACC = pair.low,
             IsDecimal(pair.x), IsDecimal(pair.y),
             AC = CarryFromBit3(pair.x, pair.y) \/ ACC % 16 > 9
      PROVE  /\ IsDecimal(ACC')
             /\ Decimal(ACC') + 100 * C' = Decimal(pair.x) + Decimal(pair.y)
  <2>1. /\ C \in Bit
        /\ pair.x \in Byte /\ pair.y \in Byte /\ pair.low \in Byte
        /\ pair.low + 256 * C = pair.x + pair.y
    BY <1>1 DEF AInv, RegistersOK, HalfDone, Pairs, NoPair
  <2>2. DaStep(ACC, C, AC) = DaStep(ACC, C, CarryFromBit3(pair.x, pair.y))
    BY <1>1 DEF DaStep
  <2> QED BY <1>1, <2>1, <2>2, DaAdjusts DEF Da
<1> QED BY AInvAlways, <1>1, PTL DEF DecimalAdjust
=============================================================================
