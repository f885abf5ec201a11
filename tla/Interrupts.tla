----------------------------- MODULE Interrupts -----------------------------
(***************************************************************************)
(* The pure part of handle_interrupts (core.c:269-384): which of the       *)
(* pending requests is chosen, and at which priority level.                *)
(*                                                                         *)
(* IE, IP and the request flags are sets of source names instead of bit    *)
(* masks.  The source names are those of the vectors in emu8051.h.         *)
(***************************************************************************)
EXTENDS Integers, Sequences

Vectors == {"ISR_INT0", "ISR_TF0", "ISR_INT1", "ISR_TF1", "ISR_SR"}

NoVector == "none"         \* dest_ip = -1

(* The order in which the code polls the sources. *)
Rank == [ISR_INT0 |-> 1, ISR_TF0 |-> 2, ISR_INT1 |-> 3, ISR_TF1 |-> 4, ISR_SR |-> 5]

(* The requests that are enabled, each by its own bit and all by EA. *)
Pending(ie, request) == IF "EA" \in ie THEN ie \cap request ELSE {}

-----------------------------------------------------------------------------
(* A variant of Poll with a slip in it, to see that the properties notice: *)
(* a high request does not displace a low one found before it.             *)
PollNoOverride(a, v, pending, ip) ==
    IF v \notin pending \/ a.hi THEN a
    ELSE [dest |-> IF a.lo THEN a.dest ELSE v, lo |-> TRUE, hi |-> v \in ip]

(* Entering a high-level routine forgets the low-level one.                *)
SetLevelForgetsLow(active, hi) == IF hi THEN 2 ELSE 1

(* And so does leaving it.                                                 *)
ClearLevelForgetsLow(active) == 0

-----------------------------------------------------------------------------
(* One of the five tests: the first request found is kept as the low-level *)
(* candidate until one whose IP bit is set takes its place; after that no  *)
(* later source is looked at.                                              *)
Poll(a, v, pending, ip) ==
    IF v \notin pending \/ a.hi THEN a
    ELSE [dest |-> IF a.lo /\ v \notin ip THEN a.dest ELSE v,
          lo   |-> TRUE,
          hi   |-> v \in ip]

Arbitrate(pending, ip) ==
    LET a0 == [dest |-> NoVector, lo |-> FALSE, hi |-> FALSE]
        a1 == Poll(a0, "ISR_INT0", pending, ip)
        a2 == Poll(a1, "ISR_TF0", pending, ip)
        a3 == Poll(a2, "ISR_INT1", pending, ip)
        a4 == Poll(a3, "ISR_TF1", pending, ip)
    IN  Poll(a4, "ISR_SR", pending, ip)

-----------------------------------------------------------------------------
(* mInterruptActive |= 2, or = 1.  Bit 0 is kept when a high-level routine *)
(* interrupts a low-level one.                                             *)
SetLevel(active, hi) ==
    IF hi THEN (IF active >= 2 THEN active ELSE active + 2) ELSE 1

(* reti(): clears bit 1 if it is set, else everything. *)
ClearLevel(active) == IF active >= 2 THEN active - 2 ELSE 0

(* The levels of the routines in progress, oldest first, that a value of   *)
(* mInterruptActive records.                                               *)
RoutinesOf(active) ==
    LET low == active % 2 = 1    high == active >= 2
    IN  IF low /\ high THEN <<0, 1>>
        ELSE IF high THEN <<1>> ELSE IF low THEN <<0>> ELSE << >>

-----------------------------------------------------------------------------
(***************************************************************************)
(* What timer_tick, run at the end of every tick that is not spent in      *)
(* power-down, can do to the request flags: a timer may set its flag; a    *)
(* serial bit may be sent, which consumes TF1 and, on the last bit of a    *)
(* frame with ES set, raises the serial request.  Modules Timers and       *)
(* Serial say when.                                                        *)
(***************************************************************************)
TimerEffect(sources, req, ie) ==
    LET overflowed == {req \cup o : o \in SUBSET (sources \cap {"ISR_TF0", "ISR_TF1"})}
        shifted    == {q \ {"ISR_TF1"} : q \in {q \in overflowed : "ISR_TF1" \in q}}
        completed  == IF "ISR_SR" \in ie THEN {q \cup {"ISR_SR"} : q \in shifted} ELSE {}
    IN  overflowed \cup shifted \cup completed

-----------------------------------------------------------------------------
(* Reference definition: v is served before w when its level is higher, or *)
(* the levels are the same and it is polled first.                         *)
Precedes(v, w, ip) ==
    IF (v \in ip) = (w \in ip) THEN Rank[v] < Rank[w] ELSE v \in ip

IsFirst(v, pending, ip) ==
    /\ v \in pending
    /\ \A w \in pending \ {v} : Precedes(v, w, ip)
=============================================================================
