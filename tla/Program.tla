------------------------------ MODULE Program -------------------------------
(***************************************************************************)
(* A program from its file to its execution: it is loaded (HexLoader), the *)
(* CPU executes what is in the code memory (Instructions), and the user    *)
(* reads it in the disassembler (Listing), while stepping and at the       *)
(* prompt for an address.  Where the two disagree the user debugs another  *)
(* program than the one that runs.                                         *)
(*                                                                         *)
(* Data is left out: a conditional branch goes either way, a return or     *)
(* JMP @A+DPTR anywhere in Elsewhere.  The load key works between two      *)
(* instructions and leaves the program counter where it is.                *)
(***************************************************************************)
EXTENDS HexLoader, Instructions, Listing

CONSTANTS
    PCs,                       \* what the user sets the program counter to
    Vectors,                   \* where interrupt routines start
    Elsewhere,                 \* where returns and computed jumps lead
    MaxSteps                   \* instructions in a row: a bound

ASSUME AddressAssumption == PCs \cup Vectors \cup Elsewhere \subseteq Addresses
ASSUME StepsAssumption == MaxSteps \in Nat

VARIABLES
    mPC,
    power,                     \* PCON: "run", "idle", "down"
    steps                      \* history: instructions since the PC was set

cpu == <<mPC, power, steps>>
vars == <<codemem, loader, image, cpu>>

Fetched(pc) == <<CodeAt(pc), CodeAt(pc + 1), CodeAt(pc + 2)>>

Init == LoaderInit /\ mPC = 0 /\ power = "run" /\ steps = 0

-----------------------------------------------------------------------------
(* Handlers that can write the register PCON, at 87h. *)
PCON == \h87
MayWritePCON(b) ==
    \/ b[1] \in {\h86, \h87}
    \/ b[1] = \h85 /\ b[3] = PCON
    \/ b[1] \in {\h05, \h15, \h42, \h43, \h52, \h53, \h62, \h63, \h75, \hC5, \hD0, \hD5, \hF5}
                \cup \h88 .. \h8F
       /\ b[2] = PCON

Executes(b) ==                 \* an instruction begins, and it is b
    /\ at = "idle" /\ power = "run" /\ steps < MaxSteps
    /\ b = Fetched(mPC)
    /\ steps' = steps + 1
    /\ power' \in IF MayWritePCON(b) THEN {"run", "idle", "down"} ELSE {power}
    /\ UNCHANGED <<codemem, loader, image>>

Jump ==
    \E b \in {Fetched(mPC)} :
        /\ Executes(b) /\ b[1] \in Jumps
        /\ mPC' = IF b[1] \in AjmpAcall THEN PageTarget(mPC, b) ELSE LongTarget(b)

ShortJump ==
    \E b \in {Fetched(mPC)} :
        Executes(b) /\ b[1] = \h80 /\ mPC' = Relative(mPC, 2, b[2])

Branch ==
    \E b \in {Fetched(mPC)} :
        /\ Executes(b)
        /\ \/ b[1] \in BranchesOfTwo /\ mPC' \in {Behind(mPC, 2), Relative(mPC, 2, b[2])}
           \/ b[1] \in BranchesOfThree /\ mPC' \in {Behind(mPC, 3), Relative(mPC, 3, b[3])}

Return ==
    \E b \in {Fetched(mPC)} : Executes(b) /\ b[1] \in Popped /\ mPC' \in Elsewhere

StepOver ==
    \E b \in {Fetched(mPC)} :
        /\ Executes(b)
        /\ b[1] \notin Jumps \cup {\h80} \cup BranchesOfTwo \cup BranchesOfThree \cup Popped
        /\ mPC' = Behind(mPC, StepsOver(b[1]))

(* In idle mode and power down a tick executes nothing. *)
Sleep ==
    /\ at = "idle" /\ power # "run" /\ steps < MaxSteps
    /\ steps' = steps + 1
    /\ UNCHANGED <<codemem, loader, image, mPC, power>>

Interrupt ==
    /\ at = "idle" /\ power # "down"
    /\ mPC' \in Vectors /\ power' = "run"
    /\ UNCHANGED <<codemem, loader, image, steps>>

-----------------------------------------------------------------------------
GoTo ==                        \* keys g, HOME S
    /\ at = "idle"
    /\ mPC' \in PCs \cup {0} /\ steps' = 0
    /\ UNCHANGED <<codemem, loader, image, power>>

Reset(wipe) ==                 \* keys z, Z, HOME R, HOME W
    /\ at = "idle"
    /\ mPC' = 0 /\ power' = "run" /\ steps' = 0
    /\ IF wipe
       THEN /\ codemem' = <<>> /\ image' = <<>>
            /\ result' = NoLoad /\ eof' = FALSE /\ count' = 0    \* the load is forgotten
            /\ UNCHANGED <<at, record, line, got, junk, sound>>
       ELSE UNCHANGED <<codemem, loader, image>>

Load == Open /\ UNCHANGED cpu
Loading == LoadStep /\ UNCHANGED cpu

Next ==
    \/ Jump \/ ShortJump \/ Branch \/ Return \/ StepOver \/ Sleep \/ Interrupt
    \/ GoTo \/ Load \/ Loading
    \/ \E wipe \in BOOLEAN : Reset(wipe)

(* load_obj runs without waiting for the user or for time; characters      *)
(* after a record come to an end.                                          *)
Spec == Init /\ [][Next]_vars /\ WF_vars(Loading)

-----------------------------------------------------------------------------
(* What tick() executes is what decode() lists at that address: the        *)
(* program goes on behind the listed bytes or at the listed target, across *)
(* pages and the end of memory, and stays where it is when the listing     *)
(* says that the CPU sleeps.                                               *)
Executed == steps' = steps + 1
ExecutesAsListed ==
    [][Executed => mPC' \in IF power = "run" THEN ListedNext(mPC, Fetched(mPC)) ELSE {mPC}]_vars

(* The operands listed are those the handler takes, from the same bytes    *)
(* and in the same roles.  Two lines are known to be otherwise: MOV direct,*)
(* @Ri (86h, 87h), and the byte of a bit below 80h, listed 20h too low.    *)
SameOperand(x, y) ==
    \/ x = y
    \/ x[1] = "bit" /\ x[2] \in 32..47 /\ y = [x EXCEPT ![2] = @ - 32]
    \/ x[1] = "/" /\ y[1] = "/" /\ x[2][2] \in 32..47 /\ y[2] = [x[2] EXCEPT ![2] = @ - 32]

ListsOperands ==
    LET b == Fetched(mPC)
        taken == Handled(mPC, b)
        listed == Listed(mPC, b)
    IN  at = "idle" /\ b[1] \notin {\h86, \h87} =>
          /\ Len(taken) = Len(listed)
          /\ \A k \in 1 .. Len(taken) : SameOperand(taken[k], listed[k])
=============================================================================
