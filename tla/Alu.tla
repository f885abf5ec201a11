-------------------------------- MODULE Alu ---------------------------------
(***************************************************************************)
(* The arithmetic of opcodes.c: the accumulator, register B and the flags  *)
(* that the instructions compute.  Where an operand comes from (an         *)
(* immediate, a register, direct or indirect memory) makes no difference   *)
(* to the result, so each family of handlers is one action on a value.     *)
(* Registers are bytes and wrap as uint8_t does; flags are 0 or 1.         *)
(***************************************************************************)
EXTENDS Integers

CONSTANTS Operands,        \* the values that instructions take as operands
          MaxOps           \* instructions in a behaviour: a bound

Byte == 0..255
Bit == 0..1

ASSUME OperandsAssumption == Operands \subseteq Byte /\ MaxOps \in Nat

VARIABLES
    ACC, B,
    C, AC, OV,             \* flags of PSW
    pair,                  \* history: the low half of a two-byte operation, or NoPair
    ops                    \* history: instructions so far

flags == <<C, AC, OV>>
aluVars == <<ACC, B, flags, pair, ops>>

NoPair == [op |-> "none"]
Pairs == [op : {"add", "sub"}, x : Byte, y : Byte, low : Byte]

AluInit ==                        \* after reset
    /\ ACC = 0 /\ B = 0
    /\ C = 0 /\ AC = 0 /\ OV = 0
    /\ pair = NoPair /\ ops = 0

-----------------------------------------------------------------------------
(* Variants with a slip in them, to see that the properties would notice.  *)
DaStepHighFirst(a, c, ac) ==   \* the high digit is tested before the low one is corrected
    LET low == IF a % 16 > 9 \/ ac = 1 THEN a + 6 ELSE a
        res == IF a - (a % 16) > 144 \/ c = 1 THEN low + 96 ELSE low
    IN  [acc |-> res % 256, c |-> IF res > 153 THEN 1 ELSE c]

DaStepNoAC(a, c, ac) ==        \* the low digit alone decides on its correction
    LET low == IF a % 16 > 9 THEN a + 6 ELSE a
        res == IF low - (low % 16) > 144 \/ c = 1 THEN low + 96 ELSE low
    IN  [acc |-> res % 256, c |-> IF res > 153 THEN 1 ELSE c]

AddFlagsDropCarryIn(a, v, cin) ==
    LET carry == (a + v) \div 256
    IN  [c |-> carry, ac |-> ((a % 8) + (v % 8) + cin) \div 8,
         ov |-> (carry + ((a % 128) + (v % 128) + cin) \div 128) % 2]

-----------------------------------------------------------------------------
Wrap(n) == n % 256             \* a store into a uint8_t

(* add_solve_flags: carry out of bit 7, out of bit 2, and signed overflow. *)
AddFlags(a, v, cin) ==
    LET carry == (a + v + cin) \div 256
    IN  [c |-> carry,
         ac |-> ((a % 8) + (v % 8) + cin) \div 8,
         ov |-> (carry + ((a % 128) + (v % 128) + cin) \div 128) % 2]

(* sub_solve_flags: the same bits of the differences, as borrows. *)
SubFlags(a, v, cin) ==
    LET borrow == ((a - v - cin) \div 256) % 2
    IN  [c |-> borrow,
         ac |-> (((a % 8) - (v % 8) - cin) \div 8) % 2,
         ov |-> (borrow + (((a % 128) - (v % 128) - cin) \div 128)) % 2]

(* RRC and RLC on the nine bits of C and ACC. *)
RrcOf(a, c) == [acc |-> (a \div 2) + 128 * c, c |-> a % 2]
RlcOf(a, c) == [acc |-> Wrap(2 * a) + c, c |-> a \div 128]

RrOf(a) == (a \div 2) + 128 * (a % 2)
RlOf(a) == Wrap(2 * a) + (a \div 128)
SwapOf(a) == Wrap(16 * a) + (a \div 16)

Divide(a, b) ==
    IF b = 0 THEN [acc |-> a, b |-> b, ov |-> 1]
    ELSE [acc |-> a \div b, b |-> a % b, ov |-> 0]

(* da_a: six is added to the low digit, then to the high one; C is set,    *)
(* never cleared.                                                          *)
DaStep(a, c, ac) ==
    LET low == IF a % 16 > 9 \/ ac = 1 THEN a + 6 ELSE a
        res == IF low - (low % 16) > 144 \/ c = 1 THEN low + 96 ELSE low
    IN  [acc |-> Wrap(res), c |-> IF res > 153 THEN 1 ELSE c]

-----------------------------------------------------------------------------
Counted == ops < MaxOps /\ ops' = ops + 1

SetFlags(f) == C' = f.c /\ AC' = f.ac /\ OV' = f.ov

Add(v) ==
    /\ SetFlags(AddFlags(ACC, v, 0))
    /\ ACC' = Wrap(ACC + v)
    /\ pair' = [op |-> "add", x |-> ACC, y |-> v, low |-> ACC']
    /\ UNCHANGED B /\ Counted

Addc(v) ==
    /\ SetFlags(AddFlags(ACC, v, C))
    /\ ACC' = Wrap(ACC + v + C)
    /\ pair' = NoPair
    /\ UNCHANGED B /\ Counted

(* There is no SUB: a SUBB with C clear begins a two-byte difference. *)
Subb(v) ==
    /\ SetFlags(SubFlags(ACC, v, C))
    /\ ACC' = Wrap(ACC - (v + C))
    /\ pair' = IF C = 0 /\ pair = NoPair
               THEN [op |-> "sub", x |-> ACC, y |-> v, low |-> ACC'] ELSE NoPair
    /\ UNCHANGED B /\ Counted

Mul ==
    /\ ACC' = (ACC * B) % 256 /\ B' = (ACC * B) \div 256
    /\ C' = 0 /\ OV' = IF B' # 0 THEN 1 ELSE 0
    /\ pair' = NoPair
    /\ UNCHANGED AC /\ Counted

Div ==
    /\ LET q == Divide(ACC, B)
       IN  ACC' = q.acc /\ B' = q.b /\ C' = 0 /\ OV' = q.ov
    /\ pair' = NoPair
    /\ UNCHANGED AC /\ Counted

Da ==
    /\ LET d == DaStep(ACC, C, AC) IN ACC' = d.acc /\ C' = d.c
    /\ pair' = NoPair
    /\ UNCHANGED <<B, AC, OV>> /\ Counted

RotateWithCarry ==
    /\ \E r \in {RrcOf(ACC, C), RlcOf(ACC, C)} : ACC' = r.acc /\ C' = r.c
    /\ pair' = NoPair
    /\ UNCHANGED <<B, AC, OV>> /\ Counted

(* RR, RL, SWAP, INC, DEC, CPL and CLR leave the flags alone. *)
ChangeA ==
    /\ ACC' \in {RrOf(ACC), RlOf(ACC), SwapOf(ACC), Wrap(ACC + 1), Wrap(ACC - 1), 255 - ACC, 0}
    /\ pair' = NoPair
    /\ UNCHANGED <<B, flags>> /\ Counted

ChangeC ==                     \* CLR C, SETB C, CPL C and the bit operations on C
    /\ C' \in Bit
    /\ pair' = NoPair
    /\ UNCHANGED <<ACC, B, AC, OV>> /\ Counted

(* CJNE compares unsigned; with which bytes decides the addressing mode.   *)
Cjne(v) ==
    /\ C' = IF ACC < v THEN 1 ELSE 0
    /\ pair' = NoPair
    /\ UNCHANGED <<ACC, B, AC, OV>> /\ Counted

(* SETB, CLR, CPL or JBC on the bit AC: with C, the only flag of PSW that  *)
(* an instruction of this module reads.                                    *)
ChangeAC == AC' \in Bit /\ UNCHANGED <<ACC, B, C, OV, pair, ops>>

(* The program stores a result and loads the next operand: no move of the  *)
(* accumulator touches a flag.                                             *)
MovA(v) == ACC' = v /\ UNCHANGED <<B, flags, pair, ops>>
MovB(v) == B' = v /\ UNCHANGED <<ACC, flags, pair, ops>>

AluNext ==
    \/ \E v \in Operands : Add(v) \/ Addc(v) \/ Subb(v) \/ Cjne(v) \/ MovA(v) \/ MovB(v)
    \/ Mul \/ Div \/ Da \/ RotateWithCarry \/ ChangeA \/ ChangeC \/ ChangeAC

AluSpec == AluInit /\ [][AluNext]_aluVars

-----------------------------------------------------------------------------
(* Reference definitions. *)

Signed(n, radix) == IF n >= radix \div 2 THEN n - radix ELSE n

Fits(n, radix) == 0 - (radix \div 2) <= n /\ n < radix \div 2

Word(high, low) == 256 * high + low

IsDecimal(b) == b % 16 <= 9 /\ b \div 16 <= 9
Decimal(b) == 10 * (b \div 16) + (b % 16)

CarryFromBit3(x, y) == ((x % 16) + (y % 16)) \div 16

-----------------------------------------------------------------------------
(* Properties. *)

(* Numbers of 16 bits by way of their bytes.  ADD on the low ones and ADDC  *)
(* on the high ones, with moves in between, add them, and C and OV are the *)
(* unsigned carry and the signed overflow of the words; SUBB on the low    *)
(* and then the high bytes subtracts them, and C and the sign with OV say  *)
(* which is smaller; a product divided by a factor gives the other back.   *)
SumOfWords ==
    \A v \in Operands :
        (Addc(v) /\ pair.op = "add") =>
            LET x == Word(ACC, pair.x)
                y == Word(v, pair.y)
            IN  /\ Word(ACC', pair.low) + 65536 * C' = x + y
                /\ OV' = 0 <=> Fits(Signed(x, 65536) + Signed(y, 65536), 65536)

DifferenceOfWords ==
    \A v \in Operands :
        (Subb(v) /\ pair.op = "sub") =>
            LET x == Word(ACC, pair.x)
                y == Word(v, pair.y)
            IN  /\ Word(ACC', pair.low) = (x - y) % 65536
                /\ C' = 1 <=> x < y
                /\ (ACC' >= 128) # (OV' = 1) <=> Signed(x, 65536) < Signed(y, 65536)

DivisionUndoes ==
    /\ Mul => Word(B', ACC') = ACC * B /\ (OV' = 1 <=> ACC * B > 255)
    /\ Div /\ B # 0 => ACC' * B + B' = ACC /\ B' < B /\ OV' = 0
    /\ Div /\ B = 0 => ACC' = ACC /\ OV' = 1

WideArithmetic == [][SumOfWords /\ DifferenceOfWords /\ DivisionUndoes]_aluVars

(* DA after an ADD of decimal bytes leaves the decimal sum and carry, if    *)
(* AC holds the carry out of the low digit when DA reads it, or the low    *)
(* digit of the sum calls for the correction by itself.  The handlers of   *)
(* ADD do not always leave that AC (AuxiliaryCarry); the program may set it *)
(* before DA.                                                              *)
DecimalAdjust ==
    [][(/\ Da /\ pair.op = "add" /\ ACC = pair.low
        /\ IsDecimal(pair.x) /\ IsDecimal(pair.y)
        /\ AC = CarryFromBit3(pair.x, pair.y) \/ ACC % 16 > 9)
         => /\ IsDecimal(ACC')
            /\ Decimal(ACC') + 100 * C' = Decimal(pair.x) + Decimal(pair.y)]_aluVars

(* "Auxiliary carry: overflow from 3th bit to 4th bit" (opcodes.c:115): AC *)
(* after ADD and ADDC is the carry out of the low four bits.  The code     *)
(* takes it out of the low three, and DA, which relies on it, then leaves  *)
(* 8 + 8, 8 + 9 and 9 + 9 uncorrected and corrects 4 + 4 and 5 + 3.        *)
AuxiliaryCarry ==
    [][\A v \in Operands :
         /\ Add(v)  => AC' = ((ACC % 16) + (v % 16)) \div 16
         /\ Addc(v) => AC' = ((ACC % 16) + (v % 16) + C) \div 16]_aluVars
=============================================================================
