---------------------------- MODULE Instructions ----------------------------
(***************************************************************************)
(* What the handler of each opcode takes from the bytes of an instruction  *)
(* (the table op_setptrs fills, and the handlers in it), and where it      *)
(* leaves the program counter.  What handlers compute is in modules Alu,   *)
(* Memory and Frames.                                                      *)
(***************************************************************************)
EXTENDS Operands

(* Variants with a slip in them, to see that the properties would notice.  *)
BitUnmasked(v) ==
    IF v > 127 THEN Bit(v, v % 8) ELSE Bit(32 + (v \div 8), v % 8)
TargetInOwnPage(pc, b) == (pc \div 2048) * 2048 + b[2] + (b[1] \div 32) * 256

-----------------------------------------------------------------------------
(* A bit address: a bit of the register it lies in, or of bytes 20h-2Fh.   *)
AccessedBit(v) ==
    IF v > 127 THEN Bit(v - (v % 8), v % 8) ELSE Bit(32 + (v \div 8), v % 8)

Rows(rows, columns) == {op \in 0..255 : op \div 16 \in rows /\ op % 16 \in columns}

AjmpAcall == Rows(0..15, {1})
Arithmetic == {2, 3, 4, 5, 6, 9}         \* ADD ADDC ORL ANL XRL SUBB

(* The targets of AJMP and ACALL, and of LJMP and LCALL. *)
PageTarget(pc, b) == (((pc + 2) % 65536) \div 2048) * 2048 + b[2] + (b[1] \div 32) * 256
LongTarget(b) == b[2] * 256 + b[3]

(* RX_ADDRESS and INDIR_RX_ADDRESS. *)
RxOf(b) == IF Column(b) > 7 THEN Register(b[1] % 8) ELSE Indirect(b[1] % 2)

(* The operands of the handlers, by the lower digit of the opcode.         *)
HandledColumn0(b) ==
    CASE b[1] = \h00 -> <<>>
      [] b[1] \in {\h10, \h20, \h30} -> <<AccessedBit(b[2]), Offset(Signed(b[3]))>>
      [] b[1] \in {\h40, \h50, \h60, \h70, \h80} -> <<Offset(Signed(b[2]))>>
      [] b[1] = \h90 -> <<DPTR, Immediate(LongTarget(b))>>
      [] b[1] \in {\hA0, \hB0} -> <<C, Complement(AccessedBit(b[2]))>>
      [] b[1] \in {\hC0, \hD0} -> <<Direct(b[2])>>
      [] b[1] = \hE0 -> <<A, AtDPTR>>
      [] b[1] = \hF0 -> <<AtDPTR, A>>

HandledColumn2(b) ==
    CASE b[1] \in {\h02, \h12} -> <<Address(LongTarget(b))>>
      [] b[1] \in {\h22, \h32} -> <<>>
      [] b[1] \in {\h42, \h52, \h62} -> <<Direct(b[2]), A>>
      [] b[1] \in {\h72, \h82, \hA2} -> <<C, AccessedBit(b[2])>>
      [] b[1] = \h92 -> <<AccessedBit(b[2]), C>>
      [] b[1] \in {\hB2, \hC2, \hD2} -> <<AccessedBit(b[2])>>
      [] b[1] = \hE2 -> <<A, RxOf(b)>>
      [] b[1] = \hF2 -> <<RxOf(b), A>>

HandledColumn3(b) ==
    CASE b[1] \in {\h03, \h13, \h23, \h33} -> <<A>>
      [] b[1] \in {\h43, \h53, \h63} -> <<Direct(b[2]), Immediate(b[3])>>
      [] b[1] = \h73 -> <<Indexed("DPTR")>>
      [] b[1] = \h83 -> <<A, Indexed("PC")>>
      [] b[1] = \h93 -> <<A, Indexed("DPTR")>>
      [] b[1] = \hA3 -> <<DPTR>>
      [] b[1] \in {\hB3, \hC3, \hD3} -> <<C>>
      [] b[1] = \hE3 -> <<A, RxOf(b)>>
      [] b[1] = \hF3 -> <<RxOf(b), A>>

HandledColumn4(b) ==
    CASE Row(b) \in {0, 1, 12, 13, 14, 15} -> <<A>>
      [] Row(b) \in Arithmetic \cup {7} -> <<A, Immediate(b[2])>>
      [] Row(b) \in {8, 10} -> <<AB>>
      [] Row(b) = 11 -> <<A, Immediate(b[2]), Offset(Signed(b[3]))>>

HandledColumn5(b) ==
    CASE Row(b) \in {0, 1} -> <<Direct(b[2])>>
      [] Row(b) \in Arithmetic \cup {12, 14} -> <<A, Direct(b[2])>>
      [] Row(b) = 7 -> <<Direct(b[2]), Immediate(b[3])>>
      [] Row(b) = 8 -> <<Direct(b[3]), Direct(b[2])>>
      [] Row(b) = 10 -> <<>>
      [] Row(b) = 11 -> <<A, Direct(b[2]), Offset(Signed(b[3]))>>
      [] Row(b) = 13 -> <<Direct(b[2]), Offset(Signed(b[3]))>>
      [] Row(b) = 15 -> <<Direct(b[2]), A>>

HandledRegister(b) ==
    CASE Row(b) \in {0, 1} -> <<RxOf(b)>>
      [] Row(b) \in Arithmetic \cup {12, 14} -> <<A, RxOf(b)>>
      [] Row(b) = 7 -> <<RxOf(b), Immediate(b[2])>>
      [] Row(b) = 8 -> IF Column(b) < 8 THEN <<Direct("pointer"), Indirect("operand")>>
                                        ELSE <<Direct(b[2]), RxOf(b)>>
      [] Row(b) = 10 -> <<RxOf(b), Direct(b[2])>>
      [] Row(b) = 11 -> <<RxOf(b), Immediate(b[2]), Offset(Signed(b[3]))>>
      [] Row(b) = 13 -> IF Column(b) < 8 THEN <<A, RxOf(b)>> ELSE <<RxOf(b), Offset(Signed(b[2]))>>
      [] Row(b) = 15 -> <<RxOf(b), A>>

Handled(pc, b) ==
    CASE Column(b) = 0 -> HandledColumn0(b)
      [] Column(b) = 1 -> <<Address(PageTarget(pc, b))>>
      [] Column(b) = 2 -> HandledColumn2(b)
      [] Column(b) = 3 -> HandledColumn3(b)
      [] Column(b) = 4 -> HandledColumn4(b)
      [] Column(b) = 5 -> HandledColumn5(b)
      [] OTHER -> HandledRegister(b)

-----------------------------------------------------------------------------
(* Where the program counter goes. *)
Behind(pc, n) == (pc + n) % 65536
Relative(pc, n, v) == (pc + n + Signed(v)) % 65536

BranchesOfTwo == {\h40, \h50, \h60, \h70} \cup Rows({13}, 8..15)
BranchesOfThree == {\h10, \h20, \h30, \hD5} \cup Rows({11}, 4..15)
Jumps == AjmpAcall \cup {\h02, \h12}
Popped == {\h22, \h32, \h73}

(* The handlers that end in PC += 2 or PC += 3; the others end in PC++. *)
PlusThree == {\h43, \h53, \h63, \h75, \h85, \h90}
PlusTwo ==
    {\h05, \h15, \hC0, \hD0} \cup Rows({2, 3, 4, 5, 6, 7, 9}, {4}) \cup Rows({2, 3, 4, 5, 6, 9, 12, 14, 15}, {5})
    \cup Rows({4, 5, 6, 7, 8, 9, 10, 11, 12, 13}, {2}) \cup {\hA0, \hB0}
    \cup Rows({7, 8, 10}, 6..15)

StepsOver(op) == CASE op \in PlusThree -> 3 [] op \in PlusTwo -> 2 [] OTHER -> 1
=============================================================================
