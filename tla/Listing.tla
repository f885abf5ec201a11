------------------------------- MODULE Listing ------------------------------
(***************************************************************************)
(* The disassembler (disasm.c): what it says of the instruction b at the   *)
(* address pos, which operands it names, in the order it prints them, and  *)
(* how many bytes it takes it to have.  Mnemonics, register names and the  *)
(* layout of the text are left out.                                        *)
(***************************************************************************)
EXTENDS Operands

(* bitaddr_memonic: a byte and a bit number. *)
PrintedBit(v) == IF v > 127 THEN Bit(8 * (v \div 8), v % 8) ELSE Bit(v \div 8, v % 8)

Page(pos) == (((pos + 2) % 65536) \div 2048) * 2048
InPage(pos, b) == Address(Page(pos) + b[2] + (b[1] \div 32) * 256)
Long(b) == 256 * b[2] + b[3]

(* Columns 4 to F of most rows name the operand the same way. *)
Printed(b) ==
    CASE Column(b) = 4 -> Immediate(b[2])
      [] Column(b) = 5 -> Direct(b[2])
      [] Column(b) \in {6, 7} -> Indirect(Column(b) % 2)
      [] OTHER -> Register(Column(b) % 8)

ListedRows0to3(pos, b) ==
    CASE Column(b) = 0 -> <<PrintedBit(b[2]), Offset(Signed(b[3]))>>
      [] Column(b) = 1 -> <<InPage(pos, b)>>
      [] b[1] \in {\h02, \h12} -> <<Address(Long(b))>>
      [] b[1] \in {\h22, \h32} -> <<>>
      [] Column(b) = 3 \/ b[1] \in {\h04, \h14} -> <<A>>
      [] Row(b) < 2 /\ Column(b) > 4 -> <<Printed(b)>>
      [] OTHER -> <<A, Printed(b)>>

ListedRows4to7(pos, b) ==
    CASE Column(b) = 0 -> <<Offset(Signed(b[2]))>>
      [] Column(b) = 1 -> <<InPage(pos, b)>>
      [] b[1] = \h72 -> <<C, PrintedBit(b[2])>>
      [] b[1] = \h73 -> <<Indexed("DPTR")>>
      [] b[1] = \h74 -> <<A, Immediate(b[2])>>
      [] b[1] = \h75 -> <<Direct(b[2]), Immediate(b[3])>>
      [] Row(b) = 7 /\ Column(b) > 5 -> <<Printed(b), Immediate(b[2])>>
      [] Row(b) < 7 /\ Column(b) = 2 -> <<Direct(b[2]), A>>
      [] Row(b) < 7 /\ Column(b) = 3 -> <<Direct(b[2]), Immediate(b[3])>>
      [] OTHER -> <<A, Printed(b)>>

ListedRows8toB(pos, b) ==
    CASE b[1] = \h80 -> <<Offset(Signed(b[2]))>>
      [] Column(b) = 1 -> <<InPage(pos, b)>>
      [] b[1] = \h90 -> <<DPTR, Immediate(Long(b))>>
      [] b[1] \in {\hA0, \hB0} -> <<C, Complement(PrintedBit(b[2]))>>
      [] b[1] \in {\h82, \hA2} -> <<C, PrintedBit(b[2])>>
      [] b[1] = \h92 -> <<PrintedBit(b[2]), C>>
      [] b[1] = \hB2 -> <<PrintedBit(b[2])>>
      [] b[1] = \h83 -> <<A, Indexed("PC")>>
      [] b[1] = \h93 -> <<A, Indexed("DPTR")>>
      [] b[1] = \hA3 -> <<DPTR>>
      [] b[1] = \hB3 -> <<C>>
      [] b[1] \in {\h84, \hA4} -> <<AB>>
      [] b[1] = \hA5 -> <<>>
      [] b[1] = \h85 -> <<Direct(b[3]), Direct(b[2])>>
      [] Row(b) = 8 /\ Column(b) > 5 -> <<Direct(b[2]), Printed(b)>>
      [] Row(b) = 9 /\ Column(b) > 3 -> <<A, Printed(b)>>
      [] Row(b) = 10 /\ Column(b) > 5 -> <<Printed(b), Direct(b[2])>>
      [] Row(b) = 11 /\ Column(b) \in {4, 5} -> <<A, Printed(b), Offset(Signed(b[3]))>>
      [] OTHER -> <<Printed(b), Immediate(b[2]), Offset(Signed(b[3]))>>

ListedRowsCtoF(pos, b) ==
    CASE b[1] \in {\hC0, \hD0} -> <<Direct(b[2])>>
      [] Column(b) = 1 -> <<InPage(pos, b)>>
      [] b[1] = \hE0 -> <<A, AtDPTR>>
      [] b[1] = \hF0 -> <<AtDPTR, A>>
      [] b[1] \in {\hC2, \hD2} -> <<PrintedBit(b[2])>>
      [] b[1] \in {\hC3, \hD3} -> <<C>>
      [] Column(b) = 4 -> <<A>>
      [] b[1] \in {\hE2, \hE3} -> <<A, Indirect(b[1] % 2)>>
      [] b[1] \in {\hF2, \hF3} -> <<Indirect(b[1] % 2), A>>
      [] b[1] = \hD5 -> <<Direct(b[2]), Offset(Signed(b[3]))>>
      [] b[1] \in \hD8 .. \hDF -> <<Printed(b), Offset(Signed(b[2]))>>
      [] Row(b) = 15 /\ Column(b) > 4 -> <<Printed(b), A>>
      [] OTHER -> <<A, Printed(b)>>

Listed(pos, b) ==
    CASE b[1] = 0 -> <<>>
      [] b[1] # 0 /\ Row(b) < 4 -> ListedRows0to3(pos, b)
      [] Row(b) \in 4..7 -> ListedRows4to7(pos, b)
      [] Row(b) \in 8..11 -> ListedRows8toB(pos, b)
      [] OTHER -> ListedRowsCtoF(pos, b)

(* What the functions of the table dec return. *)
ThreeBytes ==
    {\h02, \h10, \h12, \h20, \h30, \h43, \h53, \h63, \h75, \h85, \h90, \hD5} \cup \hB4 .. \hBF
TwoBytes ==
    {16 * row + 1 : row \in 0..15} \cup \h76 .. \h7F \cup \h86 .. \h8F \cup \hA6 .. \hAF
    \cup \hD8 .. \hDF
    \cup {\h05, \h15, \h24, \h25, \h34, \h35, \h40, \h42, \h44, \h45, \h50, \h52, \h54, \h55,
          \h60, \h62, \h64, \h65, \h70, \h72, \h74, \h80, \h82, \h92, \h94, \h95, \hA0, \hA2,
          \hB0, \hB2, \hC0, \hC2, \hC5, \hD0, \hD2, \hE5, \hF5}

ListedBytes(op) == CASE op \in ThreeBytes -> 3 [] op \in TwoBytes -> 2 [] OTHER -> 1

-----------------------------------------------------------------------------
(* Where a reader of the line expects the program to go on: at the target  *)
(* of a jump or call, behind the line, or at either.                       *)
Always == {16 * row + 1 : row \in 0..15} \cup {\h02, \h12, \h80}
Computed == {\h22, \h32, \h73}           \* RET, RETI, JMP @A+DPTR
LastAddress == 65535

LeadsTo(pos, b, operand) ==
    IF operand[1] = "offset"
    THEN (((pos + ListedBytes(b[1])) % 65536) + operand[2]) % 65536
    ELSE operand[2]

ListedJumps(pos, b) ==
    LET operands == Listed(pos, b)
    IN  {LeadsTo(pos, b, operands[k]) :
            k \in {j \in 1 .. Len(operands) : operands[j][1] \in {"offset", "address"}}}

ListedNext(pos, b) ==
    CASE b[1] \in Computed -> 0 .. LastAddress
      [] b[1] \in Always -> ListedJumps(pos, b)
      [] OTHER -> ListedJumps(pos, b) \cup {(pos + ListedBytes(b[1])) % 65536}
=============================================================================
