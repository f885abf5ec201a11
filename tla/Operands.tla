------------------------------ MODULE Operands ------------------------------
(***************************************************************************)
(* An instruction in memory is the tuple of its opcode and of the two      *)
(* bytes behind it, whether it uses them or not.  An operand is a kind and *)
(* a value: what a handler of opcodes.c accesses, or what a line of the    *)
(* disassembler names.                                                     *)
(***************************************************************************)
EXTENDS Integers, Sequences

Row(b) == b[1] \div 16
Column(b) == b[1] % 16

A == <<"A">>
C == <<"C">>
AB == <<"AB">>
DPTR == <<"DPTR">>
AtDPTR == <<"@DPTR">>
Direct(a) == <<"direct", a>>
Indirect(n) == <<"@R", n>>
Register(n) == <<"R", n>>
Immediate(v) == <<"#", v>>
Bit(byte, n) == <<"bit", byte, n>>
Complement(bit) == <<"/", bit>>
Offset(n) == <<"offset", n>>
Address(a) == <<"address", a>>
Indexed(base) == <<"@A+", base>>

Signed(v) == IF v < 128 THEN v ELSE v - 256      \* (signed char)
=============================================================================
