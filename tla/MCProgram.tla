----------------------------- MODULE MCProgram ------------------------------
(***************************************************************************)
(* Every opcode (of those with a register, R0 and R7), in front of a page  *)
(* boundary, and some at the end of the memory; then a record over an      *)
(* operand, one with a wrong checksum, and the end record, in one file or  *)
(* two.                                                                    *)
(***************************************************************************)
EXTENDS Program

Checksum(sum) == (1024 - sum) % 256
At(a, op, x, y) ==
    <<3, a \div 256, a % 256, 0, op, x, y, Checksum(3 + (a \div 256) + (a % 256) + op + x + y)>>
Opcodes ==
    {At(2046, op, \h87, \hFD) : op \in {o \in Bytes : o % 16 \in 0..8 \cup {15}}}
    \cup {At(2046, op, \h05, \h87) : op \in {\h10, \h72, \h85, \hA0, \hB5, \hF1}}
    \cup {<<2, 255, 254, 0, op, 254, Checksum(765 + op)>> : op \in {\h21, \h40, \h80, \hD8}}
EndRecord == <<0, 0, 0, 1, 255>>
MCRecords ==
    <<Opcodes \cup {<<0, 0, 0, 4, 252>>},
      {EndRecord, <<1, 7, 255, 0, \h81, Checksum(\h188)>>, <<1, 7, 255, 0, \h81, 0>>},
      {EndRecord}>>
MCWhole == Opcodes \ {At(2046, \h75, \h87, \hFD)}
MCPCs == {2046, 65534}
MCElsewhere == {2047}
MCVectors == {3}
=============================================================================
