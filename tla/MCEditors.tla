----------------------------- MODULE MCEditors ------------------------------
(***************************************************************************)
(* Lines of one byte and one register in a bank.  The terminal has 5, 10   *)
(* or 16 lines: windows without lines, windows of one to three lines that  *)
(* fit their memories, and windows higher than their memories.             *)
(***************************************************************************)
EXTENDS Editors

MCSize == [a \in Areas |-> CASE a = 0 -> 4 [] a = 1 -> 2 [] a = 2 -> 5 [] OTHER -> a + 1]
=============================================================================
