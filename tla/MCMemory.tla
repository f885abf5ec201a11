------------------------------ MODULE MCMemory ------------------------------
(***************************************************************************)
(* Register 0 of two banks, which may point to a byte of bits, to the      *)
(* upper RAM, to themselves; a port with some pins held low; a lock in RAM *)
(* and one in the port.                                                    *)
(***************************************************************************)
EXTENDS Memory

MCCells ==
    {ACC, PSW, DPL, DPH, <<"sfr", 144>>, <<"ram", 0>>, <<"ram", 8>>, <<"ram", 32>>,
     <<"ram", 144>>, <<"ext", 0>>, <<"ext", 1>>}
MCPorts == {144}
MCPins == {255, 249}
MCNoise == {0, 255}
MCImmediates == {8, 144}
MCRegisterNumbers == {0}
MCBitAddresses == {1, 145, 211}        \* of RAM, of P1, and RS0
MCLocks == {1, 145}
MCStart ==
    {[c \in MCCells |->
        CASE c = ACC -> a
          [] c = PSW -> psw
          [] c = <<"ram", 0>> -> r0
          [] c = <<"ram", 8>> -> 8
          [] c = <<"ram", 32>> -> 2
          [] c = <<"sfr", 144>> -> latch
          [] c = <<"ram", 144>> -> 90
          [] c = DPL -> 255
          [] OTHER -> 0] :
       a \in {0, 7}, psw \in {0, 136}, r0 \in {32, 144}, latch \in {255, 252}}
=============================================================================
