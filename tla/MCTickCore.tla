---------------------------- MODULE MCTickCore ------------------------------
(***************************************************************************)
(* TickCore with the three sources whose request flags the hardware moves: *)
(* timer 1 has to be there for a serial request to arise at all.  The two  *)
(* external sources differ only in that vectoring leaves their flag set;   *)
(* the theorems of CpuProofs hold with them too.  The power-off flag       *)
(* of PCON is left out: nothing reads it.  ShortDelays is {1} because a    *)
(* delay of 0 and one of 1 mean the same to tick(): it counts the delay    *)
(* down, where it is not 0 already, before it looks at it.                 *)
(***************************************************************************)
EXTENDS TickCore

MCSources == {"ISR_TF0", "ISR_TF1", "ISR_SR"}
MCPconBits == {"IDL", "PD"}
=============================================================================
