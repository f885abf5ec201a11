------------------------------ MODULE MCSerial ------------------------------
(***************************************************************************)
(* Frames of two bits and a ring of two bytes: four frames fill it twice,  *)
(* and the restarts and resets in between come at every index.             *)
(***************************************************************************)
EXTENDS Serial
=============================================================================
