---------------------------- MODULE MCBitWindow ----------------------------
(***************************************************************************)
(* An instance of the bit window for TLC: a register of four bits, windows *)
(* that start below 8, and every number of a field of 19 elements, of      *)
(* which 0 to 12 have a second decomposition into five bits.               *)
(***************************************************************************)
EXTENDS BitWindow

=============================================================================
