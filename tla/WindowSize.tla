----------------------------- MODULE WindowSize -----------------------------
(***************************************************************************)
(* The size of the window of cheque numbers: the parameters of BitSet      *)
(* (circuit/src/cheque/bitwindow.rs) that both NumberWindow and BitWindow  *)
(* have.                                                                   *)
(***************************************************************************)
EXTENDS Integers

CONSTANTS
  Width,       \* bitfield_length: the places of the register
  Stride,      \* shift_length: how far one number may move the window
  StartLimit   \* the start of the window is less than this

ASSUME WindowConstants ==
  /\ Width \in Nat \ {0}
  /\ Stride \in Nat
  /\ StartLimit \in Nat \ {0}

=============================================================================
