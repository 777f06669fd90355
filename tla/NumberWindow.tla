---------------------------- MODULE NumberWindow ----------------------------
(***************************************************************************)
(* What the bit window of cheques (circuit/src/cheque/bitwindow.rs) is     *)
(* for: numbers are redeemed in any order, each at most once, and all that *)
(* is remembered of them is a register with one place per number of a      *)
(* window that moves forwards.  Here the register is the set of the places *)
(* that are taken; module BitWindow has the arithmetic of the circuit and  *)
(* is shown to implement this module.                                      *)
(***************************************************************************)
EXTENDS WindowSize

VARIABLES
  register,   \* the places taken, relative to the start of the window
  start,      \* the number of place 0
  redeemed    \* all numbers ever redeemed: nothing the code has

vars == <<register, start, redeemed>>

----------------------------------------------------------------------------

\* A number behind the window moves it until the number has the last place.
Advance(distance) == IF distance < Width THEN 0 ELSE distance + 1 - Width

\* What is left of the register: the places below the new start drop out.
Moved(places, by) == {p - by : p \in {q \in places : q >= by}}

Init ==
  /\ register = {}
  /\ start \in 0 .. StartLimit - 1
  /\ redeemed = {}

\* Whether a number is new is decided by the register alone.
Redeem(number) ==
  LET distance == number - start
      by       == Advance(distance)
  IN
  /\ distance \in 0 .. Width + Stride - 1
  /\ distance - by \notin Moved(register, by)
  /\ start + by < StartLimit
  /\ register' = Moved(register, by) \cup {distance - by}
  /\ start' = start + by
  /\ redeemed' = redeemed \cup {number}

\* None beyond these is ever within reach.
Numbers == 0 .. StartLimit + Width + Stride

Next == \E number \in Numbers : Redeem(number)

Spec == Init /\ [][Next]_vars

----------------------------------------------------------------------------
(***************************************************************************)
(* Properties                                                              *)
(***************************************************************************)

\* The register has its width and the start its limit.
TypeOK ==
  /\ register \subseteq 0 .. Width - 1
  /\ start \in 0 .. StartLimit - 1
  /\ redeemed \subseteq Numbers

\* The register holds exactly the redeemed numbers from the start of the
\* window on, and none was redeemed beyond the window: moving the window
\* forgets numbers only below its start, where none is redeemed again.
RegisterExact ==
  /\ register = {n - start : n \in {m \in redeemed : m >= start}}
  /\ \A n \in redeemed : n < start + Width

\* No number is redeemed twice, however often the window has moved since.
RedeemedOnce ==
  [][\E number \in Numbers \ redeemed : redeemed' = redeemed \cup {number}]_vars

\* The window never moves back, where numbers are forgotten already.
NeverBack == [][start' >= start]_vars

=============================================================================
