----------------------------- MODULE MCSubmitTx -----------------------------
(***************************************************************************)
(* Instances of the submit handler for TLC.                                *)
(***************************************************************************)
EXTENDS SubmitTx, TLC

CONSTANTS c1, c2, c3

ThreeClients == {c1, c2, c3}

Symmetric == Permutations(ThreeClients)

=============================================================================
