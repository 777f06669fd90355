--------------------------- MODULE MCMerkleTrees ---------------------------
(***************************************************************************)
(* Instances of the Merkle trees for TLC: eight leaves, of which neighbours*)
(* and leaves whose paths part at each level are written.                  *)
(***************************************************************************)
EXTENDS MerkleTrees

MCIndex == {0, 1, 3, 6}

=============================================================================
