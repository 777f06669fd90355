----------------------------- MODULE SparseTree -----------------------------
(***************************************************************************)
(* What the two implementations of the sparse Merkle tree share: both take *)
(* an item that was never written for the default one, and compute the     *)
(* hashes of empty subtrees once (new in merkle_tree/src).                 *)
(***************************************************************************)
EXTENDS MerkleTree

CONSTANTS
  Item,         \* contents of a leaf
  DefaultItem   \* T::default()

ASSUME DefaultIsItem == DefaultItem \in Item

\* A map with what is written into it.
With(map, new) ==
  [key \in DOMAIN map \cup DOMAIN new |-> IF key \in DOMAIN new THEN new[key] ELSE map[key]]

Single(key, value) == [k \in {key} |-> value]

ItemHash(item) == <<"leaf", item>>

\* The hash of an empty subtree whose root has a level, counted from the root
\* of the tree.
Prehashed ==
  LET empty[level \in 0 .. Depth] ==
        IF level = Depth THEN ItemHash(DefaultItem)
        ELSE Compress(Depth - level - 1, empty[level + 1], empty[level + 1])
  IN  empty

=============================================================================
