----------------------------- MODULE MerkleTree -----------------------------
(***************************************************************************)
(* What the hash tree over 2^Depth leaves is: the definition the circuits  *)
(* are written against and the implementations of merkle_tree are compared *)
(* with.  A hash is the tuple of what is hashed, as the hash functions are *)
(* taken to be injective; levels are counted from the leaves, as in the    *)
(* personalization of the hash of two nodes.                               *)
(***************************************************************************)
EXTENDS Naturals

CONSTANT Depth

ASSUME DepthPositive == Depth \in Nat \ {0}

Positions(level) == 0 .. 2^(Depth - level) - 1

\* The compression of two hashes into one on the level above.
Compress(level, left, right) == <<"node", level, left, right>>

\* The other one of two siblings.
Sibling(position) == IF position % 2 = 0 THEN position + 1 ELSE position - 1

\* cur and its sibling, put in their order: cur is on the right if bit is 1.
Parent(level, bit, cur, other) ==
  IF bit = 1 THEN Compress(level, other, cur) ELSE Compress(level, cur, other)

\* The hashes of all nodes, by level and position.
Hashes(leafHashes) ==
  LET at[level \in 0 .. Depth] ==
        [k \in Positions(level) |->
           IF level = 0 THEN leafHashes[k]
           ELSE Compress(level - 1, at[level - 1][2 * k], at[level - 1][2 * k + 1])]
  IN  at

Root(leafHashes) == Hashes(leafHashes)[Depth][0]

Path(leafHashes, index) ==
  [level \in 0 .. Depth - 1 |-> Hashes(leafHashes)[level][Sibling(index \div 2^level)]]

\* The root one gets by ascending from a leaf along its authentication path.
Ascended(hash, index, path) ==
  LET up[level \in 0 .. Depth] ==
        IF level = 0 THEN hash
        ELSE Parent(level - 1, (index \div 2^(level - 1)) % 2, up[level - 1], path[level - 1])
  IN  up[Depth]

=============================================================================
