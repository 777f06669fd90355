--------------------------- MODULE SequentialSmt ---------------------------
(***************************************************************************)
(* The sparse Merkle tree the state keeper and the provers keep            *)
(* (merkle_tree/src/sequential_smt.rs): a hash is stored for every node    *)
(* above an item that was ever written, and all other nodes have the hash  *)
(* of an empty subtree, computed once.  A hash is named by its level,      *)
(* counted from the root, and its position in the level.                   *)
(***************************************************************************)
EXTENDS SparseTree

VARIABLES
  items,   \* the items written so far
  hashes   \* the hashes stored so far, by level and position

GetHash(level, position) ==
  IF <<level, position>> \in DOMAIN hashes
  THEN hashes[<<level, position>>]
  ELSE Prehashed[level]

RootHash == GetHash(0, 0)

\* Slip: the position is not halved from level to level.
SlipUnshifted(index) ==
  [height \in 0 .. Depth - 1 |-> GetHash(Depth - height, Sibling(index))]

MerklePath(index) ==
  [height \in 0 .. Depth - 1 |-> GetHash(Depth - height, Sibling(index \div 2^height))]

\* update_hash of a node whose child on the path has just been stored.
\* Slip: the child is taken to be the left one.
SlipLeftOnly(level, position, child) ==
  Compress(Depth - level - 1, child, GetHash(level + 1, 2 * (position \div 2) + 1))

UpdatedHash(level, position, child) ==
  Parent(Depth - level - 1, position % 2, child, GetHash(level + 1, Sibling(position)))

\* The hashes an insert stores: from the leaf up to the root.
StoredHashes(index, item) ==
  LET onPath[level \in 0 .. Depth] ==
        IF level = Depth THEN ItemHash(item)
        ELSE UpdatedHash(level, index \div 2^(Depth - level - 1), onPath[level + 1])
  IN  [node \in {<<level, index \div 2^(Depth - level)>> : level \in 0 .. Depth} |->
         onPath[node[1]]]

SeqInit == items = <<>> /\ hashes = <<>>

SeqInsert(index, item) ==
  /\ items' = With(items, Single(index, item))
  /\ hashes' = With(hashes, StoredHashes(index, item))

\* delete writes the default item.
SeqDelete(index) == SeqInsert(index, DefaultItem)

=============================================================================
