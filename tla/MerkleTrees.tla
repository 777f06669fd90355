---------------------------- MODULE MerkleTrees ----------------------------
(***************************************************************************)
(* The two implementations of the sparse Merkle tree, given the same       *)
(* writes, against each other and against the definition of the tree.      *)
(***************************************************************************)
EXTENDS SequentialSmt, ParallelSmt, FiniteSets

CONSTANT Index    \* the leaves that are written

ASSUME IndicesInTree == Index \subseteq 0 .. 2^Depth - 1

vars == <<items, hashes, written, nodes, cache>>

Init == SeqInit /\ ParInit

Insert(index, item) == SeqInsert(index, item) /\ ParInsert(index, item)

\* The parallel tree has no delete.
Delete(index) == SeqDelete(index) /\ ParInsert(index, DefaultItem)

ReadRoot == ParRootHash /\ UNCHANGED <<items, hashes>>

Next ==
  \/ \E index \in Index, item \in Item : Insert(index, item)
  \/ \E index \in Index : Delete(index)
  \/ ReadRoot

Spec == Init /\ [][Next]_vars

----------------------------------------------------------------------------
(***************************************************************************)
(* Properties                                                              *)
(***************************************************************************)

HashedItems ==
  [i \in 0 .. 2^Depth - 1 |->
     IF i \in DOMAIN items THEN ItemHash(items[i]) ELSE ItemHash(DefaultItem)]

\* The hash of the node at a level from the root.
Reference(level, position) == Hashes(HashedItems)[Depth - level][position]

Below(ref, dir) ==
  LET child == nodes[nodes[ref].child[dir]] IN
  /\ child.depth > nodes[ref].depth
  /\ Up(child.index, nodes[ref].depth + 1) = 2 * nodes[ref].index + dir

IsLeaf(ref) == nodes[ref].depth = Depth

\* The maps hold values of their types, and the nodes form a compressed tree:
\* below the root a node has two children or is the leaf of an item that was
\* written, each written item has one leaf, and a child lies on its side below
\* its parent.
TypeOK ==
  /\ DOMAIN items = DOMAIN written /\ DOMAIN items \subseteq Index
  /\ DOMAIN hashes \subseteq (0 .. Depth) \X (0 .. 2^Depth - 1)
  /\ DOMAIN cache \subseteq 1 .. 2^(Depth + 1) - 1
  /\ \A ref \in DOMAIN nodes :
       /\ nodes[ref].depth = DepthOf(nodes[ref].index)
       /\ \A dir \in {0, 1} :
            nodes[ref].child[dir] = NoRef => IsLeaf(ref) \/ ref = 1
       /\ \A dir \in {0, 1} :
            nodes[ref].child[dir] # NoRef => Below(ref, dir)
  /\ \A i \in DOMAIN written :
       Cardinality({ref \in DOMAIN nodes : nodes[ref].index = LeafIndex(i)}) = 1

\* Whatever was written, in whatever order, the stored hashes together with
\* those computed in advance are the hashes of all nodes.
StoredHashesExact ==
  \A level \in 0 .. Depth : \A position \in 0 .. 2^level - 1 :
    GetHash(level, position) = Reference(level, position)

\* An authentication path leads from its leaf to the root: what the circuits
\* are given as a witness.
PathsOpenRoot ==
  \A i \in 0 .. 2^Depth - 1 : Ascended(HashedItems[i], i, MerklePath(i)) = RootHash

\* No stale hash is left in the cache of the parallel tree by an insert that
\* follows a link, ends at a leaf, or splits a link.
CacheExact ==
  \A i \in DOMAIN cache : cache[i] = Reference(DepthOf(i), i - 2^DepthOf(i))

\* After any writes and any earlier calls of root_hash, each of which left its
\* hashes in the cache, both trees have the same root.
RootsEqual == Computed.hash = RootHash

=============================================================================
