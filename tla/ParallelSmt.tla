---------------------------- MODULE ParallelSmt ----------------------------
(***************************************************************************)
(* The sparse Merkle tree with batch updates                               *)
(* (merkle_tree/src/parallel_smt.rs): a path-compressed binary tree of     *)
(* nodes.  An insert changes nodes and removes from the cache the hashes   *)
(* it makes stale; root_hash computes what the cache misses and stores it. *)
(* The index of the root is 1, and those of the children of i are 2i and   *)
(* 2i + 1.                                                                 *)
(***************************************************************************)
EXTENDS SparseTree, Sequences, Functions

CONSTANT NoRef    \* a missing child

ASSUME NoRefIsNone == NoRef \notin Nat

VARIABLES
  written,   \* items: the items written so far
  nodes,     \* the nodes, in the order of their creation; the root is the first
  cache      \* hashes by index

Node(index, depth, left, right) ==
  [index |-> index, depth |-> depth,
   child |-> [dir \in {0, 1} |-> IF dir = 0 THEN left ELSE right]]

DepthOf(index) == CHOOSE d \in 0 .. Depth : 2^d <= index /\ index < 2^(d + 1)

\* The ancestor at a depth, possibly the node itself.
Up(index, depth) == index \div 2^(DepthOf(index) - depth)

Between(child, parent) ==
  {Up(child, d) : d \in DepthOf(parent) + 1 .. DepthOf(child) - 1}

\* "intersection index is the longest common prefix"
Intersection(i, j) ==
  Up(i, CHOOSE d \in 0 .. DepthOf(i) :
          Up(i, d) = Up(j, d) /\ \A e \in d + 1 .. DepthOf(i) : Up(i, e) # Up(j, e))

LeafIndex(item) == 2^Depth + item

----------------------------------------------------------------------------

\* wipe_cache: what is removed of the hashes above a node up to its parent.
\* Slip: those of the link are kept.
SlipWipeChild(child, parent) == {child} \cap DOMAIN cache

Wiped(child, parent) ==
  IF child \in DOMAIN cache THEN {child} \cup Between(child, parent) ELSE {}

\* The hash of the root is stale whatever is inserted.
\* Slip: it is kept.
SlipKeepRoot(wiped) == Restrict(cache, DOMAIN cache \ wiped)

CacheWithout(wiped) == Restrict(cache, DOMAIN cache \ ({1} \cup wiped))

\* The walk of insert from the root: the node it ends at, how, and the hashes
\* that were removed on the way.
Walk(leaf) ==
  LET from[ref \in {r \in DOMAIN nodes : nodes[r].depth < Depth}] ==
        LET cur   == nodes[ref]
            dir   == Up(leaf, cur.depth + 1) % 2
            link  == cur.child[dir]
            next  == nodes[link]
            inter == Intersection(Up(leaf, next.depth), next.index)
            End(how, wiped) == [ref |-> ref, dir |-> dir, how |-> how, wiped |-> wiped]
        IN  IF link = NoRef THEN End("free link", {})
            ELSE IF Up(leaf, next.depth) # next.index
                 THEN End("other branch", Wiped(inter, cur.index))
            ELSE IF next.index = leaf
                 THEN End("leaf", Wiped(leaf, cur.index))
            ELSE LET rest == from[link]
                 IN  [rest EXCEPT !.wiped = @ \cup Wiped(next.index, cur.index)]
  IN  from[1]

\* A leaf is linked to the node where the walk ended, or, where another branch
\* was met, to a new node at the intersection.
\* Slip: the two children of the new node are swapped.
SlipSwapped(leaf, other) == TRUE

LeafIsLeft(leaf, other) == ~(Up(leaf, DepthOf(other)) > other)

NodesWith(leaf, walk) ==
  LET leafRef == Len(nodes) + 1
      grown   == Append(nodes, Node(leaf, Depth, NoRef, NoRef))
      old     == nodes[walk.ref].child[walk.dir]
      inter   == Intersection(Up(leaf, nodes[old].depth), nodes[old].index)
      split   == IF LeafIsLeft(leaf, nodes[old].index)
                 THEN Node(inter, DepthOf(inter), leafRef, old)
                 ELSE Node(inter, DepthOf(inter), old, leafRef)
  IN  CASE walk.how = "leaf"         -> nodes
        [] walk.how = "free link"    ->
             [grown EXCEPT ![walk.ref].child[walk.dir] = leafRef]
        [] walk.how = "other branch" ->
             [Append(grown, split) EXCEPT ![walk.ref].child[walk.dir] = leafRef + 1]

----------------------------------------------------------------------------

\* get_hash_line: from a child, whose hash is given, up the link to the node.
LineHashes(node, child, hash) ==
  LET line[d \in node.depth + 1 .. child.depth] ==
        IF d = child.depth THEN hash
        ELSE Parent(Depth - d - 1, Up(child.index, d + 1) % 2, line[d + 1], Prehashed[d + 1])
  IN  line

\* get_child_hash: a hash, and the hashes computed for it.  The results of
\* get_hash for the nodes below are given.
ChildHash(node, dir, of) ==
  LET index == 2 * node.index + dir
      link  == node.child[dir]
      child == nodes[link]
      line  == LineHashes(node, child, of[link].hash)
  IN  IF index \in DOMAIN cache THEN [hash |-> cache[index], updates |-> <<>>]
      ELSE IF link = NoRef THEN [hash |-> Prehashed[node.depth + 1], updates |-> <<>>]
      ELSE [hash    |-> line[node.depth + 1],
            updates |-> With(of[link].updates,
                             [i \in Between(child.index, node.index) |-> line[DepthOf(i)]])]

\* get_hash
NodeHash(node, of) ==
  LET left  == ChildHash(node, 0, of)
      right == ChildHash(node, 1, of)
      item  == ItemHash(written[node.index - 2^Depth])
      hash  == Compress(Depth - node.depth - 1, left.hash, right.hash)
  IN  IF node.depth = Depth
      THEN [hash |-> item, updates |-> Single(node.index, item)]
      ELSE [hash    |-> hash,
            updates |-> With(With(left.updates, right.updates), Single(node.index, hash))]

Computed == LET of[ref \in DOMAIN nodes] == NodeHash(nodes[ref], of) IN of[1]

----------------------------------------------------------------------------

ParInit ==
  /\ written = <<>>
  /\ nodes = <<Node(1, 0, NoRef, NoRef)>>
  /\ cache = <<>>

ParInsert(index, item) ==
  LET walk == Walk(LeafIndex(index)) IN
  /\ written' = With(written, Single(index, item))
  /\ nodes' = NodesWith(LeafIndex(index), walk)
  /\ cache' = CacheWithout(walk.wiped)

ParRootHash ==
  /\ cache' = With(cache, Computed.updates)
  /\ UNCHANGED <<written, nodes>>

=============================================================================
