------------------------- MODULE MerkleTreesProofs -------------------------
(***************************************************************************)
(* Proofs about the two implementations of the sparse Merkle tree: which   *)
(* index is above which; the hashes of a tree by index; the sequential     *)
(* tree, whose stored hashes are those of the tree; the nodes of the       *)
(* parallel tree, the walk of an insert and what it makes of the nodes and *)
(* of the cache; what root_hash computes; and the theorems about both.     *)
(* Of LedgerLemmas only the lemmas on numbers and on the tree are used.    *)
(***************************************************************************)
EXTENDS MerkleTrees, LedgerLemmas

----------------------------------------------------------------------------
\* Indices of nodes

Indices == 1 .. 2^(Depth + 1) - 1

\* The indices at a depth.
Row(d) == 2^d .. 2^(d + 1) - 1

LEMMA PowersGrow ==
  ASSUME NEW m \in Nat, NEW n \in Nat, m <= n
  PROVE  2^m <= 2^n
<1> DEFINE T == {k \in Nat : 2^m <= 2^(m + k)}
<1>1. 0 \in T
  <2>1. m + 0 = m /\ 2^m \in Nat
    BY PowerIsNat
  <2> QED
    BY <2>1
<1>2. ASSUME NEW k \in Nat, k \in T PROVE k + 1 \in T
  <2>1. m + k \in Nat /\ m + (k + 1) = (m + k) + 1
    OBVIOUS
  <2>2. 2^((m + k) + 1) = 2 * 2^(m + k) /\ 2^(m + k) \in Nat
    BY <2>1, PowerOfNext, PowerIsNat
  <2>3. PICK w \in Nat : w = 2^(m + k)
    BY <2>2
  <2>4. PICK v \in Nat : v = 2^m
    BY PowerIsNat
  <2>5. v <= w
    BY <1>2, <2>3, <2>4
  <2>6. 2^m <= 2^(m + (k + 1))
    BY <2>1, <2>2, <2>3, <2>4, <2>5
  <2> QED
    BY <2>6
<1> HIDE DEF T
<1>3. n - m \in Nat /\ m + (n - m) = n
  OBVIOUS
<1>4. n - m \in T
  BY <1>1, <1>2, <1>3, NatSetInduction
<1> QED
  BY <1>3, <1>4 DEF T

LEMMA RowBounds ==
  ASSUME NEW d \in Nat
  PROVE  /\ 2^d \in Nat \ {0} /\ 2^(d + 1) \in Nat /\ 2^(d + 1) = 2 * 2^d
         /\ \A i : i \in Row(d) <=> i \in Nat /\ 2^d <= i /\ i < 2 * 2^d
<1> PICK w \in Nat \ {0} : w = 2^d
  BY PowerIsPositive
<1>1. 2^(d + 1) = 2 * w
  BY PowerOfNext
<1> QED
  BY <1>1 DEF Row

LEMMA DepthIs ==
  ASSUME NEW d \in 0 .. Depth, NEW i \in Row(d)
  PROVE  DepthOf(i) = d
<1>1. d \in Nat /\ i \in Nat
  BY DepthPositive, RowBounds
<1>2. 2^d <= i /\ i < 2^(d + 1)
  BY <1>1, RowBounds
<1>3. ASSUME NEW e \in 0 .. Depth, 2^e <= i, i < 2^(e + 1), e # d PROVE FALSE
  <2>1. e \in Nat
    BY DepthPositive
  <2>2. CASE e < d
    <3>1. 2^(e + 1) <= 2^d
      BY <1>1, <2>1, <2>2, PowersGrow
    <3> QED
      BY <1>1, <1>2, <1>3, <2>1, <3>1, RowBounds
  <2>3. CASE d < e
    <3>1. 2^(d + 1) <= 2^e
      BY <1>1, <2>1, <2>3, PowersGrow
    <3> QED
      BY <1>1, <1>2, <1>3, <2>1, <3>1, RowBounds
  <2> QED
    BY <1>1, <1>3, <2>1, <2>2, <2>3
<1> QED
  BY <1>2, <1>3 DEF DepthOf

LEMMA RowsAreIndices ==
  ASSUME NEW d \in 0 .. Depth
  PROVE  Row(d) \subseteq Indices
<1>1. d \in Nat /\ Depth \in Nat /\ d + 1 \in Nat /\ Depth + 1 \in Nat /\ d + 1 <= Depth + 1
  BY DepthPositive
<1>2. PICK v \in Nat \ {0}, w \in Nat : v = 2^d /\ w = 2^(Depth + 1)
  BY <1>1, RowBounds
<1>3. 2 * v <= w
  BY <1>1, <1>2, PowersGrow, RowBounds
<1> QED
  BY <1>1, <1>2, <1>3, RowBounds DEF Indices

LEMMA IndexHasRow ==
  ASSUME NEW i \in Indices
  PROVE  i \in Nat /\ DepthOf(i) \in 0 .. Depth /\ i \in Row(DepthOf(i))
<1> DEFINE T == {n \in Nat : \A k \in 1 .. 2^(n + 1) - 1 : \E d \in 0 .. n : k \in Row(d)}
<1>1. 0 \in T
  <2>1. 2^(0 + 1) = 2 /\ 2^0 = 1
    BY PowerOfZero, RowBounds
  <2>2. ASSUME NEW k \in 1 .. 2^(0 + 1) - 1 PROVE k \in Row(0)
    BY <2>1 DEF Row
  <2>3. 0 \in 0 .. 0
    OBVIOUS
  <2> QED
    BY <2>2, <2>3
<1>2. ASSUME NEW n \in Nat, n \in T PROVE n + 1 \in T
  <2>1. SUFFICES ASSUME NEW k \in 1 .. 2^((n + 1) + 1) - 1 PROVE \E d \in 0 .. n + 1 : k \in Row(d)
    OBVIOUS
  <2>2. n + 1 \in Nat
    OBVIOUS
  <2>3. PICK w \in Nat \ {0} : w = 2^(n + 1)
    BY <2>2, PowerIsPositive
  <2>4. 2^((n + 1) + 1) = 2 * w
    BY <2>2, <2>3, PowerOfNext
  <2>5. CASE k < w
    <3>1. k \in 1 .. 2^(n + 1) - 1
      BY <2>3, <2>4, <2>5
    <3>2. PICK d \in 0 .. n : k \in Row(d)
      BY <1>2, <3>1
    <3> QED
      BY <3>2
  <2>6. CASE ~(k < w)
    <3>1. k \in Row(n + 1)
      BY <2>3, <2>4, <2>6 DEF Row
    <3> QED
      BY <3>1
  <2> QED
    BY <2>5, <2>6
<1> HIDE DEF T
<1>3. Depth \in T
  BY <1>1, <1>2, NatSetInduction, DepthPositive
<1>4. PICK d \in 0 .. Depth : i \in Row(d)
  BY <1>3 DEF T, Indices
<1>5. d \in Nat
  BY DepthPositive
<1> QED
  BY <1>4, <1>5, DepthIs, RowBounds

\* Half of an index is the index of the node above.
LEMMA UpOnce ==
  ASSUME NEW i \in Indices
  PROVE  /\ Up(i, DepthOf(i)) = i
         /\ \A e \in 0 .. DepthOf(i) - 1 : Up(i, e) = Up(i, e + 1) \div 2
<1> PICK d \in 0 .. Depth : d = DepthOf(i)
  BY IndexHasRow
<1>1. i \in Nat /\ d \in Nat
  BY IndexHasRow, DepthPositive
<1>2. Up(i, d) = i
  <2>1. d - d = 0 /\ i \div 1 = i
    BY <1>1
  <2>2. Up(i, d) = i \div 2^(d - d)
    BY DEF Up
  <2> QED
    BY <2>1, <2>2, PowerOfZero
<1>3. ASSUME NEW e \in 0 .. d - 1 PROVE Up(i, e) = Up(i, e + 1) \div 2
  <2>1. d - (e + 1) \in Nat /\ d - e = (d - (e + 1)) + 1
    BY <1>1
  <2>2. PICK b \in Nat \ {0} : b = 2^(d - (e + 1))
    BY <2>1, PowerIsPositive
  <2>3. 2^(d - e) = 2 * b
    BY <2>1, <2>2, PowerOfNext
  <2> QED
    BY <1>1, <2>2, <2>3, DivisionTwice DEF Up
<1> QED
  BY <1>2, <1>3

LEMMA HalfInRow ==
  ASSUME NEW e \in Nat, NEW k \in Row(e + 1)
  PROVE  k \div 2 \in Row(e)
<1> PICK w \in Nat \ {0} : w = 2^e
  BY PowerIsPositive
<1>1. e + 1 \in Nat /\ 2^(e + 1) = 2 * w
  BY PowerOfNext
<1>2. k \in Nat /\ 2 * w <= k /\ k < 2 * (2 * w)
  BY <1>1, RowBounds
<1>3. PICK q \in Nat, r \in {0, 1} : q = k \div 2 /\ r = k % 2 /\ k = 2 * q + r
  BY <1>2, HalvesOf
<1>4. w <= q /\ q < 2 * w
  BY <1>2, <1>3
<1> QED
  BY <1>3, <1>4, RowBounds

LEMMA UpInRow ==
  ASSUME NEW i \in Indices, NEW e \in 0 .. DepthOf(i)
  PROVE  Up(i, e) \in Row(e) /\ Up(i, e) \in Indices /\ DepthOf(Up(i, e)) = e
<1> PICK d \in 0 .. Depth : d = DepthOf(i)
  BY IndexHasRow
<1>1. d \in Nat /\ e \in Nat /\ e <= d /\ e \in 0 .. Depth
  BY DepthPositive
<1> DEFINE T == {n \in Nat : n <= d => Up(i, d - n) \in Row(d - n)}
<1>2. 0 \in T
  <2>1. d - 0 = d
    BY <1>1
  <2> QED
    BY <2>1, UpOnce, IndexHasRow
<1>3. ASSUME NEW n \in Nat, n \in T PROVE n + 1 \in T
  <2>1. SUFFICES ASSUME n + 1 <= d PROVE Up(i, d - (n + 1)) \in Row(d - (n + 1))
    OBVIOUS
  <2>2. PICK f \in Nat : f = d - (n + 1) /\ f + 1 = d - n /\ f \in 0 .. d - 1
    BY <1>1, <2>1
  <2>3. Up(i, f + 1) \in Row(f + 1)
    BY <1>1, <1>3, <2>1, <2>2
  <2>4. Up(i, f) = Up(i, f + 1) \div 2
    BY <2>2, UpOnce
  <2> QED
    BY <2>2, <2>3, <2>4, HalfInRow
<1> HIDE DEF T
<1>4. d - e \in Nat /\ d - e <= d /\ d - (d - e) = e
  BY <1>1
<1>5. d - e \in T
  BY <1>2, <1>3, <1>4, NatSetInduction
<1>6. Up(i, e) \in Row(e)
  BY <1>4, <1>5 DEF T
<1> QED
  BY <1>1, <1>6, RowsAreIndices, DepthIs

LEMMA UpTwice ==
  ASSUME NEW i \in Indices, NEW f \in 0 .. DepthOf(i), NEW e \in 0 .. f
  PROVE  Up(Up(i, f), e) = Up(i, e)
<1> PICK j \in Indices : j = Up(i, f) /\ DepthOf(j) = f
  BY UpInRow
<1>1. f \in Nat /\ e \in Nat /\ e <= f /\ DepthOf(i) \in Nat /\ f <= DepthOf(i)
  BY IndexHasRow, DepthPositive
<1> DEFINE T == {n \in Nat : n <= f => Up(j, f - n) = Up(i, f - n)}
<1>2. 0 \in T
  <2>1. f - 0 = f
    BY <1>1
  <2> QED
    BY <2>1, UpOnce
<1>3. ASSUME NEW n \in Nat, n \in T PROVE n + 1 \in T
  <2>1. SUFFICES ASSUME n + 1 <= f PROVE Up(j, f - (n + 1)) = Up(i, f - (n + 1))
    OBVIOUS
  <2>2. PICK g \in Nat : g = f - (n + 1) /\ g + 1 = f - n /\ g \in 0 .. f - 1 /\ g \in 0 .. DepthOf(i) - 1
    BY <1>1, <2>1
  <2>3. Up(j, g + 1) = Up(i, g + 1)
    BY <1>1, <1>3, <2>1, <2>2
  <2>4. Up(i, g) = Up(i, g + 1) \div 2 /\ Up(j, g) = Up(j, g + 1) \div 2
    BY <2>2, UpOnce
  <2> QED
    BY <2>2, <2>3, <2>4
<1> HIDE DEF T
<1>4. f - e \in Nat /\ f - e <= f /\ f - (f - e) = e
  BY <1>1
<1>5. f - e \in T
  BY <1>2, <1>3, <1>4, NatSetInduction
<1> QED
  BY <1>4, <1>5 DEF T

----------------------------------------------------------------------------
\* Which index is above which

IsAbove(a, b) == DepthOf(a) <= DepthOf(b) /\ Up(b, DepthOf(a)) = a

LEMMA AboveItself ==
  ASSUME NEW a \in Indices
  PROVE  IsAbove(a, a)
BY UpOnce, IndexHasRow, DepthPositive DEF IsAbove

LEMMA AboveTransitive ==
  ASSUME NEW a \in Indices, NEW b \in Indices, NEW c \in Indices, IsAbove(a, b), IsAbove(b, c)
  PROVE  IsAbove(a, c)
<1>1. /\ DepthOf(a) \in 0 .. Depth /\ DepthOf(b) \in 0 .. Depth /\ DepthOf(c) \in 0 .. Depth
      /\ DepthOf(a) <= DepthOf(b) /\ DepthOf(b) <= DepthOf(c)
  BY IndexHasRow DEF IsAbove
<1>2. DepthOf(a) \in 0 .. DepthOf(b) /\ DepthOf(b) \in 0 .. DepthOf(c) /\ DepthOf(a) <= DepthOf(c)
  BY <1>1, DepthPositive
<1>3. Up(Up(c, DepthOf(b)), DepthOf(a)) = Up(c, DepthOf(a))
  BY <1>2, UpTwice
<1> QED
  BY <1>2, <1>3 DEF IsAbove

LEMMA AboveChain ==
  ASSUME NEW a \in Indices, NEW b \in Indices, NEW c \in Indices, IsAbove(a, c), IsAbove(b, c),
         DepthOf(a) <= DepthOf(b)
  PROVE  IsAbove(a, b)
<1>1. /\ DepthOf(a) \in 0 .. Depth /\ DepthOf(b) \in 0 .. Depth /\ DepthOf(c) \in 0 .. Depth
      /\ DepthOf(b) <= DepthOf(c)
  BY IndexHasRow DEF IsAbove
<1>2. DepthOf(a) \in 0 .. DepthOf(b) /\ DepthOf(b) \in 0 .. DepthOf(c)
  BY <1>1, DepthPositive
<1>3. Up(Up(c, DepthOf(b)), DepthOf(a)) = Up(c, DepthOf(a))
  BY <1>2, UpTwice
<1> QED
  BY <1>3 DEF IsAbove

LEMMA AboveSameDepth ==
  ASSUME NEW a \in Indices, NEW b \in Indices, IsAbove(a, b), DepthOf(b) <= DepthOf(a)
  PROVE  a = b
<1>1. DepthOf(a) = DepthOf(b)
  BY IndexHasRow, DepthPositive DEF IsAbove
<1> QED
  BY <1>1, UpOnce DEF IsAbove

LEMMA AboveComparable ==
  ASSUME NEW a \in Indices, NEW b \in Indices, NEW c \in Indices, IsAbove(a, c), IsAbove(b, c)
  PROVE  IsAbove(a, b) \/ IsAbove(b, a)
<1>1. DepthOf(a) <= DepthOf(b) \/ DepthOf(b) <= DepthOf(a)
  BY IndexHasRow, DepthPositive
<1> QED
  BY <1>1, AboveChain

\* The two below a node.
LEMMA SidesOf ==
  ASSUME NEW a \in Indices, DepthOf(a) < Depth, NEW dir \in {0, 1}
  PROVE  /\ 2 * a + dir \in Indices /\ DepthOf(2 * a + dir) = DepthOf(a) + 1
         /\ IsAbove(a, 2 * a + dir)
<1> PICK d \in 0 .. Depth : d = DepthOf(a)
  BY IndexHasRow
<1>1. d \in Nat /\ d + 1 \in 0 .. Depth /\ d + 1 \in Nat
  BY DepthPositive
<1> PICK w \in Nat \ {0} : w = 2^d
  BY <1>1, PowerIsPositive
<1>2. a \in Nat /\ w <= a /\ a < 2 * w
  BY <1>1, IndexHasRow, RowBounds
<1>3. 2^(d + 1) = 2 * w
  BY <1>1, PowerOfNext
<1>4. 2 * a + dir \in Row(d + 1)
  <2>1. 2 * a + dir \in Nat /\ 2 * w <= 2 * a + dir /\ 2 * a + dir < 2 * (2 * w)
    BY <1>2
  <2> QED
    BY <1>1, <1>3, <2>1, RowBounds
<1>5. 2 * a + dir \in Indices /\ DepthOf(2 * a + dir) = d + 1
  BY <1>1, <1>4, RowsAreIndices, DepthIs
<1>6. Up(2 * a + dir, d) = a
  <2>1. d \in 0 .. (d + 1) - 1
    BY <1>1
  <2>2. Up(2 * a + dir, d) = (2 * a + dir) \div 2
    BY <1>5, <2>1, UpOnce
  <2> QED
    BY <1>2, <2>2
<1> QED
  BY <1>1, <1>5, <1>6 DEF IsAbove

LEMMA BelowSide ==
  ASSUME NEW a \in Indices, NEW b \in Indices, IsAbove(a, b), a # b
  PROVE  /\ DepthOf(a) < DepthOf(b) /\ DepthOf(a) < Depth
         /\ Up(b, DepthOf(a) + 1) % 2 \in {0, 1}
         /\ Up(b, DepthOf(a) + 1) = 2 * a + (Up(b, DepthOf(a) + 1) % 2)
         /\ IsAbove(2 * a + (Up(b, DepthOf(a) + 1) % 2), b)
<1> PICK d \in 0 .. Depth, e \in 0 .. Depth : d = DepthOf(a) /\ e = DepthOf(b)
  BY IndexHasRow
<1>1. d < e
  BY AboveSameDepth, DepthPositive
<1>2. d \in 0 .. e - 1 /\ d + 1 \in 0 .. e /\ d < Depth
  BY <1>1, DepthPositive
<1> PICK c \in Indices : c = Up(b, d + 1) /\ DepthOf(c) = d + 1
  BY <1>2, UpInRow
<1>3. a = c \div 2
  BY <1>2, UpOnce DEF IsAbove
<1>4. c \in Nat /\ c % 2 \in {0, 1} /\ c = 2 * (c \div 2) + (c % 2)
  BY IndexHasRow, HalvesOf
<1>5. c = 2 * a + (c % 2)
  BY <1>3, <1>4
<1>6. IsAbove(c, b)
  BY <1>2 DEF IsAbove
<1> QED
  BY <1>1, <1>2, <1>4, <1>5, <1>6

LEMMA OneSide ==
  ASSUME NEW a \in Indices, DepthOf(a) < Depth, NEW b \in Indices,
         NEW x \in {0, 1}, NEW y \in {0, 1}, IsAbove(2 * a + x, b), IsAbove(2 * a + y, b)
  PROVE  x = y
<1>1. /\ 2 * a + x \in Indices /\ DepthOf(2 * a + x) = DepthOf(a) + 1
      /\ 2 * a + y \in Indices /\ DepthOf(2 * a + y) = DepthOf(a) + 1
  BY SidesOf
<1>2. 2 * a + x = 2 * a + y
  BY <1>1 DEF IsAbove
<1>3. a \in Nat
  BY IndexHasRow
<1> QED
  BY <1>2, <1>3

\* The side on which an index lies below another is that of the next one.
LEMMA SideAbove ==
  ASSUME NEW a \in Indices, DepthOf(a) < Depth, NEW b \in Indices, NEW dir \in {0, 1},
         IsAbove(2 * a + dir, b)
  PROVE  IsAbove(a, b) /\ a # b /\ DepthOf(a) < DepthOf(b) /\ dir = Up(b, DepthOf(a) + 1) % 2
<1>1. 2 * a + dir \in Indices /\ DepthOf(2 * a + dir) = DepthOf(a) + 1 /\ IsAbove(a, 2 * a + dir)
  BY SidesOf
<1>2. IsAbove(a, b)
  BY <1>1, AboveTransitive
<1>3. DepthOf(a) < DepthOf(b)
  BY <1>1, IndexHasRow, DepthPositive DEF IsAbove
<1>4. a # b
  BY <1>3, IndexHasRow, DepthPositive
<1>5. Up(b, DepthOf(a) + 1) = 2 * a + dir
  BY <1>1 DEF IsAbove
<1>6. a \in Nat /\ (2 * a + dir) % 2 = dir
  BY IndexHasRow
<1> QED
  BY <1>2, <1>3, <1>4, <1>5, <1>6

\* What holds of an index when it holds of all below it, holds of all.
LEMMA IndexInduction ==
  ASSUME NEW T,
         \A i \in Indices : (\A j \in Indices : DepthOf(i) < DepthOf(j) => j \in T) => i \in T
  PROVE  Indices \subseteq T
<1> DEFINE D == {n \in Nat : \A i \in Indices : Depth - DepthOf(i) <= n => i \in T}
<1>0. \A i \in Indices : DepthOf(i) \in Nat /\ DepthOf(i) <= Depth /\ Depth \in Nat
  BY IndexHasRow, DepthPositive
<1>1. 0 \in D
  <2>1. SUFFICES ASSUME NEW i \in Indices, Depth - DepthOf(i) <= 0 PROVE i \in T
    OBVIOUS
  <2>2. \A j \in Indices : ~(DepthOf(i) < DepthOf(j))
    BY <1>0, <2>1
  <2> QED
    BY <2>2
<1>2. ASSUME NEW n \in Nat, n \in D PROVE n + 1 \in D
  <2>1. SUFFICES ASSUME NEW i \in Indices, Depth - DepthOf(i) <= n + 1 PROVE i \in T
    OBVIOUS
  <2>2. \A j \in Indices : DepthOf(i) < DepthOf(j) => Depth - DepthOf(j) <= n
    BY <1>0, <2>1
  <2>3. \A j \in Indices : DepthOf(i) < DepthOf(j) => j \in T
    BY <1>2, <2>2
  <2> QED
    BY <2>3
<1> HIDE DEF D
<1>3. Depth \in D
  BY <1>1, <1>2, NatSetInduction, DepthPositive
<1>4. \A i \in Indices : Depth - DepthOf(i) <= Depth
  BY <1>0
<1> QED
  BY <1>3, <1>4 DEF D

----------------------------------------------------------------------------
\* The hashes of a tree, by index

RefOf(h, i) == Hashes(h)[Depth - DepthOf(i)][i - 2^DepthOf(i)]

LEMMA IndexPosition ==
  ASSUME NEW i \in Indices
  PROVE  /\ Depth - DepthOf(i) \in 0 .. Depth /\ i - 2^DepthOf(i) \in Positions(Depth - DepthOf(i))
<1> PICK d \in 0 .. Depth : d = DepthOf(i)
  BY IndexHasRow
<1>1. d \in Nat /\ Depth - d \in 0 .. Depth /\ Depth - (Depth - d) = d
  BY DepthPositive
<1> PICK w \in Nat \ {0} : w = 2^d
  BY <1>1, PowerIsPositive
<1>2. i \in Nat /\ w <= i /\ i < 2 * w
  BY <1>1, IndexHasRow, RowBounds
<1>3. i - w \in 0 .. w - 1
  BY <1>2
<1> QED
  BY <1>1, <1>3 DEF Positions

LEMMA PositionIndex ==
  ASSUME NEW d \in 0 .. Depth, NEW k \in Positions(Depth - d)
  PROVE  2^d + k \in Indices /\ DepthOf(2^d + k) = d /\ (2^d + k) - 2^d = k
<1>1. d \in Nat /\ Depth - (Depth - d) = d
  BY DepthPositive
<1> PICK w \in Nat \ {0} : w = 2^d
  BY <1>1, PowerIsPositive
<1>2. k \in 0 .. w - 1
  BY <1>1 DEF Positions
<1>3. w + k \in Nat /\ w <= w + k /\ w + k < 2 * w /\ (w + k) - w = k
  BY <1>2
<1>4. w + k \in Row(d)
  BY <1>1, <1>3, RowBounds
<1> QED
  BY <1>3, <1>4, RowsAreIndices, DepthIs

LEMMA LeafIndices ==
  /\ \A k \in Positions(0) :
       LeafIndex(k) \in Indices /\ DepthOf(LeafIndex(k)) = Depth /\ LeafIndex(k) - 2^Depth = k
  /\ \A i \in Indices : DepthOf(i) = Depth => i - 2^Depth \in Positions(0) /\ LeafIndex(i - 2^Depth) = i
<1>1. Depth - Depth = 0 /\ Depth \in 0 .. Depth /\ 2^Depth \in Nat
  BY DepthPositive, PowerIsNat
<1>2. ASSUME NEW k \in Positions(0)
      PROVE  LeafIndex(k) \in Indices /\ DepthOf(LeafIndex(k)) = Depth /\ LeafIndex(k) - 2^Depth = k
  BY <1>1, PositionIndex DEF LeafIndex
<1>3. ASSUME NEW i \in Indices, DepthOf(i) = Depth
      PROVE  i - 2^Depth \in Positions(0) /\ LeafIndex(i - 2^Depth) = i
  <2>1. i - 2^Depth \in Positions(0)
    BY <1>1, <1>3, IndexPosition
  <2>2. i \in Nat
    BY IndexHasRow
  <2> QED
    BY <1>1, <2>1, <2>2 DEF LeafIndex
<1> QED
  BY <1>2, <1>3

LEMMA RefOfLeaf ==
  ASSUME NEW h, NEW i \in Indices, DepthOf(i) = Depth
  PROVE  RefOf(h, i) = h[i - 2^Depth]
<1>1. Depth - DepthOf(i) = 0 /\ i - 2^Depth \in Positions(0)
  BY LeafIndices, DepthPositive
<1> QED
  BY <1>1, HashesAt DEF RefOf

LEMMA RefOfInner ==
  ASSUME NEW h, NEW i \in Indices, DepthOf(i) < Depth
  PROVE  RefOf(h, i) = Compress(Depth - DepthOf(i) - 1, RefOf(h, 2 * i), RefOf(h, 2 * i + 1))
<1> PICK d \in 0 .. Depth : d = DepthOf(i)
  BY IndexHasRow
<1> PICK level \in 0 .. Depth - 1 : level = Depth - d - 1 /\ level + 1 = Depth - d /\ level = Depth - (d + 1)
  BY DepthPositive
<1> PICK w \in Nat \ {0} : w = 2^d
  BY PowerIsPositive, DepthPositive
<1>1. 2^(d + 1) = 2 * w /\ d \in Nat
  BY PowerOfNext, DepthPositive
<1> PICK k \in Positions(level + 1) : k = i - w
  BY IndexPosition
<1>2. Hashes(h)[level + 1][k] = Compress(level, Hashes(h)[level][2 * k], Hashes(h)[level][2 * k + 1])
  BY HashesAt
<1>3. i \in Nat /\ 2 * i - 2 * w = 2 * k /\ (2 * i + 1) - 2 * w = 2 * k + 1
  <2>1. i \in Nat
    BY IndexHasRow
  <2> QED
    BY <2>1
<1>4. DepthOf(2 * i) = d + 1 /\ DepthOf(2 * i + 1) = d + 1
  <2>1. DepthOf(2 * i + 0) = d + 1 /\ DepthOf(2 * i + 1) = d + 1
    BY SidesOf
  <2>2. 2 * i + 0 = 2 * i
    BY <1>3
  <2> QED
    BY <2>1, <2>2
<1>5. RefOf(h, 2 * i) = Hashes(h)[level][2 * k] /\ RefOf(h, 2 * i + 1) = Hashes(h)[level][2 * k + 1]
  BY <1>1, <1>3, <1>4 DEF RefOf
<1>6. RefOf(h, i) = Hashes(h)[level + 1][k]
  BY DEF RefOf
<1> QED
  BY <1>2, <1>5, <1>6

\* A hash depends on the leaves below it only.
LEMMA RefOfBelow ==
  ASSUME NEW h, NEW g, NEW i \in Indices,
         \A k \in Positions(0) : IsAbove(i, LeafIndex(k)) => h[k] = g[k]
  PROVE  RefOf(h, i) = RefOf(g, i)
<1> DEFINE Agree(j) == \A k \in Positions(0) : IsAbove(j, LeafIndex(k)) => h[k] = g[k]
           T == {j \in Indices : Agree(j) => RefOf(h, j) = RefOf(g, j)}
<1>1. ASSUME NEW j \in Indices, \A m \in Indices : DepthOf(j) < DepthOf(m) => m \in T
      PROVE  j \in T
  <2>1. SUFFICES ASSUME Agree(j) PROVE RefOf(h, j) = RefOf(g, j)
    OBVIOUS
  <2>2. CASE DepthOf(j) = Depth
    <3>1. j - 2^Depth \in Positions(0) /\ LeafIndex(j - 2^Depth) = j
      BY <2>2, LeafIndices
    <3>2. h[j - 2^Depth] = g[j - 2^Depth]
      BY <2>1, <3>1, AboveItself
    <3> QED
      BY <2>2, <3>2, RefOfLeaf
  <2>3. CASE DepthOf(j) < Depth
    <3>1. ASSUME NEW dir \in {0, 1} PROVE RefOf(h, 2 * j + dir) = RefOf(g, 2 * j + dir)
      <4>1. 2 * j + dir \in Indices /\ DepthOf(2 * j + dir) = DepthOf(j) + 1 /\ IsAbove(j, 2 * j + dir)
        BY <2>3, SidesOf
      <4>2. DepthOf(j) < DepthOf(2 * j + dir)
        BY <4>1, IndexHasRow, DepthPositive
      <4>3. Agree(2 * j + dir)
        BY <2>1, <4>1, AboveTransitive, LeafIndices
      <4> QED
        BY <1>1, <4>1, <4>2, <4>3
    <3>2. 2 * j + 0 = 2 * j
      BY IndexHasRow
    <3>3. RefOf(h, 2 * j) = RefOf(g, 2 * j) /\ RefOf(h, 2 * j + 1) = RefOf(g, 2 * j + 1)
      BY <3>1, <3>2
    <3> QED
      BY <2>3, <3>3, RefOfInner
  <2> QED
    BY <2>2, <2>3, IndexHasRow, DepthPositive
<1> HIDE DEF T
<1>2. i \in T
  BY <1>1, IndexInduction
<1> QED
  BY <1>2 DEF T

\* The tree of default items.
Untouched == [k \in Positions(0) |-> ItemHash(DefaultItem)]

ArePrehashed(empty) ==
  empty = [level \in 0 .. Depth |->
             IF level = Depth THEN ItemHash(DefaultItem)
             ELSE Compress(Depth - level - 1, empty[level + 1], empty[level + 1])]

LEMMA PrehashedUnfold == Prehashed = CHOOSE empty : ArePrehashed(empty)
BY DEF Prehashed, ArePrehashed

\* The hashes of a level are the same everywhere.
LEMMA UntouchedOf ==
  ASSUME NEW empty, ArePrehashed(empty), NEW i \in Indices
  PROVE  RefOf(Untouched, i) = empty[DepthOf(i)]
<1> DEFINE T == {j \in Indices : RefOf(Untouched, j) = empty[DepthOf(j)]}
<1>0. \A level \in 0 .. Depth :
        empty[level] = IF level = Depth THEN ItemHash(DefaultItem)
                       ELSE Compress(Depth - level - 1, empty[level + 1], empty[level + 1])
  BY DEF ArePrehashed
<1>1. ASSUME NEW j \in Indices, \A m \in Indices : DepthOf(j) < DepthOf(m) => m \in T
      PROVE  j \in T
  <2> PICK d \in 0 .. Depth : d = DepthOf(j)
    BY IndexHasRow
  <2>2. CASE d = Depth
    <3>1. j - 2^Depth \in Positions(0)
      BY <2>2, LeafIndices
    <3> QED
      BY <1>0, <2>2, <3>1, RefOfLeaf DEF Untouched
  <2>3. CASE d < Depth
    <3>1. ASSUME NEW dir \in {0, 1} PROVE RefOf(Untouched, 2 * j + dir) = empty[d + 1]
      <4>1. 2 * j + dir \in Indices /\ DepthOf(2 * j + dir) = d + 1
        BY <2>3, SidesOf
      <4>2. d < d + 1
        BY DepthPositive
      <4> QED
        BY <1>1, <4>1, <4>2
    <3>2. 2 * j + 0 = 2 * j
      BY IndexHasRow
    <3>3. RefOf(Untouched, 2 * j) = empty[d + 1] /\ RefOf(Untouched, 2 * j + 1) = empty[d + 1]
      BY <3>1, <3>2
    <3>4. empty[d] = Compress(Depth - d - 1, empty[d + 1], empty[d + 1])
      BY <1>0, <2>3, DepthPositive
    <3> QED
      BY <2>3, <3>3, <3>4, RefOfInner
  <2> QED
    BY <2>2, <2>3, DepthPositive
<1> HIDE DEF T
<1>2. i \in T
  BY <1>1, IndexInduction
<1> QED
  BY <1>2 DEF T

LEMMA PowerIndices ==
  ASSUME NEW level \in 0 .. Depth
  PROVE  2^level \in Indices /\ DepthOf(2^level) = level
<1>1. level \in Nat
  BY DepthPositive
<1> PICK w \in Nat \ {0} : w = 2^level
  BY <1>1, PowerIsPositive
<1>2. w \in Row(level)
  BY <1>1, RowBounds
<1> QED
  BY <1>2, RowsAreIndices, DepthIs

\* One level of the tree of default items has one hash.
LEMMA UntouchedLevel ==
  ASSUME NEW i \in Indices, NEW m \in Indices, DepthOf(i) = DepthOf(m)
  PROVE  RefOf(Untouched, i) = RefOf(Untouched, m)
<1> DEFINE T == {j \in Indices : \A l \in Indices : DepthOf(j) = DepthOf(l) =>
                                   RefOf(Untouched, j) = RefOf(Untouched, l)}
<1>1. ASSUME NEW j \in Indices, \A l \in Indices : DepthOf(j) < DepthOf(l) => l \in T
      PROVE  j \in T
  <2>1. SUFFICES ASSUME NEW l \in Indices, DepthOf(j) = DepthOf(l)
                 PROVE  RefOf(Untouched, j) = RefOf(Untouched, l)
    OBVIOUS
  <2>2. CASE DepthOf(j) = Depth
    <3>1. j - 2^Depth \in Positions(0) /\ l - 2^Depth \in Positions(0)
      BY <2>1, <2>2, LeafIndices
    <3>2. RefOf(Untouched, j) = Untouched[j - 2^Depth] /\ RefOf(Untouched, l) = Untouched[l - 2^Depth]
      BY <2>1, <2>2, RefOfLeaf
    <3> QED
      BY <3>1, <3>2 DEF Untouched
  <2>3. CASE DepthOf(j) < Depth
    <3>1. ASSUME NEW dir \in {0, 1} PROVE RefOf(Untouched, 2 * j + dir) = RefOf(Untouched, 2 * l + dir)
      <4>1. /\ 2 * j + dir \in Indices /\ DepthOf(2 * j + dir) = DepthOf(j) + 1
            /\ 2 * l + dir \in Indices /\ DepthOf(2 * l + dir) = DepthOf(j) + 1
        BY <2>1, <2>3, SidesOf
      <4>2. DepthOf(j) < DepthOf(2 * j + dir)
        BY <4>1, IndexHasRow, DepthPositive
      <4> QED
        BY <1>1, <4>1, <4>2
    <3>2. 2 * j + 0 = 2 * j /\ 2 * l + 0 = 2 * l
      BY IndexHasRow
    <3>3. RefOf(Untouched, 2 * j) = RefOf(Untouched, 2 * l) /\ RefOf(Untouched, 2 * j + 1) = RefOf(Untouched, 2 * l + 1)
      BY <3>1, <3>2
    <3> QED
      BY <2>1, <2>3, <3>3, RefOfInner
  <2> QED
    BY <2>2, <2>3, IndexHasRow, DepthPositive
<1> HIDE DEF T
<1>2. i \in T
  BY <1>1, IndexInduction
<1> QED
  BY <1>2 DEF T

LEMMA PrehashedExist == \E empty : ArePrehashed(empty)
<1> DEFINE empty == [level \in 0 .. Depth |-> RefOf(Untouched, 2^level)]
<1>0. \A level \in 0 .. Depth : empty[level] = RefOf(Untouched, 2^level)
  OBVIOUS
<1>1. ASSUME NEW level \in 0 .. Depth
      PROVE  empty[level] = IF level = Depth THEN ItemHash(DefaultItem)
                            ELSE Compress(Depth - level - 1, empty[level + 1], empty[level + 1])
  <2> PICK w \in Indices : w = 2^level /\ DepthOf(w) = level
    BY PowerIndices
  <2>1. CASE level = Depth
    <3>1. w - 2^Depth \in Positions(0)
      BY <2>1, LeafIndices
    <3> QED
      BY <1>0, <2>1, <3>1, RefOfLeaf DEF Untouched
  <2>2. CASE level # Depth
    <3>1. level < Depth /\ level + 1 \in 0 .. Depth
      BY <2>2, DepthPositive
    <3> PICK v \in Indices : v = 2^(level + 1) /\ DepthOf(v) = level + 1
      BY <3>1, PowerIndices
    <3>2. ASSUME NEW dir \in {0, 1} PROVE RefOf(Untouched, 2 * w + dir) = empty[level + 1]
      <4>1. 2 * w + dir \in Indices /\ DepthOf(2 * w + dir) = level + 1
        BY <3>1, SidesOf
      <4> QED
        BY <1>0, <3>1, <4>1, UntouchedLevel
    <3>3. 2 * w + 0 = 2 * w
      BY IndexHasRow
    <3>4. RefOf(Untouched, 2 * w) = empty[level + 1] /\ RefOf(Untouched, 2 * w + 1) = empty[level + 1]
      BY <3>2, <3>3
    <3>5. RefOf(Untouched, w) = Compress(Depth - level - 1, empty[level + 1], empty[level + 1])
      BY <3>1, <3>4, RefOfInner
    <3> QED
      BY <1>0, <2>2, <3>5
  <2> QED
    BY <2>1, <2>2
<1>2. empty = [level \in 0 .. Depth |-> empty[level]]
  OBVIOUS
<1> HIDE DEF empty
<1>3. empty = [level \in 0 .. Depth |->
                 IF level = Depth THEN ItemHash(DefaultItem)
                 ELSE Compress(Depth - level - 1, empty[level + 1], empty[level + 1])]
  BY <1>1, <1>2
<1> QED
  BY <1>3 DEF ArePrehashed

\* What was computed in advance are the hashes of the tree of default items.
LEMMA PrehashedIs ==
  ASSUME NEW i \in Indices
  PROVE  RefOf(Untouched, i) = Prehashed[DepthOf(i)]
<1> PICK empty : empty = Prehashed
  OBVIOUS
<1>1. ArePrehashed(empty)
  BY PrehashedExist, PrehashedUnfold
<1> QED
  BY <1>1, UntouchedOf

----------------------------------------------------------------------------
\* Maps and the items of a tree

LEMMA WithAt ==
  ASSUME NEW map, NEW new
  PROVE  /\ DOMAIN With(map, new) = DOMAIN map \cup DOMAIN new
         /\ \A key \in DOMAIN new : With(map, new)[key] = new[key]
         /\ \A key \in DOMAIN map \ DOMAIN new : With(map, new)[key] = map[key]
BY DEF With

LEMMA SingleAt ==
  ASSUME NEW key, NEW value
  PROVE  DOMAIN Single(key, value) = {key} /\ Single(key, value)[key] = value
BY DEF Single

HashedOf(map) ==
  [i \in 0 .. 2^Depth - 1 |-> IF i \in DOMAIN map THEN ItemHash(map[i]) ELSE ItemHash(DefaultItem)]

LEMMA HashedItemsAre == HashedItems = HashedOf(items)
BY DEF HashedItems, HashedOf

LEMMA HashedAt ==
  ASSUME NEW map, NEW k \in Positions(0)
  PROVE  /\ k \in DOMAIN map => HashedOf(map)[k] = ItemHash(map[k])
         /\ k \notin DOMAIN map => HashedOf(map)[k] = ItemHash(DefaultItem)
BY LeafPositions DEF HashedOf

\* What a write changes of the hashes of the leaves.
LEMMA HashedWith ==
  ASSUME NEW map, NEW index \in Positions(0), NEW item
  PROVE  /\ HashedOf(With(map, Single(index, item)))[index] = ItemHash(item)
         /\ \A k \in Positions(0) \ {index} : HashedOf(With(map, Single(index, item)))[k] = HashedOf(map)[k]
<1> PICK new : new = Single(index, item)
  OBVIOUS
<1> PICK after : after = With(map, new)
  OBVIOUS
<1>1. DOMAIN new = {index} /\ new[index] = item
  BY SingleAt
<1>2. DOMAIN after = DOMAIN map \cup {index}
  BY <1>1, WithAt
<1>5. after[index] = item
  <2>1. index \in DOMAIN new
    BY <1>1
  <2>2. With(map, new)[index] = new[index]
    BY <2>1 DEF With
  <2> QED
    BY <1>1, <2>2
<1>3. ASSUME NEW k \in Positions(0) \ {index} PROVE HashedOf(after)[k] = HashedOf(map)[k]
  <2>1. k \in DOMAIN after <=> k \in DOMAIN map
    BY <1>2
  <2>2. k \in DOMAIN map => after[k] = map[k]
    BY <1>1, WithAt
  <2> QED
    BY <2>1, <2>2, HashedAt
<1>4. HashedOf(after)[index] = ItemHash(item)
  BY <1>2, <1>5, HashedAt
<1> QED
  BY <1>3, <1>4

LEMMA HashedUntouched == HashedOf(<<>>) = Untouched
<1>1. DOMAIN <<>> = {}
  OBVIOUS
<1> QED
  BY <1>1, LeafPositions DEF HashedOf, Untouched

----------------------------------------------------------------------------
\* The sequential tree

GetOf(h, level, position) ==
  IF <<level, position>> \in DOMAIN h THEN h[<<level, position>>] ELSE Prehashed[level]

LEMMA GetHashIs ==
  ASSUME NEW level, NEW position
  PROVE  GetHash(level, position) = GetOf(hashes, level, position)
BY DEF GetHash, GetOf

\* The stored hashes and those computed in advance are those of the tree.
Exact(h, map) ==
  \A level \in 0 .. Depth : \A position \in 0 .. 2^level - 1 :
    GetOf(h, level, position) = Hashes(HashedOf(map))[Depth - level][position]

LEMMA ExactIs == StoredHashesExact <=> Exact(hashes, items)
BY GetHashIs, HashedItemsAre DEF StoredHashesExact, Exact, Reference

LEMMA LevelsFromRoot ==
  ASSUME NEW level \in 0 .. Depth
  PROVE  Depth - level \in 0 .. Depth /\ Depth - (Depth - level) = level /\ Positions(Depth - level) = 0 .. 2^level - 1
<1>1. Depth - level \in 0 .. Depth /\ Depth - (Depth - level) = level
  BY DepthPositive
<1> QED
  BY <1>1 DEF Positions

PathHash(f, level, index, item, h) ==
  IF level = Depth THEN ItemHash(item)
  ELSE Parent(Depth - level - 1, (index \div 2^(Depth - level - 1)) % 2, f[level + 1],
              GetOf(h, level + 1, Sibling(index \div 2^(Depth - level - 1))))

IsOnPath(f, index, item, h) ==
  f = [level \in 0 .. Depth |-> PathHash(f, level, index, item, h)]

StoredOf(h, index, item) ==
  [node \in {<<level, index \div 2^(Depth - level)>> : level \in 0 .. Depth} |->
     (CHOOSE f : IsOnPath(f, index, item, h))[node[1]]]

LEMMA StoredUnfold ==
  ASSUME NEW index, NEW item
  PROVE  StoredHashes(index, item) = StoredOf(hashes, index, item)
BY DEF StoredHashes, StoredOf, UpdatedHash, IsOnPath, PathHash, GetHash, GetOf

\* What an insert stores are the hashes of the tree with the item.
LEMMA PathHashes ==
  ASSUME NEW h, NEW map, NEW index \in Positions(0), NEW item, Exact(h, map)
  PROVE  \A level \in 0 .. Depth :
           (CHOOSE f : IsOnPath(f, index, item, h))[level]
           = Hashes(HashedOf(With(map, Single(index, item))))[Depth - level][Above(index, Depth - level)]
<1> PICK old, new : old = HashedOf(map) /\ new = HashedOf(With(map, Single(index, item)))
  OBVIOUS
<1> PICK a, b : a = Hashes(old) /\ b = Hashes(new)
  OBVIOUS
<1>1. new[index] = ItemHash(item) /\ \A k \in Positions(0) \ {index} : new[k] = old[k]
  BY HashedWith
<1>2. \A level \in 0 .. Depth : \A k \in Positions(level) \ {Above(index, level)} : b[level][k] = a[level][k]
  BY <1>1, OffPathStays
<1>3. ASSUME NEW f, NEW level \in 0 .. Depth,
             level < Depth => f[level + 1] = b[Depth - (level + 1)][Above(index, Depth - (level + 1))]
      PROVE  PathHash(f, level, index, item, h) = b[Depth - level][Above(index, Depth - level)]
  <2>1. CASE level = Depth
    <3>1. Depth - level = 0 /\ Above(index, 0) = index
      BY <2>1, DepthPositive, AboveLeaf
    <3>2. b[0][index] = new[index]
      BY HashesAt
    <3> QED
      BY <1>1, <2>1, <3>1, <3>2 DEF PathHash
  <2>2. CASE level # Depth
    <3> PICK l \in 0 .. Depth - 1 : l = Depth - level - 1 /\ l + 1 = Depth - level /\ l = Depth - (level + 1)
      BY <2>2, DepthPositive
    <3> PICK k \in Positions(l) : k = Above(index, l) /\ Above(index, l + 1) = k \div 2
      BY AboveLeaf, DepthPositive
    <3>1. Sibling(k) \in Positions(l) \ {k}
      BY SiblingOffPath
    <3>2. level + 1 \in 0 .. Depth /\ l \in 0 .. Depth /\ level < Depth
      BY <2>2, DepthPositive
    <3>3. Sibling(k) \in 0 .. 2^(level + 1) - 1
      BY <3>1, <3>2, LevelsFromRoot
    <3>4. GetOf(h, level + 1, Sibling(k)) = a[l][Sibling(k)]
      BY <3>2, <3>3 DEF Exact
    <3>5. a[l][Sibling(k)] = b[l][Sibling(k)]
      BY <1>2, <3>1, <3>2
    <3>6. b[l + 1][k \div 2] = Parent(l, k % 2, b[l][k], b[l][Sibling(k)])
      BY ParentInTree
    <3>7. f[level + 1] = b[l][k]
      BY <1>3, <3>2
    <3>8. PathHash(f, level, index, item, h) = Parent(l, k % 2, f[level + 1], GetOf(h, level + 1, Sibling(k)))
      BY <2>2 DEF PathHash, Above
    <3> QED
      BY <3>4, <3>5, <3>6, <3>7, <3>8
  <2> QED
    BY <2>1, <2>2
<1> DEFINE g == [level \in 0 .. Depth |-> b[Depth - level][Above(index, Depth - level)]]
<1>4. IsOnPath(g, index, item, h)
  <2>1. g = [level \in 0 .. Depth |-> g[level]] /\ \A level \in 0 .. Depth : g[level] = b[Depth - level][Above(index, Depth - level)]
    OBVIOUS
  <2> HIDE DEF g
  <2>2. ASSUME NEW level \in 0 .. Depth PROVE g[level] = PathHash(g, level, index, item, h)
    <3>1. level < Depth => level + 1 \in 0 .. Depth
      BY DepthPositive
    <3> QED
      BY <1>3, <2>1, <3>1
  <2>3. g = [level \in 0 .. Depth |-> PathHash(g, level, index, item, h)]
    BY <2>1, <2>2
  <2> QED
    BY <2>3 DEF IsOnPath
<1> HIDE DEF g
<1> PICK f : f = CHOOSE e : IsOnPath(e, index, item, h)
  OBVIOUS
<1>5. IsOnPath(f, index, item, h)
  BY <1>4
<1>6. \A level \in 0 .. Depth : f[level] = PathHash(f, level, index, item, h)
  BY <1>5 DEF IsOnPath
<1> DEFINE T == {n \in Nat : n <= Depth => f[Depth - n] = b[n][Above(index, n)]}
<1>7. 0 \in T
  <2>1. Depth - 0 = Depth /\ Depth - Depth = 0 /\ Depth \in 0 .. Depth
    BY DepthPositive
  <2> QED
    BY <1>3, <1>6, <2>1
<1>8. ASSUME NEW n \in Nat, n \in T PROVE n + 1 \in T
  <2>1. SUFFICES ASSUME n + 1 <= Depth PROVE f[Depth - (n + 1)] = b[n + 1][Above(index, n + 1)]
    OBVIOUS
  <2> PICK level : level = Depth - (n + 1)
    OBVIOUS
  <2>3. /\ level \in 0 .. Depth /\ level + 1 = Depth - n
        /\ Depth - level = n + 1 /\ Depth - (level + 1) = n
    BY <2>1, DepthPositive
  <2>2. f[level + 1] = b[n][Above(index, n)]
    BY <1>8, <2>1, <2>3, DepthPositive
  <2> QED
    BY <1>3, <1>6, <2>2, <2>3
<1> HIDE DEF T
<1>9. Nat \subseteq T
  BY <1>7, <1>8, NatSetInduction
<1> QED
  <2> SUFFICES ASSUME NEW level \in 0 .. Depth PROVE f[level] = b[Depth - level][Above(index, Depth - level)]
    OBVIOUS
  <2>1. Depth - level \in Nat /\ Depth - level <= Depth /\ Depth - (Depth - level) = level
    BY DepthPositive
  <2>2. Depth - level \in T
    BY <1>9, <2>1
  <2> QED
    BY <2>1, <2>2 DEF T

LEMMA PathHashesAt ==
  ASSUME NEW h, NEW map, NEW index \in Positions(0), NEW item, Exact(h, map), NEW level \in 0 .. Depth
  PROVE  (CHOOSE f : IsOnPath(f, index, item, h))[level]
         = Hashes(HashedOf(With(map, Single(index, item))))[Depth - level][Above(index, Depth - level)]
BY PathHashes

LEMMA WrittenExact ==
  ASSUME NEW h, NEW map, NEW index \in Positions(0), NEW item, Exact(h, map),
         NEW stored, stored = StoredOf(h, index, item)
  PROVE  Exact(With(h, stored), With(map, Single(index, item)))
<1> PICK old, new : old = HashedOf(map) /\ new = HashedOf(With(map, Single(index, item)))
  OBVIOUS
<1> PICK after : after = With(h, stored)
  OBVIOUS
<1> PICK onPath : onPath = CHOOSE f : IsOnPath(f, index, item, h)
  OBVIOUS
<1> DEFINE N == {<<level, index \div 2^(Depth - level)>> : level \in 0 .. Depth}
<1>0. stored = [node \in N |-> onPath[node[1]]]
  BY DEF StoredOf
<1>1. DOMAIN stored = N /\ \A node \in N : stored[node] = onPath[node[1]]
  BY <1>0
<1>2. \A level \in 0 .. Depth : \A k \in Positions(level) \ {Above(index, level)} : Hashes(new)[level][k] = Hashes(old)[level][k]
  BY HashedWith, OffPathStays
<1>3. SUFFICES ASSUME NEW level \in 0 .. Depth, NEW position \in 0 .. 2^level - 1
               PROVE  GetOf(after, level, position) = Hashes(new)[Depth - level][position]
  BY DEF Exact
<1> PICK node : node = <<level, position>>
  OBVIOUS
<1>4. node[1] = level
  OBVIOUS
<1>5. Depth - level \in 0 .. Depth /\ position \in Positions(Depth - level)
  BY LevelsFromRoot
<1>6. node \in N <=> position = Above(index, Depth - level)
  BY DEF Above
<1> HIDE DEF N
<1>7. CASE position = Above(index, Depth - level)
  <2>1. node \in DOMAIN stored /\ stored[node] = onPath[level]
    BY <1>1, <1>4, <1>6, <1>7
  <2>2. node \in DOMAIN after /\ after[node] = stored[node]
    BY <2>1 DEF With
  <2>3. GetOf(after, level, position) = onPath[level]
    BY <2>1, <2>2 DEF GetOf
  <2> QED
    BY <1>7, <2>3, PathHashesAt
<1>8. CASE position # Above(index, Depth - level)
  <2>1. node \notin DOMAIN stored
    BY <1>1, <1>6, <1>8
  <2>2. (node \in DOMAIN after <=> node \in DOMAIN h) /\ (node \in DOMAIN h => after[node] = h[node])
    BY <2>1 DEF With
  <2>3. GetOf(after, level, position) = GetOf(h, level, position)
    BY <2>2 DEF GetOf
  <2>4. GetOf(h, level, position) = Hashes(old)[Depth - level][position]
    BY DEF Exact
  <2>5. Hashes(new)[Depth - level][position] = Hashes(old)[Depth - level][position]
    BY <1>2, <1>5, <1>8
  <2> QED
    BY <2>3, <2>4, <2>5
<1> QED
  BY <1>7, <1>8

LEMMA IndexLeaf == Index \subseteq Positions(0)
BY IndicesInTree, LeafPositions

LEMMA SeqInsertExact ==
  ASSUME NEW index \in Index, NEW item, StoredHashesExact, SeqInsert(index, item)
  PROVE  StoredHashesExact'
<1>1. Exact(hashes, items)
  BY ExactIs
<1> PICK h, map, stored : h = hashes /\ map = items /\ stored = StoredHashes(index, item)
  OBVIOUS
<1>2. hashes' = With(h, stored) /\ items' = With(map, Single(index, item))
  BY DEF SeqInsert
<1>3. stored = StoredOf(h, index, item)
  BY StoredUnfold
<1>5. index \in Positions(0) /\ Exact(h, map)
  BY <1>1, IndexLeaf
<1>4. Exact(With(h, stored), With(map, Single(index, item)))
  BY <1>1, <1>3, <1>5, WrittenExact
<1>7. Exact(hashes', items')
  BY <1>2, <1>4
<1>6. StoredHashesExact' <=> Exact(hashes, items)'
  BY ExactIs, PTL
<1> QED
  BY <1>6, <1>7

\* The hashes the sequential tree stores, with those computed in advance, are
\* the hashes of all nodes of the tree over what was written: its inserts
\* recompute the path of the leaf from the hashes next to it.
THEOREM StoredHashesSafe == Spec => []StoredHashesExact
<1>1. Init => StoredHashesExact
  <2> SUFFICES ASSUME Init PROVE StoredHashesExact
    OBVIOUS
  <2>1. items = <<>> /\ hashes = <<>>
    BY DEF Init, SeqInit
  <2>2. ASSUME NEW level \in 0 .. Depth, NEW position \in 0 .. 2^level - 1
        PROVE  GetOf(<<>>, level, position) = Hashes(HashedOf(<<>>))[Depth - level][position]
    <3>1. DOMAIN <<>> = {}
      OBVIOUS
    <3>2. GetOf(<<>>, level, position) = Prehashed[level]
      BY <3>1 DEF GetOf
    <3>3. position \in Positions(Depth - level)
      BY LevelsFromRoot
    <3> PICK i \in Indices : i = 2^level + position /\ DepthOf(i) = level /\ i - 2^level = position
      BY <3>3, PositionIndex
    <3>4. RefOf(Untouched, i) = Prehashed[level]
      BY PrehashedIs
    <3>5. RefOf(Untouched, i) = Hashes(Untouched)[Depth - level][position]
      BY DEF RefOf
    <3> QED
      BY <3>2, <3>4, <3>5, HashedUntouched
  <2>3. Exact(<<>>, <<>>)
    BY <2>2 DEF Exact
  <2> QED
    BY <2>1, <2>3, ExactIs
<1>2. StoredHashesExact /\ [Next]_vars => StoredHashesExact'
  <2> SUFFICES ASSUME StoredHashesExact, [Next]_vars PROVE StoredHashesExact'
    OBVIOUS
  <2>1. ASSUME NEW index \in Index, NEW item, SeqInsert(index, item) PROVE StoredHashesExact'
    BY <2>1, SeqInsertExact
  <2>2. ASSUME UNCHANGED <<items, hashes>> PROVE StoredHashesExact'
    <3>1. Exact(hashes', items')
      BY <2>2, ExactIs
    <3>2. StoredHashesExact' <=> Exact(hashes, items)'
      BY ExactIs, PTL
    <3> QED
      BY <3>1, <3>2
  <2> QED
    BY <2>1, <2>2 DEF Next, Insert, Delete, SeqDelete, ReadRoot, vars
<1> QED
  BY <1>1, <1>2, PTL DEF Spec

\* With exact hashes the sequential tree's root and paths are those of the tree.
LEMMA ExactRoot ==
  ASSUME StoredHashesExact
  PROVE  RootHash = Root(HashedItems)
<1>1. 0 \in 0 .. Depth /\ Depth - 0 = Depth
  BY DepthPositive
<1>2. 0 \in 0 .. 2^0 - 1
  BY PowerOfZero
<1>3. GetHash(0, 0) = Reference(0, 0)
  BY <1>1, <1>2 DEF StoredHashesExact
<1> QED
  BY <1>1, <1>3 DEF RootHash, Reference, Root

LEMMA ExactPath ==
  ASSUME StoredHashesExact, NEW i \in Positions(0)
  PROVE  MerklePath(i) = Path(HashedItems, i)
<1>1. ASSUME NEW height \in 0 .. Depth - 1
      PROVE  GetHash(Depth - height, Sibling(i \div 2^height)) = Hashes(HashedItems)[height][Sibling(i \div 2^height)]
  <2>1. height \in 0 .. Depth /\ Depth - height \in 0 .. Depth /\ Depth - (Depth - height) = height
    BY DepthPositive
  <2> PICK k : k = i \div 2^height
    OBVIOUS
  <2>2. k \in Positions(height)
    BY <2>1, AboveLeaf DEF Above
  <2>3. Sibling(k) \in 0 .. 2^(Depth - height) - 1
    BY <2>2, SiblingOffPath DEF Positions
  <2>4. GetHash(Depth - height, Sibling(k)) = Reference(Depth - height, Sibling(k))
    BY <2>1, <2>3 DEF StoredHashesExact
  <2> QED
    BY <2>1, <2>4 DEF Reference
<1> QED
  BY <1>1 DEF MerklePath, Path

LEMMA PathsExact == StoredHashesExact => PathsOpenRoot
<1> SUFFICES ASSUME StoredHashesExact, NEW i \in Positions(0)
             PROVE  Ascended(HashedItems[i], i, MerklePath(i)) = RootHash
  BY LeafPositions DEF PathsOpenRoot
<1>1. Ascended(HashedItems[i], i, Path(HashedItems, i)) = Root(HashedItems)
  <2> PICK h : h = HashedItems
    OBVIOUS
  <2> QED
    BY PathOpens
<1> QED
  BY <1>1, ExactRoot, ExactPath

\* The witnesses the sequential tree gives to the circuits: from every leaf,
\* written or not, its authentication path leads to the root hash.
THEOREM PathsSafe == Spec => []PathsOpenRoot
BY StoredHashesSafe, PathsExact, PTL

----------------------------------------------------------------------------
\* The lowest index above two others

LEMMA UpOfRoot ==
  ASSUME NEW i \in Indices
  PROVE  0 \in 0 .. DepthOf(i) /\ Up(i, 0) = 1
<1>1. 0 \in 0 .. DepthOf(i)
  BY IndexHasRow, DepthPositive
<1>2. Up(i, 0) \in Row(0)
  BY <1>1, UpInRow
<1>3. 2^0 = 1 /\ 2^(0 + 1) = 2 * 2^0
  BY PowerOfZero, RowBounds
<1> QED
  BY <1>1, <1>2, <1>3 DEF Row

LEMMA RootIndex ==
  /\ 1 \in Indices /\ DepthOf(1) = 0
  /\ \A i \in Indices : IsAbove(1, i)
<1>1. 0 \in 0 .. Depth /\ 2^0 = 1
  BY DepthPositive, PowerOfZero
<1>2. 1 \in Indices /\ DepthOf(1) = 0
  BY <1>1, PowerIndices
<1> QED
  BY <1>2, UpOfRoot, IndexHasRow, DepthPositive DEF IsAbove

LEMMA AboveUp ==
  ASSUME NEW i \in Indices, NEW d \in 0 .. DepthOf(i)
  PROVE  IsAbove(Up(i, d), i)
BY UpInRow, IndexHasRow, DepthPositive DEF IsAbove

\* d is the depth where the paths to i and j part.
Parts(i, j, d) == Up(i, d) = Up(j, d) /\ \A e \in d + 1 .. DepthOf(i) : Up(i, e) # Up(j, e)

LEMMA PartsSomewhere ==
  ASSUME NEW i \in Indices, NEW j \in Indices
  PROVE  \E d \in 0 .. DepthOf(i) : Parts(i, j, d)
<1> PICK top \in Nat : top = DepthOf(i)
  BY IndexHasRow, DepthPositive
<1> DEFINE T == {n \in Nat : \E d \in 0 .. n : Up(i, d) = Up(j, d) /\ \A e \in d + 1 .. n : Up(i, e) # Up(j, e)}
<1>1. 0 \in T
  <2>1. Up(i, 0) = Up(j, 0)
    BY UpOfRoot
  <2>2. 0 \in 0 .. 0 /\ \A e \in 0 + 1 .. 0 : Up(i, e) # Up(j, e)
    OBVIOUS
  <2> QED
    BY <2>1, <2>2
<1>2. ASSUME NEW n \in Nat, n \in T PROVE n + 1 \in T
  <2>1. CASE Up(i, n + 1) = Up(j, n + 1)
    <3>1. n + 1 \in 0 .. n + 1 /\ \A e \in (n + 1) + 1 .. n + 1 : Up(i, e) # Up(j, e)
      OBVIOUS
    <3> QED
      BY <2>1, <3>1
  <2>2. CASE Up(i, n + 1) # Up(j, n + 1)
    <3> PICK d \in 0 .. n : Up(i, d) = Up(j, d) /\ \A e \in d + 1 .. n : Up(i, e) # Up(j, e)
      BY <1>2
    <3>1. d \in 0 .. n + 1
      OBVIOUS
    <3>2. \A e \in d + 1 .. n + 1 : e = n + 1 \/ e \in d + 1 .. n
      OBVIOUS
    <3>3. \A e \in d + 1 .. n + 1 : Up(i, e) # Up(j, e)
      BY <2>2, <3>2
    <3> QED
      BY <3>1, <3>3
  <2> QED
    BY <2>1, <2>2
<1> HIDE DEF T
<1>3. top \in T
  BY <1>1, <1>2, NatSetInduction
<1>4. \E d \in 0 .. top : Up(i, d) = Up(j, d) /\ \A e \in d + 1 .. top : Up(i, e) # Up(j, e)
  BY <1>3 DEF T
<1> QED
  BY <1>4 DEF Parts

LEMMA IntersectionIs ==
  ASSUME NEW i \in Indices, NEW j \in Indices, DepthOf(i) = DepthOf(j)
  PROVE  /\ Intersection(i, j) \in Indices /\ IsAbove(Intersection(i, j), i) /\ IsAbove(Intersection(i, j), j)
         /\ \A x \in Indices : IsAbove(x, i) /\ IsAbove(x, j) => IsAbove(x, Intersection(i, j))
<1> PICK top \in Nat : top = DepthOf(i) /\ top = DepthOf(j)
  BY IndexHasRow, DepthPositive
<1> PICK d : d = CHOOSE e \in 0 .. DepthOf(i) : Parts(i, j, e)
  OBVIOUS
<1>1. d \in 0 .. top /\ Parts(i, j, d)
  BY PartsSomewhere
<1> PICK k : k = Up(i, d)
  OBVIOUS
<1>2. Intersection(i, j) = k
  BY DEF Intersection, Parts
<1>3. k \in Indices /\ DepthOf(k) = d /\ IsAbove(k, i)
  BY <1>1, UpInRow, AboveUp
<1>4. k = Up(j, d) /\ IsAbove(k, j)
  BY <1>1, AboveUp DEF Parts
<1>5. ASSUME NEW x \in Indices, IsAbove(x, i), IsAbove(x, j) PROVE IsAbove(x, k)
  <2> PICK e \in Nat : e = DepthOf(x) /\ e <= top
    BY <1>5, IndexHasRow, DepthPositive DEF IsAbove
  <2>1. Up(i, e) = Up(j, e)
    BY <1>5 DEF IsAbove
  <2>2. e <= d
    BY <1>1, <2>1 DEF Parts
  <2> QED
    BY <1>3, <1>5, <2>2, AboveChain
<1> QED
  BY <1>2, <1>3, <1>4, <1>5

\* What is below the left of two siblings comes before what is below the right.
LEMMA LeftBeforeRight ==
  ASSUME NEW a \in Indices, DepthOf(a) < Depth, NEW i \in Indices, NEW j \in Indices, DepthOf(i) = DepthOf(j),
         IsAbove(2 * a, i), IsAbove(2 * a + 1, j)
  PROVE  i < j
<1> PICK d \in Nat, top \in Nat : d = DepthOf(a) + 1 /\ top = DepthOf(i) /\ top = DepthOf(j)
  BY IndexHasRow, DepthPositive
<1>1. a \in Nat /\ 2 * a + 0 = 2 * a
  BY IndexHasRow
<1>2. DepthOf(2 * a) = d /\ DepthOf(2 * a + 1) = d
  BY <1>1, SidesOf
<1>3. Up(i, d) = 2 * a /\ Up(j, d) = 2 * a + 1 /\ d <= top
  BY <1>2 DEF IsAbove
<1> DEFINE T == {n \in Nat : d + n <= top => Up(i, d + n) < Up(j, d + n)}
<1>4. 0 \in T
  <2>1. d + 0 = d
    OBVIOUS
  <2> QED
    BY <1>1, <1>3, <2>1
<1>5. ASSUME NEW n \in Nat, n \in T PROVE n + 1 \in T
  <2>1. SUFFICES ASSUME d + (n + 1) <= top PROVE Up(i, d + (n + 1)) < Up(j, d + (n + 1))
    OBVIOUS
  <2> PICK e \in Nat : e = d + n
    OBVIOUS
  <2>2. e + 1 = d + (n + 1) /\ e \in 0 .. top - 1 /\ e + 1 \in 0 .. top
    BY <2>1
  <2> PICK p \in Indices, q \in Indices : p = Up(i, e + 1) /\ q = Up(j, e + 1)
    BY <2>2, UpInRow
  <2>3. Up(i, e) = p \div 2 /\ Up(j, e) = q \div 2
    BY <2>2, UpOnce
  <2>4. p \in Nat /\ q \in Nat
    BY IndexHasRow
  <2>5. p \div 2 < q \div 2
    BY <1>5, <2>2, <2>3
  <2>6. p < q
    BY <2>4, <2>5
  <2> QED
    BY <2>2, <2>6
<1> HIDE DEF T
<1>6. top - d \in Nat /\ d + (top - d) = top
  BY <1>3
<1>7. top - d \in T
  BY <1>4, <1>5, <1>6, NatSetInduction
<1>8. Up(i, top) < Up(j, top)
  BY <1>6, <1>7 DEF T
<1> QED
  BY <1>8, UpOnce

----------------------------------------------------------------------------
\* The nodes of the parallel tree

NodeRecords == [index : Indices, depth : 0 .. Depth, child : [{0, 1} -> Nat \cup {NoRef}]]

NodeSeq == Seq(NodeRecords)

NodesTyped(ns) ==
  /\ ns \in NodeSeq /\ 1 \in DOMAIN ns /\ ns[1].index = 1
  /\ \A r \in DOMAIN ns : ns[r].depth = DepthOf(ns[r].index)

\* A link leads to a node below its side.
LinksDown(ns) ==
  \A r \in DOMAIN ns, dir \in {0, 1} : ns[r].child[dir] # NoRef =>
    /\ ns[r].child[dir] \in DOMAIN ns /\ ns[r].depth < Depth
    /\ IsAbove(2 * ns[r].index + dir, ns[ns[r].child[dir]].index)

OneNodePerIndex(ns) ==
  \A r, s \in DOMAIN ns : ns[r].index = ns[s].index => r = s

\* What is below a side is below the child on it.
AllBelow(ns) ==
  \A r, s \in DOMAIN ns, dir \in {0, 1} :
    ns[r].depth < Depth /\ IsAbove(2 * ns[r].index + dir, ns[s].index)
    => /\ ns[r].child[dir] # NoRef
       /\ IsAbove(ns[ns[r].child[dir]].index, ns[s].index)

InnerSplit(ns) ==
  \A r \in DOMAIN ns, dir \in {0, 1} :
    r = 1 \/ ns[r].depth = Depth \/ ns[r].child[dir] # NoRef

TreeOfNodes(ns) ==
  NodesTyped(ns) /\ LinksDown(ns) /\ OneNodePerIndex(ns) /\ AllBelow(ns) /\ InnerSplit(ns)

\* The leaves are those of the items that were written.
LeavesWritten(ns, map) ==
  /\ DOMAIN map \subseteq Index
  /\ \A r \in DOMAIN ns : ns[r].depth = Depth => ns[r].index - 2^Depth \in DOMAIN map
  /\ \A i \in DOMAIN map : \E r \in DOMAIN ns : ns[r].index = LeafIndex(i)

\* A hash is kept for a node, or for an index on a link together with those of
\* the whole link.
CachedOnLinks(ns, kept) ==
  \A x \in kept : x \in Indices /\ \E r \in DOMAIN ns : IsAbove(x, ns[r].index)

OnLink(ns, r, dir, x) ==
  IsAbove(2 * ns[r].index + dir, x) /\ IsAbove(x, ns[ns[r].child[dir]].index)

WholeLinks(ns, kept) ==
  \A r \in DOMAIN ns, dir \in {0, 1} : ns[r].child[dir] # NoRef =>
    \A x \in Indices : OnLink(ns, r, dir, x) =>
      (x \in kept <=> ns[ns[r].child[dir]].index \in kept)

LEMMA NodeFacts ==
  ASSUME NEW ns, NodesTyped(ns), NEW r \in DOMAIN ns
  PROVE  /\ ns[r].index \in Indices /\ ns[r].depth = DepthOf(ns[r].index) /\ ns[r].depth \in 0 .. Depth
         /\ \A dir \in {0, 1} : ns[r].child[dir] \in Nat \cup {NoRef}
<1>1. ns[r] \in NodeRecords
  BY DEF NodesTyped, NodeSeq
<1> QED
  BY <1>1 DEF NodesTyped, NodeRecords

LEMMA LinkFacts ==
  ASSUME NEW ns, TreeOfNodes(ns), NEW r \in DOMAIN ns, NEW dir \in {0, 1}, ns[r].child[dir] # NoRef
  PROVE  /\ ns[r].child[dir] \in DOMAIN ns /\ ns[r].depth < Depth
         /\ ns[ns[r].child[dir]].index \in Indices
         /\ ns[r].depth < ns[ns[r].child[dir]].depth
         /\ IsAbove(2 * ns[r].index + dir, ns[ns[r].child[dir]].index)
         /\ IsAbove(ns[r].index, ns[ns[r].child[dir]].index)
         /\ ns[r].index # ns[ns[r].child[dir]].index
<1> PICK c : c = ns[r].child[dir]
  OBVIOUS
<1>1. c \in DOMAIN ns /\ ns[r].depth < Depth /\ IsAbove(2 * ns[r].index + dir, ns[c].index)
  BY DEF TreeOfNodes, LinksDown
<1>2. /\ ns[r].index \in Indices /\ ns[r].depth = DepthOf(ns[r].index)
      /\ ns[c].index \in Indices /\ ns[c].depth = DepthOf(ns[c].index)
  BY <1>1, NodeFacts DEF TreeOfNodes
<1>3. IsAbove(ns[r].index, ns[c].index) /\ ns[r].index # ns[c].index /\ ns[r].depth < ns[c].depth
  BY <1>1, <1>2, SideAbove
<1> QED
  BY <1>1, <1>2, <1>3

\* Of two nodes, one above the other, the lower one is below the child on its
\* side, and the child is another one.
LEMMA BelowChild ==
  ASSUME NEW ns, TreeOfNodes(ns), NEW r \in DOMAIN ns, NEW s \in DOMAIN ns,
         IsAbove(ns[r].index, ns[s].index), r # s
  PROVE  \E dir \in {0, 1} : /\ ns[r].child[dir] # NoRef /\ ns[r].depth < Depth
                             /\ IsAbove(2 * ns[r].index + dir, ns[s].index)
                             /\ IsAbove(ns[ns[r].child[dir]].index, ns[s].index)
<1>1. /\ ns[r].index \in Indices /\ ns[r].depth = DepthOf(ns[r].index)
      /\ ns[s].index \in Indices /\ ns[s].depth = DepthOf(ns[s].index)
  BY NodeFacts DEF TreeOfNodes
<1>2. ns[r].index # ns[s].index
  BY DEF TreeOfNodes, OneNodePerIndex
<1> PICK dir \in {0, 1} : DepthOf(ns[r].index) < Depth /\ IsAbove(2 * ns[r].index + dir, ns[s].index)
  BY <1>1, <1>2, BelowSide
<1>3. ns[r].child[dir] # NoRef /\ IsAbove(ns[ns[r].child[dir]].index, ns[s].index)
  BY <1>1 DEF TreeOfNodes, AllBelow
<1> QED
  BY <1>1, <1>3

----------------------------------------------------------------------------
\* The walk of an insert

WalkStep(f, ref, leaf) ==
  LET cur   == nodes[ref]
      dir   == Up(leaf, cur.depth + 1) % 2
      link  == cur.child[dir]
      next  == nodes[link]
      inter == Intersection(Up(leaf, next.depth), next.index)
      End(how, wiped) == [ref |-> ref, dir |-> dir, how |-> how, wiped |-> wiped]
  IN  IF link = NoRef THEN End("free link", {})
      ELSE IF Up(leaf, next.depth) # next.index
           THEN End("other branch", Wiped(inter, cur.index))
      ELSE IF next.index = leaf
           THEN End("leaf", Wiped(leaf, cur.index))
      ELSE LET rest == f[link]
           IN  [rest EXCEPT !.wiped = @ \cup Wiped(next.index, cur.index)]

Inner(ns) == {r \in DOMAIN ns : ns[r].depth < Depth}

LEMMA InnerOf ==
  ASSUME NEW ns, NodesTyped(ns), NEW r \in DOMAIN ns, ns[r].depth # Depth
  PROVE  r \in Inner(ns)
<1>1. ns[r].depth \in 0 .. Depth
  BY NodeFacts
<1> QED
  BY <1>1, DepthPositive DEF Inner

IsWalk(f, leaf) == f = [ref \in Inner(nodes) |-> WalkStep(f, ref, leaf)]

LEMMA WalkUnfold ==
  ASSUME NEW leaf
  PROVE  Walk(leaf) = (CHOOSE f : IsWalk(f, leaf))[1]
BY DEF Walk, IsWalk, WalkStep, Inner

LEMMA WalkLocal ==
  ASSUME TreeOfNodes(nodes), NEW leaf \in Indices, DepthOf(leaf) = Depth, NEW ref \in Inner(nodes),
         NEW f, NEW g, \A s \in Inner(nodes) : nodes[ref].depth < nodes[s].depth => f[s] = g[s]
  PROVE  WalkStep(f, ref, leaf) = WalkStep(g, ref, leaf)
<1> PICK ns : ns = nodes
  OBVIOUS
<1> PICK dir : dir = Up(leaf, ns[ref].depth + 1) % 2
  OBVIOUS
<1> PICK link : link = ns[ref].child[dir]
  OBVIOUS
<1>1. CASE link = NoRef \/ Up(leaf, ns[link].depth) # ns[link].index \/ ns[link].index = leaf
  BY <1>1 DEF WalkStep
<1>2. CASE ~(link = NoRef \/ Up(leaf, ns[link].depth) # ns[link].index \/ ns[link].index = leaf)
  <2>1. ref \in DOMAIN ns /\ ns[ref].index \in Indices /\ ns[ref].depth = DepthOf(ns[ref].index) /\ ns[ref].depth < Depth
    BY NodeFacts DEF TreeOfNodes, Inner
  <2>2. dir \in {0, 1}
    <3>1. ns[ref].depth + 1 \in 0 .. DepthOf(leaf)
      BY <2>1, IndexHasRow, DepthPositive
    <3>2. Up(leaf, ns[ref].depth + 1) \in Nat
      BY <3>1, UpInRow, IndexHasRow
    <3> QED
      BY <3>2, HalvesOf
  <2>3. link \in DOMAIN ns /\ ns[ref].depth < ns[link].depth /\ ns[link].depth \in 0 .. Depth
    BY <1>2, <2>1, <2>2, LinkFacts, NodeFacts DEF TreeOfNodes
  <2>4. ns[link].depth # Depth
    BY <1>2, UpOnce
  <2>5. link \in Inner(ns)
    BY <2>3, <2>4, DepthPositive DEF Inner
  <2>6. f[link] = g[link]
    BY <2>3, <2>5
  <2> QED
    BY <2>6 DEF WalkStep
<1> QED
  BY <1>1, <1>2

LEMMA WalkExists ==
  ASSUME TreeOfNodes(nodes), NEW leaf \in Indices, DepthOf(leaf) = Depth
  PROVE  \E f : IsWalk(f, leaf)
<1> PICK inner : inner = Inner(nodes)
  OBVIOUS
<1>0. \A r \in inner : nodes[r].depth \in Nat /\ nodes[r].depth <= Depth /\ Depth \in Nat
  BY NodeFacts, DepthPositive DEF TreeOfNodes, Inner
<1> DEFINE T == {n \in Nat : \E f : f = [r \in inner |-> f[r]] /\
                   \A r \in inner : Depth - nodes[r].depth <= n => f[r] = WalkStep(f, r, leaf)}
<1>1. 0 \in T
  <2> DEFINE f == [r \in inner |-> 0]
  <2>1. f = [r \in inner |-> f[r]]
    OBVIOUS
  <2>2. ASSUME NEW r \in inner PROVE ~(Depth - nodes[r].depth <= 0)
    <3>1. nodes[r].depth < Depth
      BY DEF Inner
    <3> QED
      BY <1>0, <3>1
  <2> HIDE DEF f
  <2> QED
    BY <2>1, <2>2
<1>2. ASSUME NEW n \in Nat, n \in T PROVE n + 1 \in T
  <2> PICK f : f = [r \in inner |-> f[r]] /\ \A r \in inner : Depth - nodes[r].depth <= n => f[r] = WalkStep(f, r, leaf)
    BY <1>2
  <2> DEFINE g == [r \in inner |-> IF Depth - nodes[r].depth <= n THEN f[r] ELSE WalkStep(f, r, leaf)]
  <2>1. g = [r \in inner |-> g[r]]
    OBVIOUS
  <2>2. \A r \in inner : /\ Depth - nodes[r].depth <= n => g[r] = f[r]
                         /\ ~(Depth - nodes[r].depth <= n) => g[r] = WalkStep(f, r, leaf)
    OBVIOUS
  <2> HIDE DEF g
  <2>3. ASSUME NEW r \in inner, Depth - nodes[r].depth <= n + 1 PROVE g[r] = WalkStep(g, r, leaf)
    <3>1. \A s \in inner : nodes[r].depth < nodes[s].depth => f[s] = g[s]
      <4> SUFFICES ASSUME NEW s \in inner, nodes[r].depth < nodes[s].depth PROVE f[s] = g[s]
        OBVIOUS
      <4>1. Depth - nodes[s].depth <= n
        BY <1>0, <2>3
      <4> QED
        BY <2>2, <4>1
    <3>2. WalkStep(f, r, leaf) = WalkStep(g, r, leaf)
      BY <3>1, WalkLocal
    <3> QED
      BY <2>2, <3>2
  <2> QED
    BY <2>1, <2>3
<1> HIDE DEF T
<1>3. Depth \in T
  BY <1>1, <1>2, NatSetInduction, DepthPositive
<1> PICK f : f = [r \in inner |-> f[r]] /\ \A r \in inner : Depth - nodes[r].depth <= Depth => f[r] = WalkStep(f, r, leaf)
  BY <1>3 DEF T
<1>4. \A r \in inner : f[r] = WalkStep(f, r, leaf)
  BY <1>0
<1>5. f = [r \in inner |-> WalkStep(f, r, leaf)]
  BY <1>4
<1> QED
  BY <1>5 DEF IsWalk

\* What a call of wipe_cache on the way to a leaf removes.
LEMMA WipedLink ==
  ASSUME TreeOfNodes(nodes), WholeLinks(nodes, DOMAIN cache), CachedOnLinks(nodes, DOMAIN cache),
         NEW r \in DOMAIN nodes, NEW dir \in {0, 1}, nodes[r].child[dir] # NoRef,
         NEW t \in Indices, OnLink(nodes, r, dir, t), NEW x \in DOMAIN cache
  PROVE  x \in Wiped(t, nodes[r].index)
         <=> IsAbove(x, t) /\ IsAbove(nodes[r].index, x) /\ x # nodes[r].index
<1> PICK ns, kept : ns = nodes /\ kept = DOMAIN cache
  OBVIOUS
<1> PICK c : c = ns[r].child[dir]
  OBVIOUS
<1> PICK a : a = ns[r].index
  OBVIOUS
<1>0. x \in Indices
  BY DEF CachedOnLinks
<1>1. a \in Indices /\ DepthOf(a) = ns[r].depth /\ DepthOf(a) < Depth
  BY LinkFacts, NodeFacts DEF TreeOfNodes
<1>2. c \in DOMAIN ns /\ ns[c].index \in Indices
  BY LinkFacts
<1>3. IsAbove(2 * a + dir, t) /\ IsAbove(t, ns[c].index)
  BY DEF OnLink
<1>4. 2 * a + dir \in Indices /\ DepthOf(2 * a + dir) = DepthOf(a) + 1 /\ IsAbove(a, 2 * a + dir)
  BY <1>1, SidesOf
<1>5. /\ IsAbove(a, t) /\ a # t /\ DepthOf(a) < DepthOf(t)
  BY <1>1, <1>3, SideAbove
<1>6. t \in kept <=> ns[c].index \in kept
  BY DEF WholeLinks
<1>7. /\ DepthOf(x) \in Nat /\ DepthOf(a) \in Nat /\ DepthOf(t) \in Nat
  BY <1>0, <1>1, IndexHasRow, DepthPositive
<1>8. ASSUME IsAbove(x, t), IsAbove(a, x), x # a PROVE x \in Wiped(t, a)
  <2> PICK side \in {0, 1} : IsAbove(2 * a + side, x)
    BY <1>0, <1>1, <1>8, BelowSide
  <2>1. 2 * a + side \in Indices
    BY <1>1, SidesOf
  <2>2. side = dir
    BY <1>0, <1>1, <1>3, <1>8, <2>1, AboveTransitive, OneSide
  <2>3. IsAbove(x, ns[c].index)
    BY <1>0, <1>2, <1>3, <1>8, AboveTransitive
  <2>4. OnLink(ns, r, dir, x)
    BY <2>2, <2>3 DEF OnLink
  <2>5. t \in kept
    BY <1>0, <1>6, <2>4 DEF WholeLinks
  <2>6. x = t \/ x \in Between(t, a)
    <3>1. SUFFICES ASSUME x # t PROVE x \in Between(t, a)
      OBVIOUS
    <3>2. DepthOf(x) < DepthOf(t) /\ DepthOf(a) < DepthOf(x)
      BY <1>0, <1>1, <1>8, <3>1, BelowSide
    <3>3. DepthOf(x) \in DepthOf(a) + 1 .. DepthOf(t) - 1
      BY <1>7, <3>2
    <3>4. x = Up(t, DepthOf(x))
      BY <1>8 DEF IsAbove
    <3> QED
      BY <3>3, <3>4 DEF Between
  <2> QED
    BY <2>5, <2>6 DEF Wiped
<1>9. ASSUME x \in Wiped(t, a) PROVE IsAbove(x, t) /\ IsAbove(a, x) /\ x # a
  <2>1. x = t \/ x \in Between(t, a)
    BY <1>9 DEF Wiped
  <2>2. CASE x = t
    BY <1>0, <1>5, <2>2, AboveItself
  <2>3. CASE x \in Between(t, a)
    <3> PICK d \in DepthOf(a) + 1 .. DepthOf(t) - 1 : x = Up(t, d)
      BY <2>3 DEF Between
    <3>1. d \in 0 .. DepthOf(t) /\ DepthOf(a) < d
      BY <1>7
    <3>2. IsAbove(x, t) /\ DepthOf(x) = d
      BY <3>1, AboveUp, UpInRow
    <3>3. DepthOf(a) <= DepthOf(x) /\ DepthOf(a) # DepthOf(x)
      BY <1>7, <3>1, <3>2
    <3>4. IsAbove(a, x)
      BY <1>0, <1>1, <1>5, <3>2, <3>3, AboveChain
    <3> QED
      BY <3>2, <3>3, <3>4
  <2> QED
    BY <2>1, <2>2, <2>3
<1> QED
  BY <1>8, <1>9

IsEnd(w) == w = [ref |-> w.ref, dir |-> w.dir, how |-> w.how, wiped |-> w.wiped]

\* Where the walk ends: at a node above the leaf, whose link on the side of the
\* leaf is free, or leads to the leaf or to a node that is not above it.  Of
\* the cached hashes, those on the way were removed.
WalkEnd(w, r, leaf) ==
  /\ IsEnd(w)
  /\ w.ref \in Inner(nodes) /\ w.dir \in {0, 1}
  /\ IsAbove(2 * nodes[w.ref].index + w.dir, leaf)
  /\ LET link == nodes[w.ref].child[w.dir] IN
     \/ w.how = "free link" /\ link = NoRef
     \/ w.how = "leaf" /\ link # NoRef /\ nodes[link].index = leaf
     \/ w.how = "other branch" /\ link # NoRef /\ ~IsAbove(nodes[link].index, leaf)
  /\ \A x \in DOMAIN cache :
       x \in w.wiped <=> IsAbove(x, leaf) /\ IsAbove(nodes[r].index, x) /\ x # nodes[r].index

CacheFits == CachedOnLinks(nodes, DOMAIN cache) /\ WholeLinks(nodes, DOMAIN cache)

LEMMA WalkEndIs ==
  ASSUME NEW ref \in Inner(nodes), NEW dir \in {0, 1}, NEW how, NEW wiped, NEW r, NEW leaf,
         IsAbove(2 * nodes[ref].index + dir, leaf),
         \/ how = "free link" /\ nodes[ref].child[dir] = NoRef
         \/ how = "leaf" /\ nodes[ref].child[dir] # NoRef /\ nodes[nodes[ref].child[dir]].index = leaf
         \/ /\ how = "other branch" /\ nodes[ref].child[dir] # NoRef
            /\ ~IsAbove(nodes[nodes[ref].child[dir]].index, leaf),
         \A x \in DOMAIN cache :
           x \in wiped <=> IsAbove(x, leaf) /\ IsAbove(nodes[r].index, x) /\ x # nodes[r].index
  PROVE  WalkEnd([ref |-> ref, dir |-> dir, how |-> how, wiped |-> wiped], r, leaf)
BY DEF WalkEnd, IsEnd

LEMMA WalkExcept ==
  ASSUME NEW rest, NEW more, IsEnd(rest)
  PROVE  [rest EXCEPT !.wiped = @ \cup more]
         = [ref |-> rest.ref, dir |-> rest.dir, how |-> rest.how, wiped |-> rest.wiped \cup more]
BY DEF IsEnd

LEMMA WalkEndMore ==
  ASSUME NEW rest, NEW r, NEW s, NEW leaf, NEW more, WalkEnd(rest, s, leaf),
         \A x \in DOMAIN cache :
           x \in rest.wiped \cup more <=> IsAbove(x, leaf) /\ IsAbove(nodes[r].index, x) /\ x # nodes[r].index
  PROVE  WalkEnd([rest EXCEPT !.wiped = @ \cup more], r, leaf)
<1>1. rest.ref \in Inner(nodes) /\ rest.dir \in {0, 1} /\ IsAbove(2 * nodes[rest.ref].index + rest.dir, leaf)
  BY DEF WalkEnd
<1>2. \/ rest.how = "free link" /\ nodes[rest.ref].child[rest.dir] = NoRef
      \/ rest.how = "leaf" /\ nodes[rest.ref].child[rest.dir] # NoRef /\ nodes[nodes[rest.ref].child[rest.dir]].index = leaf
      \/ /\ rest.how = "other branch" /\ nodes[rest.ref].child[rest.dir] # NoRef
         /\ ~IsAbove(nodes[nodes[rest.ref].child[rest.dir]].index, leaf)
  BY DEF WalkEnd
<1>3. WalkEnd([ref |-> rest.ref, dir |-> rest.dir, how |-> rest.how, wiped |-> rest.wiped \cup more], r, leaf)
  BY <1>1, <1>2, WalkEndIs
<1>4. IsEnd(rest)
  BY DEF WalkEnd
<1> QED
  BY <1>3, <1>4, WalkExcept

\* The leaf and the index above it at the depth of another.
LEMMA LeafAndOther ==
  ASSUME NEW leaf \in Indices, DepthOf(leaf) = Depth, NEW n \in Indices
  PROVE  /\ Up(leaf, DepthOf(n)) = n <=> IsAbove(n, leaf)
         /\ Up(leaf, DepthOf(n)) \in Indices /\ DepthOf(Up(leaf, DepthOf(n))) = DepthOf(n)
         /\ IsAbove(Up(leaf, DepthOf(n)), leaf)
         /\ DepthOf(n) = Depth => Up(leaf, DepthOf(n)) = leaf
<1>1. DepthOf(n) <= DepthOf(leaf) /\ DepthOf(n) \in 0 .. DepthOf(leaf)
  BY IndexHasRow, DepthPositive
<1>2. Up(leaf, DepthOf(n)) = n <=> IsAbove(n, leaf)
  BY <1>1 DEF IsAbove
<1> QED
  BY <1>1, <1>2, UpInRow, AboveUp, UpOnce

LEMMA StrictlyAbove ==
  ASSUME NEW a \in Indices, NEW n \in Indices, NEW x \in Indices, IsAbove(a, n), a # n, IsAbove(n, x)
  PROVE  IsAbove(a, x) /\ x # a
<1>1. IsAbove(a, x)
  BY AboveTransitive
<1>2. DepthOf(a) < DepthOf(n) /\ DepthOf(n) <= DepthOf(x)
  BY BelowSide DEF IsAbove
<1>3. DepthOf(a) \in Nat /\ DepthOf(n) \in Nat /\ DepthOf(x) \in Nat
  BY IndexHasRow, DepthPositive
<1>4. DepthOf(a) # DepthOf(x)
  BY <1>2, <1>3
<1> QED
  BY <1>1, <1>4

LEMMA WalkStepEnds ==
  ASSUME TreeOfNodes(nodes), CacheFits, NEW leaf \in Indices, DepthOf(leaf) = Depth, NEW f,
         NEW r \in Inner(nodes), IsAbove(nodes[r].index, leaf),
         \A s \in Inner(nodes) : nodes[r].depth < nodes[s].depth /\ IsAbove(nodes[s].index, leaf)
                                 => WalkEnd(f[s], s, leaf)
  PROVE  WalkEnd(WalkStep(f, r, leaf), r, leaf)
<1> PICK ns, kept : ns = nodes /\ kept = DOMAIN cache
  OBVIOUS
<1> PICK a : a = ns[r].index
  OBVIOUS
<1>1. r \in DOMAIN ns /\ a \in Indices /\ DepthOf(a) = ns[r].depth /\ DepthOf(a) < Depth
  BY NodeFacts DEF TreeOfNodes, Inner
<1>2. a # leaf
  BY <1>1, DepthPositive
<1> PICK dir \in {0, 1} : dir = Up(leaf, ns[r].depth + 1) % 2 /\ IsAbove(2 * a + dir, leaf)
  BY <1>1, <1>2, BelowSide
<1> PICK link : link = ns[r].child[dir]
  OBVIOUS
<1>3. \A x \in kept : x \in Indices
  BY DEF CacheFits, CachedOnLinks
<1>4. 2 * a + dir \in Indices /\ DepthOf(2 * a + dir) = DepthOf(a) + 1 /\ IsAbove(a, 2 * a + dir)
  BY <1>1, SidesOf
\* What is cached on the way to the leaf is on the side of the leaf.
<1>5. ASSUME NEW x \in kept, IsAbove(x, leaf), IsAbove(a, x), x # a
      PROVE  IsAbove(2 * a + dir, x)
  <2> PICK side \in {0, 1} : IsAbove(2 * a + side, x)
    BY <1>1, <1>3, <1>5, BelowSide
  <2>1. 2 * a + side \in Indices
    BY <1>1, SidesOf
  <2>2. side = dir
    BY <1>1, <1>3, <1>5, <2>1, AboveTransitive, OneSide
  <2> QED
    BY <2>2
<1>6. ASSUME NEW x \in kept, IsAbove(2 * a + dir, x)
      PROVE  link # NoRef /\ \E s \in DOMAIN ns : IsAbove(x, ns[s].index) /\ IsAbove(ns[link].index, ns[s].index)
  <2> PICK s \in DOMAIN ns : IsAbove(x, ns[s].index)
    BY DEF CacheFits, CachedOnLinks
  <2>1. ns[s].index \in Indices
    BY NodeFacts DEF TreeOfNodes
  <2>2. IsAbove(2 * a + dir, ns[s].index)
    BY <1>3, <1>4, <1>6, <2>1, AboveTransitive
  <2> QED
    BY <1>1, <2>2 DEF TreeOfNodes, AllBelow
\* What the walk forgets on the way to an index on the link.
<1>9. ASSUME link # NoRef, NEW t \in Indices, OnLink(nodes, r, dir, t), NEW x \in kept
      PROVE  x \in Wiped(t, a) <=> IsAbove(x, t) /\ IsAbove(a, x) /\ x # a
  <2>1. r \in DOMAIN nodes /\ nodes[r].child[dir] # NoRef /\ x \in DOMAIN cache
    BY <1>1, <1>9
  <2>2. WholeLinks(nodes, DOMAIN cache) /\ CachedOnLinks(nodes, DOMAIN cache)
    BY DEF CacheFits
  <2>3. x \in Wiped(t, nodes[r].index)
        <=> IsAbove(x, t) /\ IsAbove(nodes[r].index, x) /\ x # nodes[r].index
    BY <1>9, <2>1, <2>2, WipedLink
  <2> QED
    BY <2>3
<1>7. CASE link = NoRef
  <2>1. WalkStep(f, r, leaf) = [ref |-> r, dir |-> dir, how |-> "free link", wiped |-> {}]
    BY <1>7 DEF WalkStep
  <2>2. ASSUME NEW x \in kept PROVE ~(IsAbove(x, leaf) /\ IsAbove(a, x) /\ x # a)
    BY <1>5, <1>6, <1>7
  <2>3. \A x \in kept : x \in {} <=> IsAbove(x, leaf) /\ IsAbove(a, x) /\ x # a
    BY <2>2
  <2>4. WalkEnd([ref |-> r, dir |-> dir, how |-> "free link", wiped |-> {}], r, leaf)
    BY <1>1, <1>7, <2>3, WalkEndIs DEF Inner
  <2> QED
    BY <2>1, <2>4
<1>8. CASE link # NoRef
  <2>1. /\ link \in DOMAIN ns /\ ns[link].index \in Indices /\ ns[link].depth = DepthOf(ns[link].index)
        /\ ns[r].depth < ns[link].depth /\ ns[link].depth \in 0 .. Depth
        /\ IsAbove(2 * a + dir, ns[link].index) /\ IsAbove(a, ns[link].index) /\ a # ns[link].index
    BY <1>1, <1>8, LinkFacts, NodeFacts DEF TreeOfNodes
  <2> PICK n : n = ns[link].index
    OBVIOUS
  <2>8. n \in Indices /\ ns[link].depth = DepthOf(n) /\ ns[link].index = n
    BY <2>1
  <2>9. IsAbove(a, n) /\ a # n
    BY <2>1, <2>8
  <2>2. Up(leaf, DepthOf(n)) \in Indices /\ DepthOf(Up(leaf, DepthOf(n))) = DepthOf(n) /\ IsAbove(Up(leaf, DepthOf(n)), leaf)
    BY <2>8, LeafAndOther
  <2>3. Up(leaf, DepthOf(n)) = n <=> IsAbove(n, leaf)
    BY <2>8, LeafAndOther
  <2>7. DepthOf(n) = Depth => Up(leaf, DepthOf(n)) = leaf
    BY <2>8, LeafAndOther
  <2>4. CASE Up(leaf, DepthOf(n)) # n
    <3> PICK t : t = Intersection(Up(leaf, DepthOf(n)), n)
      OBVIOUS
    <3>1. /\ t \in Indices /\ IsAbove(t, Up(leaf, DepthOf(n))) /\ IsAbove(t, n)
          /\ \A x \in Indices : IsAbove(x, Up(leaf, DepthOf(n))) /\ IsAbove(x, n) => IsAbove(x, t)
      BY <2>2, <2>8, IntersectionIs
    <3> PICK wiped : wiped = Wiped(t, a)
      OBVIOUS
    <3>2. WalkStep(f, r, leaf) = [ref |-> r, dir |-> dir, how |-> "other branch", wiped |-> wiped]
      BY <1>8, <2>4, <2>8 DEF WalkStep
    <3>4. IsAbove(2 * a + dir, Up(leaf, DepthOf(n)))
      <4>1. DepthOf(2 * a + dir) <= DepthOf(n)
        BY <2>1, <2>8 DEF IsAbove
      <4> QED
        BY <1>4, <2>2, <4>1, AboveChain
    <3>5. OnLink(nodes, r, dir, t)
      BY <1>4, <2>1, <3>1, <3>4 DEF OnLink
    <3>6. IsAbove(t, leaf)
      BY <2>2, <2>8, <3>1, AboveTransitive
    <3>7. ASSUME NEW x \in kept PROVE x \in Wiped(t, a) <=> IsAbove(x, leaf) /\ IsAbove(a, x) /\ x # a
      <4>1. x \in Wiped(t, a) <=> IsAbove(x, t) /\ IsAbove(a, x) /\ x # a
        BY <1>8, <1>9, <3>1, <3>5
      <4>2. IsAbove(x, t) => IsAbove(x, leaf)
        BY <1>3, <3>1, <3>6, AboveTransitive
      <4>3. ASSUME IsAbove(x, leaf), IsAbove(a, x), x # a PROVE IsAbove(x, t)
        <5> PICK s \in DOMAIN ns : IsAbove(x, ns[s].index) /\ IsAbove(n, ns[s].index)
          BY <1>5, <1>6, <4>3
        <5>1. ns[s].index \in Indices
          BY NodeFacts DEF TreeOfNodes
        <5>2. ~IsAbove(n, x)
          BY <1>3, <2>8, <2>3, <2>4, <4>3, AboveTransitive
        <5>3. IsAbove(x, n)
          BY <1>3, <2>8, <5>1, <5>2, AboveComparable
        <5>4. DepthOf(x) <= DepthOf(n)
          BY <5>3 DEF IsAbove
        <5>5. IsAbove(x, Up(leaf, DepthOf(n)))
          BY <1>3, <2>2, <4>3, <5>4, AboveChain
        <5> QED
          BY <1>3, <3>1, <5>3, <5>5
      <4> QED
        BY <4>1, <4>2, <4>3
    <3> QED
      <4>1. WalkEnd([ref |-> r, dir |-> dir, how |-> "other branch", wiped |-> wiped], r, leaf)
        BY <1>1, <1>8, <2>3, <2>4, <3>7, WalkEndIs DEF Inner
      <4> QED
        BY <3>2, <4>1
  <2>5. CASE Up(leaf, DepthOf(n)) = n /\ n = leaf
    <3> PICK wiped : wiped = Wiped(leaf, a)
      OBVIOUS
    <3>1. WalkStep(f, r, leaf) = [ref |-> r, dir |-> dir, how |-> "leaf", wiped |-> wiped]
      BY <1>8, <2>5, <2>8 DEF WalkStep
    <3>3. OnLink(nodes, r, dir, leaf)
      BY <2>5, AboveItself DEF OnLink
    <3>4. ASSUME NEW x \in kept PROVE x \in Wiped(leaf, a) <=> IsAbove(x, leaf) /\ IsAbove(a, x) /\ x # a
      BY <1>8, <1>9, <3>3
    <3> QED
      <4>1. WalkEnd([ref |-> r, dir |-> dir, how |-> "leaf", wiped |-> wiped], r, leaf)
        BY <1>1, <1>8, <2>5, <3>4, WalkEndIs DEF Inner
      <4> QED
        BY <3>1, <4>1
  <2>6. CASE Up(leaf, DepthOf(n)) = n /\ n # leaf
    <3> PICK rest : rest = f[link]
      OBVIOUS
    <3> PICK wiped : wiped = Wiped(n, a)
      OBVIOUS
    <3>1. WalkStep(f, r, leaf) = [rest EXCEPT !.wiped = @ \cup wiped]
      BY <1>8, <2>6, <2>8 DEF WalkStep
    <3>2. link \in Inner(nodes)
      <4>1. DepthOf(n) # Depth
        BY <2>6, <2>7, <2>8
      <4> QED
        <5>1. ns[link].depth # Depth
          BY <2>8, <4>1
        <5> QED
          BY <2>1, <5>1, InnerOf DEF TreeOfNodes
    <3>3. WalkEnd(rest, link, leaf)
      BY <2>1, <2>8, <2>3, <2>6, <3>2
    <3>8. \A x \in DOMAIN cache :
            x \in rest.wiped <=> IsAbove(x, leaf) /\ IsAbove(nodes[link].index, x) /\ x # nodes[link].index
      BY <2>8, <3>3 DEF WalkEnd
    <3>6. OnLink(nodes, r, dir, n)
      BY <2>1, <2>8, AboveItself DEF OnLink
    <3>7. ASSUME NEW x \in kept
          PROVE  x \in rest.wiped \cup wiped <=> IsAbove(x, leaf) /\ IsAbove(a, x) /\ x # a
      <4>1. x \in Wiped(n, a) <=> IsAbove(x, n) /\ IsAbove(a, x) /\ x # a
        BY <1>8, <1>9, <2>8, <3>6
      <4>2. x \in rest.wiped <=> IsAbove(x, leaf) /\ IsAbove(n, x) /\ x # n
        BY <2>8, <3>8
      <4>3. IsAbove(x, n) => IsAbove(x, leaf)
        BY <1>3, <2>8, <2>3, <2>6, AboveTransitive
      <4>4. IsAbove(n, x) => IsAbove(a, x) /\ x # a
        <5> SUFFICES ASSUME IsAbove(n, x) PROVE IsAbove(a, x) /\ x # a
          OBVIOUS
        <5> QED
          <6>1. x \in Indices /\ a \in Indices
            BY <1>1, <1>3
          <6> QED
            BY <2>8, <2>9, <6>1, StrictlyAbove
      <4>5. IsAbove(x, leaf) => IsAbove(x, n) \/ IsAbove(n, x)
        BY <1>3, <2>8, <2>3, <2>6, AboveComparable
      <4>6. x = n => IsAbove(x, n)
        BY <2>8, AboveItself
      <4> QED
        BY <4>1, <4>2, <4>3, <4>4, <4>5, <4>6
    <3> QED
      <4>1. \A x \in DOMAIN cache :
              x \in rest.wiped \cup wiped <=> IsAbove(x, leaf) /\ IsAbove(nodes[r].index, x) /\ x # nodes[r].index
        BY <3>7
      <4>2. WalkEnd([rest EXCEPT !.wiped = @ \cup wiped], r, leaf)
        BY <3>3, <4>1, WalkEndMore
      <4> QED
        BY <3>1, <4>2
  <2> QED
    BY <2>4, <2>5, <2>6
<1> QED
  BY <1>7, <1>8

LEMMA WalkEnds ==
  ASSUME TreeOfNodes(nodes), CacheFits, NEW leaf \in Indices, DepthOf(leaf) = Depth
  PROVE  WalkEnd(Walk(leaf), 1, leaf)
<1> PICK f : f = CHOOSE g : IsWalk(g, leaf)
  OBVIOUS
<1>1. IsWalk(f, leaf)
  BY WalkExists
<1>2. \A r \in Inner(nodes) : f[r] = WalkStep(f, r, leaf)
  BY <1>1 DEF IsWalk
<1> DEFINE T == {n \in Nat : \A r \in Inner(nodes) : Depth - nodes[r].depth <= n /\ IsAbove(nodes[r].index, leaf)
                                                     => WalkEnd(f[r], r, leaf)}
<1>0. \A r \in Inner(nodes) : nodes[r].depth \in Nat /\ nodes[r].depth < Depth /\ Depth \in Nat
  BY NodeFacts, DepthPositive DEF TreeOfNodes, Inner
<1>3. 0 \in T
  <2>1. \A r \in Inner(nodes) : ~(Depth - nodes[r].depth <= 0)
    BY <1>0
  <2> QED
    BY <2>1
<1>4. ASSUME NEW n \in Nat, n \in T PROVE n + 1 \in T
  <2>1. SUFFICES ASSUME NEW r \in Inner(nodes), Depth - nodes[r].depth <= n + 1, IsAbove(nodes[r].index, leaf)
                 PROVE  WalkEnd(f[r], r, leaf)
    OBVIOUS
  <2>2. \A s \in Inner(nodes) : nodes[r].depth < nodes[s].depth => Depth - nodes[s].depth <= n
    BY <1>0, <2>1
  <2>3. \A s \in Inner(nodes) : nodes[r].depth < nodes[s].depth /\ IsAbove(nodes[s].index, leaf) => WalkEnd(f[s], s, leaf)
    BY <1>4, <2>2
  <2>4. WalkEnd(WalkStep(f, r, leaf), r, leaf)
    BY <2>1, <2>3, WalkStepEnds
  <2> QED
    BY <1>2, <2>4
<1> HIDE DEF T
<1>5. Depth \in T
  BY <1>3, <1>4, NatSetInduction, DepthPositive
<1>6. 1 \in Inner(nodes) /\ nodes[1].index = 1 /\ nodes[1].depth = 0
  BY RootIndex, DepthPositive DEF TreeOfNodes, NodesTyped, Inner
<1>7. Depth - nodes[1].depth <= Depth /\ IsAbove(nodes[1].index, leaf)
  BY <1>0, <1>6, RootIndex
<1>8. WalkEnd(f[1], 1, leaf)
  BY <1>5, <1>6, <1>7 DEF T
<1> QED
  BY <1>8, WalkUnfold

----------------------------------------------------------------------------
\* The nodes after an insert

\* The link of a node on a side is free, leads to the leaf or is one from which
\* the leaf branches.
EndsAt(ns, R, D, leaf) ==
  /\ R \in Inner(ns) /\ D \in {0, 1} /\ IsAbove(2 * ns[R].index + D, leaf)
  /\ ns[R].child[D] # NoRef
     => ns[ns[R].child[D]].index = leaf \/ ~IsAbove(ns[ns[R].child[D]].index, leaf)

LEMMA EndFacts ==
  ASSUME NEW ns, TreeOfNodes(ns), NEW R, NEW D, NEW leaf \in Indices, EndsAt(ns, R, D, leaf)
  PROVE  /\ R \in DOMAIN ns /\ ns[R].index \in Indices /\ DepthOf(ns[R].index) = ns[R].depth
         /\ ns[R].depth < Depth /\ D \in {0, 1}
         /\ 2 * ns[R].index + D \in Indices /\ DepthOf(2 * ns[R].index + D) = ns[R].depth + 1
         /\ IsAbove(2 * ns[R].index + D, leaf) /\ IsAbove(ns[R].index, leaf)
<1>1. R \in DOMAIN ns /\ ns[R].depth < Depth /\ D \in {0, 1} /\ IsAbove(2 * ns[R].index + D, leaf)
  BY DEF EndsAt, Inner
<1>2. ns[R].index \in Indices /\ ns[R].depth = DepthOf(ns[R].index)
  BY <1>1, NodeFacts DEF TreeOfNodes
<1>3. 2 * ns[R].index + D \in Indices /\ DepthOf(2 * ns[R].index + D) = DepthOf(ns[R].index) + 1
  BY <1>1, <1>2, SidesOf
<1>4. IsAbove(ns[R].index, leaf)
  BY <1>1, <1>2, SideAbove
<1> QED
  BY <1>1, <1>2, <1>3, <1>4

\* It is the lowest node above the leaf.
LEMMA EndIsLowest ==
  ASSUME NEW ns, TreeOfNodes(ns), NEW R, NEW D, NEW leaf \in Indices, DepthOf(leaf) = Depth,
         EndsAt(ns, R, D, leaf), NEW s \in Inner(ns), IsAbove(ns[s].index, leaf)
  PROVE  IsAbove(ns[s].index, ns[R].index)
<1>1. s \in DOMAIN ns /\ ns[s].index \in Indices /\ ns[s].depth = DepthOf(ns[s].index) /\ ns[s].depth < Depth
  BY NodeFacts DEF TreeOfNodes, Inner
<1>2. R \in DOMAIN ns /\ ns[R].index \in Indices /\ IsAbove(ns[R].index, leaf) /\ ns[R].depth < Depth
      /\ DepthOf(ns[R].index) = ns[R].depth
  BY EndFacts
<1>3. ASSUME IsAbove(ns[R].index, ns[s].index), R # s PROVE FALSE
  <2> PICK dir \in {0, 1} : /\ ns[R].child[dir] # NoRef
                            /\ IsAbove(2 * ns[R].index + dir, ns[s].index)
                            /\ IsAbove(ns[ns[R].child[dir]].index, ns[s].index)
    BY <1>1, <1>2, <1>3, BelowChild
  <2>1. 2 * ns[R].index + dir \in Indices
    BY <1>2, SidesOf
  <2>2. IsAbove(2 * ns[R].index + dir, leaf)
    BY <1>1, <2>1, AboveTransitive
  <2>3. dir = D
    BY <1>2, <2>2, OneSide DEF EndsAt
  <2>4. ns[ns[R].child[dir]].index \in Indices
    BY <1>2, LinkFacts
  <2>5. IsAbove(ns[ns[R].child[dir]].index, leaf)
    BY <1>1, <2>4, AboveTransitive
  <2>6. IsAbove(leaf, ns[s].index)
    BY <2>3, <2>5 DEF EndsAt
  <2>7. Depth <= DepthOf(ns[s].index)
    BY <2>6 DEF IsAbove
  <2>8. DepthOf(ns[s].index) \in Nat /\ Depth \in Nat /\ DepthOf(ns[s].index) < Depth
    BY <1>1, IndexHasRow, DepthPositive
  <2> QED
    BY <2>7, <2>8
<1>4. IsAbove(ns[s].index, ns[R].index) \/ IsAbove(ns[R].index, ns[s].index)
  BY <1>1, <1>2, AboveComparable
<1> QED
  BY <1>2, <1>3, <1>4, AboveItself

\* The nodes stay what they are, but for one link.
Relinked(ns, ns2, R, D, new) ==
  /\ \A r \in DOMAIN ns : ns2[r].index = ns[r].index /\ ns2[r].depth = ns[r].depth
  /\ ns2[R].child[D] = new
  /\ \A r \in DOMAIN ns, dir \in {0, 1} : (r = R /\ dir = D) \/ ns2[r].child[dir] = ns[r].child[dir]

RelinkNode(x, D, new) == [x EXCEPT !.child[D] = new]

Relink(ns, R, D, new) == [ns EXCEPT ![R].child[D] = new]

LEMMA RelinkedRecord ==
  ASSUME NEW x \in NodeRecords, NEW D \in {0, 1}, NEW new \in Nat
  PROVE  /\ RelinkNode(x, D, new) \in NodeRecords
         /\ RelinkNode(x, D, new).index = x.index
         /\ RelinkNode(x, D, new).depth = x.depth
         /\ RelinkNode(x, D, new).child[D] = new
         /\ \A dir \in {0, 1} : dir = D \/ RelinkNode(x, D, new).child[dir] = x.child[dir]
BY DEF NodeRecords, RelinkNode

LEMMA RelinkedSeq ==
  ASSUME NEW ns \in NodeSeq, NEW R \in DOMAIN ns, NEW D \in {0, 1}, NEW new \in Nat
  PROVE  /\ Relink(ns, R, D, new) \in NodeSeq
         /\ DOMAIN Relink(ns, R, D, new) = DOMAIN ns
         /\ Relink(ns, R, D, new)[R] = RelinkNode(ns[R], D, new)
         /\ \A r \in DOMAIN ns : r = R \/ Relink(ns, R, D, new)[r] = ns[r]
<1> DEFINE x == RelinkNode(ns[R], D, new)
<1>1. ns[R] \in NodeRecords
  BY DEF NodeSeq
<1>2. x \in NodeRecords
  BY <1>1, RelinkedRecord
<1>3. Relink(ns, R, D, new) = [ns EXCEPT ![R] = x]
  BY DEF Relink, RelinkNode, NodeSeq
<1> HIDE DEF x
<1>4. [ns EXCEPT ![R] = x] \in NodeSeq
  BY <1>2 DEF NodeSeq
<1>5. /\ DOMAIN [ns EXCEPT ![R] = x] = DOMAIN ns /\ [ns EXCEPT ![R] = x][R] = x
      /\ \A r \in DOMAIN ns : r = R \/ [ns EXCEPT ![R] = x][r] = ns[r]
  BY DEF NodeSeq
<1> QED
  BY <1>3, <1>4, <1>5 DEF x

LEMMA RelinkedDomain ==
  ASSUME NEW ns \in NodeSeq, NEW R \in DOMAIN ns, NEW D \in {0, 1}, NEW new \in Nat
  PROVE  DOMAIN Relink(ns, R, D, new) = DOMAIN ns
BY RelinkedSeq

LEMMA RelinkedOther ==
  ASSUME NEW ns \in NodeSeq, NEW R \in DOMAIN ns, NEW D \in {0, 1}, NEW new \in Nat,
         NEW r \in DOMAIN ns, r # R
  PROVE  Relink(ns, R, D, new)[r] = ns[r]
BY RelinkedSeq

LEMMA RelinkedSide ==
  ASSUME NEW x \in NodeRecords, NEW D \in {0, 1}, NEW new \in Nat, NEW dir \in {0, 1}, dir # D
  PROVE  RelinkNode(x, D, new).child[dir] = x.child[dir]
BY DEF NodeRecords, RelinkNode

LEMMA AppendFacts ==
  ASSUME NEW ns \in NodeSeq, NEW x \in NodeRecords
  PROVE  /\ Append(ns, x) \in NodeSeq
         /\ Len(ns) + 1 \in Nat /\ Len(ns) + 1 \notin DOMAIN ns /\ Len(Append(ns, x)) = Len(ns) + 1
         /\ DOMAIN Append(ns, x) = DOMAIN ns \cup {Len(ns) + 1}
         /\ Append(ns, x)[Len(ns) + 1] = x
         /\ \A r \in DOMAIN ns : Append(ns, x)[r] = ns[r]
BY DEF NodeSeq

\* What a node is.
IsNode(ns, r, index, depth, left, right) ==
  /\ ns[r].index = index /\ ns[r].depth = depth
  /\ ns[r].child[0] = left /\ ns[r].child[1] = right

LEMMA NodeIs ==
  ASSUME NEW index \in Indices, NEW depth \in 0 .. Depth, NEW left \in Nat \cup {NoRef}, NEW right \in Nat \cup {NoRef}
  PROVE  /\ Node(index, depth, left, right) \in NodeRecords
         /\ Node(index, depth, left, right).index = index /\ Node(index, depth, left, right).depth = depth
         /\ Node(index, depth, left, right).child[0] = left /\ Node(index, depth, left, right).child[1] = right
BY DEF Node, NodeRecords

LEMMA RelinkedFacts ==
  ASSUME NEW ns \in NodeSeq, NEW R \in DOMAIN ns, NEW D \in {0, 1}, NEW new \in Nat
  PROVE  Relinked(ns, Relink(ns, R, D, new), R, D, new)
<1> DEFINE after == Relink(ns, R, D, new)
           y == ns[R]
           x == RelinkNode(y, D, new)
<1>1. y \in NodeRecords
  BY DEF NodeSeq
<1>10. after[R] = x
  BY RelinkedSeq
<1>11. ASSUME NEW r \in DOMAIN ns, r # R PROVE after[r] = ns[r]
  BY <1>11, RelinkedOther
<1>2. after[R] = x /\ \A r \in DOMAIN ns : r = R \/ after[r] = ns[r]
  BY <1>10, <1>11
<1> HIDE DEF y
<1>12. x = RelinkNode(y, D, new)
  OBVIOUS
<1> HIDE DEF x
<1>3. x.index = y.index /\ x.depth = y.depth /\ x.child[D] = new
  BY <1>1, <1>12, RelinkedRecord
<1>8. ASSUME NEW dir \in {0, 1}, dir # D PROVE x.child[dir] = y.child[dir]
  BY <1>1, <1>8, <1>12, RelinkedSide
<1>9. y = ns[R]
  BY DEF y
<1> HIDE DEF x, after
<1>4. ASSUME NEW r \in DOMAIN ns PROVE after[r].index = ns[r].index /\ after[r].depth = ns[r].depth
  BY <1>2, <1>3, <1>9
<1>5. ASSUME NEW r \in DOMAIN ns, NEW dir \in {0, 1}, ~(r = R /\ dir = D)
      PROVE  after[r].child[dir] = ns[r].child[dir]
  BY <1>2, <1>5, <1>8, <1>9
<1>6. after[R].child[D] = new
  BY <1>2, <1>3, <1>9
<1>7. Relinked(ns, after, R, D, new)
  BY <1>4, <1>5, <1>6 DEF Relinked
<1> QED
  BY <1>7 DEF after

Grown(ns, leaf) == Append(ns, Node(leaf, Depth, NoRef, NoRef))

OnFreeLink(ns, R, D, leaf) == Relink(Grown(ns, leaf), R, D, Len(ns) + 1)

OnBranch(ns, R, D, leaf, split) == Relink(Append(Grown(ns, leaf), split), R, D, (Len(ns) + 1) + 1)

LEMMA GrownFacts ==
  ASSUME NEW ns \in NodeSeq, NEW leaf \in Indices
  PROVE  /\ Grown(ns, leaf) \in NodeSeq
         /\ Len(ns) + 1 \in Nat /\ Len(ns) + 1 \notin DOMAIN ns /\ Len(Grown(ns, leaf)) = Len(ns) + 1
         /\ DOMAIN Grown(ns, leaf) = DOMAIN ns \cup {Len(ns) + 1}
         /\ IsNode(Grown(ns, leaf), Len(ns) + 1, leaf, Depth, NoRef, NoRef)
         /\ \A r \in DOMAIN ns : Grown(ns, leaf)[r] = ns[r]
<1> DEFINE x == Node(leaf, Depth, NoRef, NoRef)
<1>1. /\ x \in NodeRecords /\ x.index = leaf /\ x.depth = Depth
      /\ x.child[0] = NoRef /\ x.child[1] = NoRef
  BY DepthPositive DEF Node, NodeRecords
<1>2. Grown(ns, leaf) = Append(ns, x)
  BY DEF Grown
<1> HIDE DEF x
<1>3. /\ Append(ns, x) \in NodeSeq
      /\ Len(ns) + 1 \in Nat /\ Len(ns) + 1 \notin DOMAIN ns /\ Len(Append(ns, x)) = Len(ns) + 1
      /\ DOMAIN Append(ns, x) = DOMAIN ns \cup {Len(ns) + 1}
      /\ Append(ns, x)[Len(ns) + 1] = x
      /\ \A r \in DOMAIN ns : Append(ns, x)[r] = ns[r]
  BY <1>1, AppendFacts
<1> QED
  BY <1>1, <1>2, <1>3 DEF IsNode

\* The nodes with a leaf on a link that was free.
LEMMA FreeLinkShape ==
  ASSUME NEW ns \in NodeSeq, NEW R \in DOMAIN ns, NEW D \in {0, 1}, NEW leaf \in Indices
  PROVE  \E L \in Nat :
           /\ OnFreeLink(ns, R, D, leaf) \in NodeSeq
           /\ L \notin DOMAIN ns /\ DOMAIN OnFreeLink(ns, R, D, leaf) = DOMAIN ns \cup {L}
           /\ Relinked(ns, OnFreeLink(ns, R, D, leaf), R, D, L)
           /\ IsNode(OnFreeLink(ns, R, D, leaf), L, leaf, Depth, NoRef, NoRef)
<1> DEFINE L == Len(ns) + 1
           grown == Grown(ns, leaf)
           after == Relink(grown, R, D, L)
<1>1. /\ grown \in NodeSeq /\ L \in Nat /\ L \notin DOMAIN ns
      /\ DOMAIN grown = DOMAIN ns \cup {L}
      /\ IsNode(grown, L, leaf, Depth, NoRef, NoRef)
      /\ \A r \in DOMAIN ns : grown[r] = ns[r]
  BY GrownFacts
<1>2. OnFreeLink(ns, R, D, leaf) = after
  BY DEF OnFreeLink
<1> HIDE DEF L, grown
<1>3. R \in DOMAIN grown /\ R # L
  BY <1>1
<1>4. after \in NodeSeq
  BY <1>1, <1>3, RelinkedSeq
<1>5. DOMAIN after = DOMAIN grown
  BY <1>1, <1>3, RelinkedDomain
<1>6. ASSUME NEW r \in DOMAIN grown, r # R PROVE after[r] = grown[r]
  BY <1>1, <1>3, <1>6, RelinkedOther
<1>7. Relinked(grown, after, R, D, L)
  BY <1>1, <1>3, RelinkedFacts
<1> HIDE DEF after
<1>8. Relinked(ns, after, R, D, L)
  BY <1>1, <1>7 DEF Relinked
<1>9. IsNode(after, L, leaf, Depth, NoRef, NoRef)
  <2>1. after[L] = grown[L]
    BY <1>1, <1>3, <1>6
  <2> QED
    BY <1>1, <2>1 DEF IsNode
<1> QED
  BY <1>1, <1>2, <1>4, <1>5, <1>8, <1>9

\* The nodes with a leaf that branches off a link.
Branched(ns, after, R, D, leaf, split, L, M) ==
  /\ after \in NodeSeq
  /\ L \in Nat /\ L \notin DOMAIN ns /\ M \in Nat /\ M \notin DOMAIN ns /\ M # L
  /\ DOMAIN after = DOMAIN ns \cup {L, M}
  /\ Relinked(ns, after, R, D, M)
  /\ IsNode(after, L, leaf, Depth, NoRef, NoRef)
  /\ after[M] = split

LEMMA BranchShape ==
  ASSUME NEW ns \in NodeSeq, NEW R \in DOMAIN ns, NEW D \in {0, 1}, NEW leaf \in Indices, NEW split \in NodeRecords
  PROVE  \E M : Branched(ns, OnBranch(ns, R, D, leaf, split), R, D, leaf, split, Len(ns) + 1, M)
<1> DEFINE L == Len(ns) + 1
           M == L + 1
           once == Grown(ns, leaf)
           grown == Append(once, split)
           after == Relink(grown, R, D, M)
<1>1. /\ once \in NodeSeq /\ L \in Nat /\ L \notin DOMAIN ns /\ Len(once) = L
      /\ DOMAIN once = DOMAIN ns \cup {L}
      /\ IsNode(once, L, leaf, Depth, NoRef, NoRef)
      /\ \A r \in DOMAIN ns : once[r] = ns[r]
  BY GrownFacts
<1>2. OnBranch(ns, R, D, leaf, split) = after
  BY DEF OnBranch
<1> HIDE DEF L, once
<1>3. /\ grown \in NodeSeq /\ M \in Nat /\ M \notin DOMAIN once
      /\ DOMAIN grown = DOMAIN once \cup {M} /\ grown[M] = split
      /\ \A r \in DOMAIN once : grown[r] = once[r]
  BY <1>1, AppendFacts
<1> HIDE DEF M, grown
<1>4. R \in DOMAIN grown /\ R # L /\ R # M /\ M # L
  BY <1>1, <1>3
<1>5. after \in NodeSeq
  BY <1>3, <1>4, RelinkedSeq
<1>15. grown \in NodeSeq /\ R \in DOMAIN grown /\ M \in Nat
  BY <1>3, <1>4
<1>6. DOMAIN after = DOMAIN grown
  BY <1>15, RelinkedDomain
<1>7. ASSUME NEW r \in DOMAIN grown, r # R PROVE after[r] = grown[r]
  BY <1>3, <1>4, <1>7, RelinkedOther
<1>8. Relinked(grown, after, R, D, M)
  BY <1>3, <1>4, RelinkedFacts
<1> HIDE DEF after
<1>9. \A r \in DOMAIN ns : r \in DOMAIN grown /\ grown[r] = ns[r]
  BY <1>1, <1>3
<1>10. Relinked(ns, after, R, D, M)
  BY <1>8, <1>9 DEF Relinked
<1>11. IsNode(after, L, leaf, Depth, NoRef, NoRef)
  <2>1. after[L] = once[L]
    BY <1>1, <1>3, <1>4, <1>7
  <2> QED
    BY <1>1, <2>1 DEF IsNode
<1>12. after[M] = split
  BY <1>3, <1>4, <1>7
<1>13. DOMAIN after = DOMAIN ns \cup {L, M} /\ M \notin DOMAIN ns
  BY <1>1, <1>3, <1>6
<1>14. Branched(ns, after, R, D, leaf, split, L, M)
  BY <1>1, <1>3, <1>4, <1>5, <1>10, <1>11, <1>12, <1>13 DEF Branched
<1> QED
  BY <1>2, <1>14 DEF L

\* A node with the leaf below another side of it than that of the new link has
\* the node of the new link below its child there.
LEMMA OtherSides ==
  ASSUME NEW ns, TreeOfNodes(ns), NEW R, NEW D, NEW leaf \in Indices, DepthOf(leaf) = Depth,
         EndsAt(ns, R, D, leaf), NEW r \in Inner(ns), NEW dir \in {0, 1}, ~(r = R /\ dir = D),
         IsAbove(2 * ns[r].index + dir, leaf)
  PROVE  ns[r].child[dir] # NoRef /\ IsAbove(ns[ns[r].child[dir]].index, ns[R].index)
<1>1. r \in DOMAIN ns /\ ns[r].index \in Indices /\ ns[r].depth = DepthOf(ns[r].index) /\ ns[r].depth < Depth
  BY NodeFacts DEF TreeOfNodes, Inner
<1>2. R \in DOMAIN ns /\ ns[R].index \in Indices /\ IsAbove(ns[R].index, leaf)
  BY EndFacts
<1>3. r # R
  BY <1>1, OneSide DEF EndsAt
<1>4. IsAbove(ns[r].index, leaf)
  BY <1>1, SideAbove
<1>5. IsAbove(ns[r].index, ns[R].index)
  BY <1>4, EndIsLowest
<1> PICK side \in {0, 1} : /\ ns[r].child[side] # NoRef
                           /\ IsAbove(2 * ns[r].index + side, ns[R].index)
                           /\ IsAbove(ns[ns[r].child[side]].index, ns[R].index)
  BY <1>1, <1>2, <1>3, <1>5, BelowChild
<1>6. 2 * ns[r].index + side \in Indices
  BY <1>1, SidesOf
<1>7. IsAbove(2 * ns[r].index + side, leaf)
  BY <1>2, <1>6, AboveTransitive
<1>8. side = dir
  BY <1>1, <1>7, OneSide
<1> QED
  BY <1>8

\* No node is below the side of the new link but below its child.
LEMMA LeafIsNew ==
  ASSUME NEW ns, TreeOfNodes(ns), NEW R, NEW D, NEW leaf \in Indices, EndsAt(ns, R, D, leaf),
         ns[R].child[D] = NoRef \/ ~IsAbove(ns[ns[R].child[D]].index, leaf),
         NEW s \in DOMAIN ns
  PROVE  /\ ns[s].index # leaf
         /\ ns[R].child[D] = NoRef => ~IsAbove(2 * ns[R].index + D, ns[s].index)
<1>1. R \in DOMAIN ns /\ ns[R].depth < Depth /\ D \in {0, 1} /\ IsAbove(2 * ns[R].index + D, leaf)
  BY DEF EndsAt, Inner
<1>2. IsAbove(2 * ns[R].index + D, ns[s].index)
      => ns[R].child[D] # NoRef /\ IsAbove(ns[ns[R].child[D]].index, ns[s].index)
  BY <1>1 DEF TreeOfNodes, AllBelow
<1> QED
  BY <1>1, <1>2

LEMMA FreeLinkTree ==
  ASSUME NEW ns, TreeOfNodes(ns), NEW R, NEW D, NEW leaf \in Indices, DepthOf(leaf) = Depth,
         EndsAt(ns, R, D, leaf), ns[R].child[D] = NoRef,
         NEW after \in NodeSeq, NEW L \in Nat, L \notin DOMAIN ns, DOMAIN after = DOMAIN ns \cup {L},
         Relinked(ns, after, R, D, L), IsNode(after, L, leaf, Depth, NoRef, NoRef)
  PROVE  TreeOfNodes(after)
<1>1. R \in DOMAIN ns /\ ns[R].index \in Indices /\ ns[R].depth < Depth /\ D \in {0, 1}
      /\ IsAbove(2 * ns[R].index + D, leaf)
  BY EndFacts
<1>2. \A r \in DOMAIN ns : /\ after[r].index = ns[r].index /\ after[r].depth = ns[r].depth
                           /\ r \in DOMAIN after /\ r # L
  BY DEF Relinked
<1>3. after[R].child[D] = L
  BY DEF Relinked
<1>4. \A r \in DOMAIN ns, dir \in {0, 1} : (r = R /\ dir = D) \/ after[r].child[dir] = ns[r].child[dir]
  BY DEF Relinked
<1>5. /\ L \in DOMAIN after /\ after[L].index = leaf /\ after[L].depth = Depth
      /\ \A dir \in {0, 1} : after[L].child[dir] = NoRef
  BY DEF IsNode
<1>6. L # NoRef
  BY NoRefIsNone
<1>7. \A s \in DOMAIN ns : ns[s].index # leaf /\ ~IsAbove(2 * ns[R].index + D, ns[s].index)
  BY LeafIsNew
<1>8. NodesTyped(after)
  <2>1. 1 \in DOMAIN after /\ after[1].index = 1
    BY <1>2 DEF TreeOfNodes, NodesTyped
  <2>2. \A r \in DOMAIN after : after[r].depth = DepthOf(after[r].index)
    BY <1>2, <1>5 DEF TreeOfNodes, NodesTyped
  <2> QED
    BY <2>1, <2>2 DEF NodesTyped
<1>9. LinksDown(after)
  <2> SUFFICES ASSUME NEW r \in DOMAIN after, NEW dir \in {0, 1}, after[r].child[dir] # NoRef
               PROVE  /\ after[r].child[dir] \in DOMAIN after /\ after[r].depth < Depth
                      /\ IsAbove(2 * after[r].index + dir, after[after[r].child[dir]].index)
    BY DEF LinksDown
  <2>1. r \in DOMAIN ns
    BY <1>5
  <2>2. CASE r = R /\ dir = D
    BY <1>1, <1>2, <1>3, <1>5, <2>2
  <2>3. CASE ~(r = R /\ dir = D)
    <3>1. after[r].child[dir] = ns[r].child[dir]
      BY <1>4, <2>1, <2>3
    <3>2. /\ ns[r].child[dir] \in DOMAIN ns /\ ns[r].depth < Depth
          /\ IsAbove(2 * ns[r].index + dir, ns[ns[r].child[dir]].index)
      BY <2>1, <3>1 DEF TreeOfNodes, LinksDown
    <3> QED
      BY <1>2, <2>1, <3>1, <3>2
  <2> QED
    BY <2>2, <2>3
<1>10. OneNodePerIndex(after)
  <2>1. ASSUME NEW r \in DOMAIN ns, NEW s \in DOMAIN ns, ns[r].index = ns[s].index PROVE r = s
    BY <2>1 DEF TreeOfNodes, OneNodePerIndex
  <2> QED
    BY <1>2, <1>5, <1>7, <2>1 DEF OneNodePerIndex
<1>11. AllBelow(after)
  <2> SUFFICES ASSUME NEW r \in DOMAIN after, NEW s \in DOMAIN after, NEW dir \in {0, 1},
                      after[r].depth < Depth, IsAbove(2 * after[r].index + dir, after[s].index)
               PROVE  /\ after[r].child[dir] # NoRef
                      /\ IsAbove(after[after[r].child[dir]].index, after[s].index)
    BY DEF AllBelow
  <2>1. r \in DOMAIN ns /\ after[r].index = ns[r].index /\ ns[r].depth < Depth /\ r \in Inner(ns)
    BY <1>2, <1>5, DepthPositive DEF Inner
  <2>2. CASE r = R /\ dir = D
    <3>1. ASSUME s \in DOMAIN ns PROVE FALSE
      <4>1. after[s].index = ns[s].index
        BY <1>2, <3>1
      <4>2. IsAbove(2 * ns[R].index + D, ns[s].index)
        BY <2>1, <2>2, <4>1
      <4> QED
        BY <1>7, <3>1, <4>2
    <3>2. s = L
      BY <3>1
    <3> QED
      BY <1>3, <1>5, <1>6, <2>2, <3>2, AboveItself
  <2>3. CASE ~(r = R /\ dir = D)
    <3>1. after[r].child[dir] = ns[r].child[dir]
      BY <1>4, <2>1, <2>3
    <3>2. ns[r].child[dir] # NoRef => ns[r].child[dir] \in DOMAIN ns /\ ns[ns[r].child[dir]].index \in Indices
      BY <2>1, LinkFacts
    <3>3. CASE s \in DOMAIN ns
      <4>1. ns[r].child[dir] # NoRef /\ IsAbove(ns[ns[r].child[dir]].index, ns[s].index)
        BY <1>2, <2>1, <3>3 DEF TreeOfNodes, AllBelow
      <4> QED
        BY <1>2, <3>1, <3>2, <3>3, <4>1
    <3>4. CASE s = L
      <4>1. IsAbove(2 * ns[r].index + dir, leaf)
        BY <1>5, <2>1, <3>4
      <4>2. ns[r].child[dir] # NoRef /\ IsAbove(ns[ns[r].child[dir]].index, ns[R].index)
        BY <2>1, <2>3, <4>1, OtherSides
      <4>3. IsAbove(ns[R].index, leaf)
        BY EndFacts
      <4>4. IsAbove(ns[ns[r].child[dir]].index, leaf)
        BY <1>1, <3>2, <4>2, <4>3, AboveTransitive
      <4> QED
        BY <1>2, <1>5, <3>1, <3>2, <3>4, <4>2, <4>4
    <3> QED
      BY <3>3, <3>4
  <2> QED
    BY <2>2, <2>3
<1>12. InnerSplit(after)
  <2> SUFFICES ASSUME NEW r \in DOMAIN after, NEW dir \in {0, 1}, r # 1, after[r].depth # Depth
               PROVE  after[r].child[dir] # NoRef
    BY DEF InnerSplit
  <2>1. r \in DOMAIN ns /\ ns[r].depth # Depth
    BY <1>2, <1>5
  <2>2. ns[r].child[dir] # NoRef
    BY <2>1 DEF TreeOfNodes, InnerSplit
  <2> QED
    BY <1>3, <1>4, <1>6, <2>1, <2>2
<1> QED
  BY <1>8, <1>9, <1>10, <1>11, <1>12 DEF TreeOfNodes

\* An index on a link that has the leaf on its one side, and the child of the
\* link on the other.
Splits(ns, R, D, leaf, inter, x, y) ==
  /\ x \in {0, 1} /\ y \in {0, 1} /\ x # y
  /\ inter \in Indices /\ DepthOf(inter) < Depth
  /\ IsAbove(2 * ns[R].index + D, inter)
  /\ IsAbove(2 * inter + x, leaf) /\ IsAbove(2 * inter + y, ns[ns[R].child[D]].index)

SideOfLeaf(leaf, other) == IF LeafIsLeft(leaf, other) THEN 0 ELSE 1

LEMMA Siding ==
  ASSUME NEW leaf \in Indices, DepthOf(leaf) = Depth, NEW n \in Indices, ~IsAbove(n, leaf),
         NEW top \in Indices, IsAbove(top, leaf), IsAbove(top, n),
         NEW inter, inter = Intersection(Up(leaf, DepthOf(n)), n)
  PROVE  /\ inter \in Indices /\ DepthOf(inter) < Depth /\ IsAbove(top, inter)
         /\ IsAbove(2 * inter + SideOfLeaf(leaf, n), leaf)
         /\ IsAbove(2 * inter + (1 - SideOfLeaf(leaf, n)), n)
<1> DEFINE u == Up(leaf, DepthOf(n))
<1>1. /\ u \in Indices /\ DepthOf(u) = DepthOf(n) /\ IsAbove(u, leaf) /\ u # n
  BY LeafAndOther
<1>2. LeafIsLeft(leaf, n) <=> ~(u > n)
  BY DEF LeafIsLeft
<1> HIDE DEF u
<1>3. /\ inter \in Indices /\ IsAbove(inter, u) /\ IsAbove(inter, n)
      /\ \A z \in Indices : IsAbove(z, u) /\ IsAbove(z, n) => IsAbove(z, inter)
  BY <1>1, IntersectionIs DEF u
<1>4. IsAbove(top, u)
  <2>1. DepthOf(top) <= DepthOf(u)
    BY <1>1 DEF IsAbove
  <2> QED
    BY <1>1, <2>1, AboveChain
<1>5. IsAbove(top, inter)
  BY <1>3, <1>4
<1>6. \A z \in Indices : DepthOf(z) \in Nat
  BY IndexHasRow, DepthPositive
<1>7. inter # n /\ inter # u
  <2>1. DepthOf(n) <= DepthOf(u) /\ DepthOf(u) <= DepthOf(n)
    BY <1>1, <1>6
  <2>2. ASSUME inter = n PROVE FALSE
    BY <1>1, <1>3, <2>1, <2>2, AboveSameDepth
  <2>3. ASSUME inter = u PROVE FALSE
    BY <1>1, <1>3, <2>1, <2>3, AboveSameDepth
  <2> QED
    BY <2>2, <2>3
<1> PICK x \in {0, 1} : DepthOf(inter) < Depth /\ IsAbove(2 * inter + x, u)
  BY <1>1, <1>3, <1>7, BelowSide
<1> PICK y \in {0, 1} : IsAbove(2 * inter + y, n)
  BY <1>3, <1>7, BelowSide
<1>8. x # y
  <2>1. SUFFICES ASSUME x = y PROVE FALSE
    OBVIOUS
  <2>2. 2 * inter + x \in Indices
    BY <1>3, SidesOf
  <2>3. IsAbove(2 * inter + x, inter)
    BY <1>3, <2>1, <2>2
  <2>4. DepthOf(inter) < DepthOf(inter)
    BY <1>3, <2>3, SideAbove
  <2> QED
    BY <1>3, <1>6, <2>4
<1>9. inter \in Nat /\ u \in Nat /\ n \in Nat /\ 2 * inter + 0 = 2 * inter
  BY <1>1, <1>3, IndexHasRow
<1>10. SideOfLeaf(leaf, n) = x /\ 1 - SideOfLeaf(leaf, n) = y
  <2>1. CASE x = 0
    <3>1. y = 1
      BY <1>8, <2>1
    <3>2. IsAbove(2 * inter, u) /\ IsAbove(2 * inter + 1, n)
      BY <1>9, <2>1, <3>1
    <3>3. u < n
      BY <1>1, <1>3, <3>2, LeftBeforeRight
    <3> QED
      BY <1>2, <1>9, <2>1, <3>1, <3>3 DEF SideOfLeaf
  <2>2. CASE x = 1
    <3>1. y = 0
      BY <1>8, <2>2
    <3>2. IsAbove(2 * inter, n) /\ IsAbove(2 * inter + 1, u)
      BY <1>9, <2>2, <3>1
    <3>3. n < u
      BY <1>1, <1>3, <3>2, LeftBeforeRight
    <3> QED
      BY <1>2, <1>9, <2>2, <3>1, <3>3 DEF SideOfLeaf
  <2> QED
    BY <2>1, <2>2
<1>11. IsAbove(2 * inter + x, leaf)
  <2>1. 2 * inter + x \in Indices
    BY <1>3, SidesOf
  <2> QED
    BY <1>1, <2>1, AboveTransitive
<1> QED
  BY <1>3, <1>5, <1>10, <1>11

LEMMA SplitFacts ==
  ASSUME NEW ns, TreeOfNodes(ns), NEW R, NEW D, NEW leaf \in Indices, DepthOf(leaf) = Depth,
         EndsAt(ns, R, D, leaf), ns[R].child[D] # NoRef, NEW next, next = ns[ns[R].child[D]],
         ~IsAbove(next.index, leaf), NEW inter, inter = Intersection(Up(leaf, next.depth), next.index),
         NEW x, x = SideOfLeaf(leaf, next.index)
  PROVE  Splits(ns, R, D, leaf, inter, x, 1 - x)
<1>1. /\ R \in DOMAIN ns /\ ns[R].index \in Indices /\ D \in {0, 1}
      /\ 2 * ns[R].index + D \in Indices /\ IsAbove(2 * ns[R].index + D, leaf)
  BY EndFacts
<1>2. ns[R].child[D] \in DOMAIN ns /\ IsAbove(2 * ns[R].index + D, next.index)
  BY <1>1, LinkFacts
<1>3. next.index \in Indices /\ next.depth = DepthOf(next.index)
  BY <1>2, NodeFacts DEF TreeOfNodes
<1>4. /\ inter \in Indices /\ DepthOf(inter) < Depth /\ IsAbove(2 * ns[R].index + D, inter)
      /\ IsAbove(2 * inter + x, leaf) /\ IsAbove(2 * inter + (1 - x), next.index)
  BY <1>1, <1>2, <1>3, Siding
<1>5. x \in {0, 1} /\ 1 - x \in {0, 1} /\ x # 1 - x
  BY DEF SideOfLeaf
<1> QED
  BY <1>4, <1>5 DEF Splits

LEMMA SplitNew ==
  ASSUME NEW ns, TreeOfNodes(ns), NEW R, NEW D, NEW leaf \in Indices, EndsAt(ns, R, D, leaf),
         ns[R].child[D] # NoRef, NEW inter, NEW x, NEW y, Splits(ns, R, D, leaf, inter, x, y),
         NEW s \in DOMAIN ns
  PROVE  /\ ns[s].index # inter /\ ns[s].index # leaf
         /\ ~IsAbove(2 * inter + x, ns[s].index)
         /\ IsAbove(2 * inter + y, ns[s].index) => IsAbove(ns[ns[R].child[D]].index, ns[s].index)
<1> DEFINE n == ns[ns[R].child[D]].index
           i == ns[s].index
           top == 2 * ns[R].index + D
<1>1. R \in DOMAIN ns /\ ns[R].depth < Depth /\ D \in {0, 1} /\ top \in Indices
  BY EndFacts
<1>2. n \in Indices
  BY <1>1, LinkFacts
<1>3. i \in Indices
  BY NodeFacts DEF TreeOfNodes
<1>4. IsAbove(top, i) => IsAbove(n, i)
  BY <1>1 DEF TreeOfNodes, AllBelow
<1>5. /\ x \in {0, 1} /\ y \in {0, 1} /\ x # y /\ inter \in Indices /\ DepthOf(inter) < Depth
      /\ IsAbove(top, inter) /\ IsAbove(2 * inter + x, leaf) /\ IsAbove(2 * inter + y, n)
  BY DEF Splits
<1> HIDE DEF n, i, top
<1>6. 2 * inter + x \in Indices /\ 2 * inter + y \in Indices
  BY <1>5, SidesOf
<1>7. ASSUME IsAbove(inter, i) PROVE IsAbove(n, i) /\ IsAbove(2 * inter + y, i)
  <2>1. IsAbove(n, i)
    BY <1>1, <1>3, <1>4, <1>5, <1>7, AboveTransitive
  <2> QED
    BY <1>2, <1>3, <1>5, <1>6, <2>1, AboveTransitive
<1>8. ~IsAbove(2 * inter + x, i)
  <2>1. SUFFICES ASSUME IsAbove(2 * inter + x, i) PROVE FALSE
    OBVIOUS
  <2>2. IsAbove(2 * inter + y, i)
    BY <1>3, <1>5, <1>7, <2>1, SideAbove
  <2> QED
    BY <1>3, <1>5, <2>1, <2>2, OneSide
<1>9. i # inter
  <2>1. SUFFICES ASSUME i = inter PROVE FALSE
    OBVIOUS
  <2>2. IsAbove(2 * inter + y, inter)
    BY <1>5, <1>7, <2>1, AboveItself
  <2>3. DepthOf(inter) < DepthOf(inter) /\ DepthOf(inter) \in Nat
    BY <1>5, <2>2, SideAbove, IndexHasRow, DepthPositive
  <2> QED
    BY <2>3
<1>10. i # leaf
  BY <1>5, <1>8
<1>11. IsAbove(2 * inter + y, i) => IsAbove(n, i)
  BY <1>3, <1>5, <1>7, SideAbove
<1> QED
  BY <1>8, <1>9, <1>10, <1>11 DEF n, i

LEMMA BranchTree ==
  ASSUME NEW ns, TreeOfNodes(ns), NEW R, NEW D, NEW leaf \in Indices, DepthOf(leaf) = Depth,
         EndsAt(ns, R, D, leaf), ns[R].child[D] # NoRef,
         NEW inter, NEW x, NEW y, Splits(ns, R, D, leaf, inter, x, y),
         NEW after \in NodeSeq, NEW L \in Nat, L \notin DOMAIN ns, NEW M \in Nat, M \notin DOMAIN ns, L # M,
         DOMAIN after = DOMAIN ns \cup {L, M}, Relinked(ns, after, R, D, M),
         IsNode(after, L, leaf, Depth, NoRef, NoRef),
         after[M].index = inter, after[M].depth = DepthOf(inter),
         after[M].child[x] = L, after[M].child[y] = ns[R].child[D]
  PROVE  TreeOfNodes(after)
<1> PICK old, n, top : old = ns[R].child[D] /\ n = ns[old].index /\ top = 2 * ns[R].index + D
  OBVIOUS
<1>1. R \in DOMAIN ns /\ ns[R].index \in Indices /\ ns[R].depth < Depth /\ D \in {0, 1}
      /\ top \in Indices /\ IsAbove(top, leaf) /\ IsAbove(ns[R].index, leaf)
      /\ DepthOf(ns[R].index) = ns[R].depth
  BY EndFacts
<1>2. \A r \in DOMAIN ns : /\ after[r].index = ns[r].index /\ after[r].depth = ns[r].depth
                           /\ r \in DOMAIN after /\ r # L /\ r # M
  BY DEF Relinked
<1>3. after[R].child[D] = M
  BY DEF Relinked
<1>4. \A r \in DOMAIN ns, dir \in {0, 1} : (r = R /\ dir = D) \/ after[r].child[dir] = ns[r].child[dir]
  BY DEF Relinked
<1>5. /\ L \in DOMAIN after /\ after[L].index = leaf /\ after[L].depth = Depth
      /\ \A dir \in {0, 1} : after[L].child[dir] = NoRef
  BY DEF IsNode
<1>6. L # NoRef /\ M # NoRef /\ M \in DOMAIN after
  BY NoRefIsNone
<1>7. old \in DOMAIN ns /\ n \in Indices /\ old # NoRef
  BY <1>1, LinkFacts
<1>8. /\ x \in {0, 1} /\ y \in {0, 1} /\ x # y /\ inter \in Indices /\ DepthOf(inter) < Depth
      /\ IsAbove(top, inter) /\ IsAbove(2 * inter + x, leaf) /\ IsAbove(2 * inter + y, n)
  BY DEF Splits
<1>9. \A s \in DOMAIN ns : /\ ns[s].index # inter /\ ns[s].index # leaf
                           /\ ~IsAbove(2 * inter + x, ns[s].index)
                           /\ IsAbove(2 * inter + y, ns[s].index) => IsAbove(n, ns[s].index)
  BY SplitNew
<1>10. \A dir \in {0, 1} : dir = x \/ dir = y
  BY <1>8
<1>11. inter # leaf /\ DepthOf(inter) # Depth
  BY <1>8, IndexHasRow, DepthPositive
<1>12. IsAbove(inter, leaf) /\ IsAbove(inter, n)
  BY <1>7, <1>8, SideAbove
<1>13. after[M].child[x] = L /\ after[M].child[y] = old /\ after[M].index = inter
       /\ after[M].depth = DepthOf(inter) /\ after[old].index = n
  BY <1>2, <1>7
<1>14. \A r \in DOMAIN ns, dir \in {0, 1} : ns[r].child[dir] # NoRef =>
         /\ ns[r].child[dir] \in DOMAIN ns /\ ns[r].depth < Depth
         /\ IsAbove(2 * ns[r].index + dir, ns[ns[r].child[dir]].index)
         /\ ns[ns[r].child[dir]].index \in Indices
  BY LinkFacts
<1>20. NodesTyped(after)
  <2>1. 1 \in DOMAIN after /\ after[1].index = 1
    BY <1>2 DEF TreeOfNodes, NodesTyped
  <2>2. \A r \in DOMAIN ns : ns[r].depth = DepthOf(ns[r].index)
    BY DEF TreeOfNodes, NodesTyped
  <2>3. \A r \in DOMAIN after : after[r].depth = DepthOf(after[r].index)
    BY <1>2, <1>5, <1>13, <2>2
  <2> QED
    BY <2>1, <2>3 DEF NodesTyped
<1>21. LinksDown(after)
  <2> SUFFICES ASSUME NEW r \in DOMAIN after, NEW dir \in {0, 1}, after[r].child[dir] # NoRef
               PROVE  /\ after[r].child[dir] \in DOMAIN after /\ after[r].depth < Depth
                      /\ IsAbove(2 * after[r].index + dir, after[after[r].child[dir]].index)
    BY DEF LinksDown
  <2>1. CASE r = M
    <3>1. CASE dir = x
      BY <1>5, <1>8, <1>13, <2>1, <3>1
    <3>2. CASE dir = y
      BY <1>2, <1>7, <1>8, <1>13, <2>1, <3>2
    <3> QED
      BY <1>10, <3>1, <3>2
  <2>2. CASE r # M
    <3>1. r \in DOMAIN ns
      BY <1>5, <2>2
    <3>2. CASE r = R /\ dir = D
      BY <1>1, <1>2, <1>3, <1>6, <1>8, <1>13, <3>2
    <3>3. CASE ~(r = R /\ dir = D)
      <4>1. after[r].child[dir] = ns[r].child[dir]
        BY <1>4, <3>1, <3>3
      <4> QED
        BY <1>2, <1>14, <3>1, <4>1
    <3> QED
      BY <3>2, <3>3
  <2> QED
    BY <2>1, <2>2
<1>22. OneNodePerIndex(after)
  <2>1. ASSUME NEW r \in DOMAIN ns, NEW s \in DOMAIN ns, ns[r].index = ns[s].index PROVE r = s
    BY <2>1 DEF TreeOfNodes, OneNodePerIndex
  <2> QED
    BY <1>2, <1>5, <1>9, <1>11, <1>13, <2>1 DEF OneNodePerIndex
<1>23. AllBelow(after)
  <2> SUFFICES ASSUME NEW r \in DOMAIN after, NEW s \in DOMAIN after, NEW dir \in {0, 1},
                      after[r].depth < Depth, IsAbove(2 * after[r].index + dir, after[s].index)
               PROVE  /\ after[r].child[dir] # NoRef
                      /\ IsAbove(after[after[r].child[dir]].index, after[s].index)
    BY DEF AllBelow
  <2>1. r # L /\ (r = M \/ r \in DOMAIN ns) /\ (s = L \/ s = M \/ s \in DOMAIN ns)
    BY <1>5, DepthPositive
  <2>2. CASE r = M
    <3>1. IsAbove(2 * inter + dir, after[s].index)
      BY <1>13, <2>2
    <3>2. CASE s = L
      <4>1. dir = x
        BY <1>5, <1>8, <3>1, <3>2, OneSide
      <4> QED
        BY <1>5, <1>6, <1>13, <2>2, <3>2, <4>1, AboveItself
    <3>3. CASE s = M
      <4>1. DepthOf(inter) < DepthOf(inter) /\ DepthOf(inter) \in Nat
        BY <1>8, <1>13, <3>1, <3>3, SideAbove, IndexHasRow, DepthPositive
      <4> QED
        BY <4>1
    <3>4. CASE s \in DOMAIN ns
      <4>1. after[s].index = ns[s].index
        BY <1>2, <3>4
      <4>2. dir = y
        BY <1>9, <1>10, <3>1, <3>4, <4>1
      <4>3. IsAbove(n, ns[s].index)
        BY <1>9, <3>1, <3>4, <4>1, <4>2
      <4> QED
        BY <1>7, <1>13, <2>2, <4>1, <4>2, <4>3
    <3> QED
      BY <2>1, <3>2, <3>3, <3>4
  <2>3. CASE r \in DOMAIN ns /\ r = R /\ dir = D
    <3>1. IsAbove(top, after[s].index) /\ after[r].child[dir] = M /\ after[M].index = inter
      BY <1>2, <1>3, <1>13, <2>3
    <3>2. CASE s = L
      BY <1>5, <1>6, <1>12, <3>1, <3>2
    <3>3. CASE s = M
      <4>1. IsAbove(inter, inter)
        BY <1>8, AboveItself
      <4>2. after[s].index = inter
        BY <1>13, <3>3
      <4> QED
        BY <1>6, <3>1, <4>1, <4>2
    <3>4. CASE s \in DOMAIN ns
      <4>1. after[s].index = ns[s].index /\ ns[s].index \in Indices
        BY <1>2, <3>4, NodeFacts DEF TreeOfNodes
      <4>2. IsAbove(n, ns[s].index)
        BY <1>1, <3>1, <3>4, <4>1 DEF TreeOfNodes, AllBelow
      <4>3. IsAbove(inter, ns[s].index)
        BY <1>7, <1>8, <1>12, <4>1, <4>2, AboveTransitive
      <4> QED
        BY <1>6, <3>1, <4>1, <4>3
    <3> QED
      BY <2>1, <3>2, <3>3, <3>4
  <2>4. CASE r \in DOMAIN ns /\ ~(r = R /\ dir = D)
    <3>1. after[r].child[dir] = ns[r].child[dir] /\ ns[r].depth < Depth /\ ns[r].index = after[r].index
      BY <1>2, <1>4, <2>4
    <3>2. ns[r].index \in Indices /\ DepthOf(ns[r].index) = ns[r].depth
      BY <2>4, NodeFacts DEF TreeOfNodes
    <3>3. 2 * ns[r].index + dir \in Indices
      BY <3>1, <3>2, SidesOf
    <3>4. CASE s \in DOMAIN ns
      <4>1. IsAbove(2 * ns[r].index + dir, ns[s].index)
        BY <1>2, <3>1, <3>4
      <4>2. ns[r].child[dir] # NoRef /\ IsAbove(ns[ns[r].child[dir]].index, ns[s].index)
        BY <2>4, <3>1, <3>4, <4>1 DEF TreeOfNodes, AllBelow
      <4> QED
        BY <1>2, <1>14, <2>4, <3>1, <3>4, <4>2
    <3>5. CASE s = L \/ s = M
      <4>1. after[s].index \in Indices /\ IsAbove(after[s].index, leaf)
        BY <1>5, <1>8, <1>12, <1>13, <3>5, AboveItself
      <4>2. IsAbove(2 * ns[r].index + dir, leaf)
        BY <3>1, <3>3, <4>1, AboveTransitive
      <4>3. r \in Inner(ns)
        BY <2>4, <3>1 DEF Inner
      <4>4. ns[r].child[dir] # NoRef /\ IsAbove(ns[ns[r].child[dir]].index, ns[R].index)
        BY <2>4, <4>2, <4>3, OtherSides
      <4>5. IsAbove(ns[R].index, after[s].index)
        <5>1. CASE s = L
          BY <1>1, <1>5, <5>1
        <5>2. CASE s = M
          <6>1. IsAbove(2 * ns[R].index + D, inter) /\ DepthOf(ns[R].index) < Depth
            BY <1>1, <1>8
          <6>2. IsAbove(ns[R].index, inter)
            BY <1>1, <1>8, <6>1, SideAbove
          <6> QED
            BY <1>13, <5>2, <6>2
        <5> QED
          BY <3>5, <5>1, <5>2
      <4>6. ns[r].child[dir] \in DOMAIN ns /\ ns[ns[r].child[dir]].index \in Indices
        BY <1>14, <2>4, <4>4
      <4>7. IsAbove(ns[ns[r].child[dir]].index, after[s].index)
        BY <1>1, <4>1, <4>4, <4>5, <4>6, AboveTransitive
      <4> QED
        BY <1>2, <3>1, <4>4, <4>6, <4>7
    <3> QED
      BY <2>1, <3>4, <3>5
  <2> QED
    BY <2>1, <2>2, <2>3, <2>4
<1>24. InnerSplit(after)
  <2> SUFFICES ASSUME NEW r \in DOMAIN after, NEW dir \in {0, 1}, r # 1, after[r].depth # Depth
               PROVE  after[r].child[dir] # NoRef
    BY DEF InnerSplit
  <2>1. CASE r = M
    BY <1>6, <1>7, <1>10, <1>13, <2>1
  <2>2. CASE r \in DOMAIN ns
    <3>1. ns[r].child[dir] # NoRef
      BY <1>2, <2>2 DEF TreeOfNodes, InnerSplit
    <3> QED
      BY <1>3, <1>4, <1>6, <2>2, <3>1
  <2> QED
    BY <1>5, <2>1, <2>2
<1> QED
  BY <1>20, <1>21, <1>22, <1>23, <1>24 DEF TreeOfNodes

\* What an insert makes of the nodes.
WithFreeLink(ns, after, R, D, leaf, L) ==
  /\ ns[R].child[D] = NoRef
  /\ after \in NodeSeq /\ L \in Nat /\ L \notin DOMAIN ns /\ DOMAIN after = DOMAIN ns \cup {L}
  /\ Relinked(ns, after, R, D, L) /\ IsNode(after, L, leaf, Depth, NoRef, NoRef)

WithBranch(ns, after, R, D, leaf, L, M, inter, x, y) ==
  /\ ns[R].child[D] # NoRef /\ ~IsAbove(ns[ns[R].child[D]].index, leaf)
  /\ after \in NodeSeq /\ L \in Nat /\ L \notin DOMAIN ns /\ M \in Nat /\ M \notin DOMAIN ns /\ L # M
  /\ DOMAIN after = DOMAIN ns \cup {L, M}
  /\ Relinked(ns, after, R, D, M) /\ IsNode(after, L, leaf, Depth, NoRef, NoRef)
  /\ Splits(ns, R, D, leaf, inter, x, y)
  /\ after[M].index = inter /\ after[M].depth = DepthOf(inter)
  /\ after[M].child[x] = L /\ after[M].child[y] = ns[R].child[D]

Inserted(ns, after, R, D, leaf) ==
  /\ EndsAt(ns, R, D, leaf)
  /\ \/ after = ns /\ ns[R].child[D] # NoRef /\ ns[ns[R].child[D]].index = leaf
     \/ \E L : WithFreeLink(ns, after, R, D, leaf, L)
     \/ \E L, M, inter, x, y : WithBranch(ns, after, R, D, leaf, L, M, inter, x, y)

LEMMA WalkEndsAt ==
  ASSUME NEW w, NEW r, NEW leaf, WalkEnd(w, r, leaf)
  PROVE  EndsAt(nodes, w.ref, w.dir, leaf)
BY DEF WalkEnd, EndsAt

SplitNode(leaf, other, inter, L, old) ==
  IF LeafIsLeft(leaf, other) THEN Node(inter, DepthOf(inter), L, old) ELSE Node(inter, DepthOf(inter), old, L)

IsSplit(node, leaf, other, inter, L, old) ==
  /\ node \in NodeRecords /\ node.index = inter /\ node.depth = DepthOf(inter)
  /\ node.child[SideOfLeaf(leaf, other)] = L /\ node.child[1 - SideOfLeaf(leaf, other)] = old

LEMMA SplitNodeIs ==
  ASSUME NEW leaf, NEW other, NEW inter \in Indices, NEW L \in Nat, NEW old \in Nat \cup {NoRef}
  PROVE  IsSplit(SplitNode(leaf, other, inter, L, old), leaf, other, inter, L, old)
<1>1. DepthOf(inter) \in 0 .. Depth /\ L \in Nat \cup {NoRef}
  BY IndexHasRow
<1>2. CASE LeafIsLeft(leaf, other)
  <2>1. SideOfLeaf(leaf, other) = 0 /\ 1 - SideOfLeaf(leaf, other) = 1
    BY <1>2 DEF SideOfLeaf
  <2>2. SplitNode(leaf, other, inter, L, old) = Node(inter, DepthOf(inter), L, old)
    BY <1>2 DEF SplitNode
  <2> QED
    BY <1>1, <2>1, <2>2, NodeIs DEF IsSplit
<1>3. CASE ~LeafIsLeft(leaf, other)
  <2>1. SideOfLeaf(leaf, other) = 1 /\ 1 - SideOfLeaf(leaf, other) = 0
    BY <1>3 DEF SideOfLeaf
  <2>2. SplitNode(leaf, other, inter, L, old) = Node(inter, DepthOf(inter), old, L)
    BY <1>3 DEF SplitNode
  <2> QED
    BY <1>1, <2>1, <2>2, NodeIs DEF IsSplit
<1> QED
  BY <1>2, <1>3

SplitOf(leaf, R, D) ==
  LET old   == nodes[R].child[D]
      next  == nodes[old]
      inter == Intersection(Up(leaf, next.depth), next.index)
  IN  SplitNode(leaf, next.index, inter, Len(nodes) + 1, old)

LEMMA NodesWithIs ==
  ASSUME NEW walk, NEW leaf
  PROVE  /\ walk.how = "leaf" => NodesWith(leaf, walk) = nodes
         /\ walk.how = "free link" => NodesWith(leaf, walk) = OnFreeLink(nodes, walk.ref, walk.dir, leaf)
         /\ walk.how = "other branch" =>
              NodesWith(leaf, walk)
              = OnBranch(nodes, walk.ref, walk.dir, leaf, SplitOf(leaf, walk.ref, walk.dir))
<1>1. ASSUME walk.how = "leaf" PROVE NodesWith(leaf, walk) = nodes
  BY <1>1 DEF NodesWith
<1>2. ASSUME walk.how = "free link" PROVE NodesWith(leaf, walk) = OnFreeLink(nodes, walk.ref, walk.dir, leaf)
  BY <1>2 DEF NodesWith, OnFreeLink, Relink, Grown
<1>3. ASSUME walk.how = "other branch"
      PROVE  NodesWith(leaf, walk)
             = OnBranch(nodes, walk.ref, walk.dir, leaf, SplitOf(leaf, walk.ref, walk.dir))
  BY <1>3 DEF NodesWith, OnBranch, Relink, Grown, SplitNode, SplitOf
<1> QED
  BY <1>1, <1>2, <1>3

LEMMA BranchInserted ==
  ASSUME TreeOfNodes(nodes), NEW R, NEW D, NEW leaf \in Indices, DepthOf(leaf) = Depth,
         EndsAt(nodes, R, D, leaf), nodes[R].child[D] # NoRef,
         ~IsAbove(nodes[nodes[R].child[D]].index, leaf)
  PROVE  Inserted(nodes, OnBranch(nodes, R, D, leaf, SplitOf(leaf, R, D)), R, D, leaf)
<1> DEFINE old == nodes[R].child[D]
           other == nodes[old].index
           inter == Intersection(Up(leaf, nodes[old].depth), other)
           x == SideOfLeaf(leaf, other)
           L == Len(nodes) + 1
           split == SplitNode(leaf, other, inter, L, old)
           after == OnBranch(nodes, R, D, leaf, split)
<1>1. R \in DOMAIN nodes /\ D \in {0, 1} /\ nodes \in NodeSeq
  BY EndFacts DEF TreeOfNodes, NodesTyped
<1>2. SplitOf(leaf, R, D) = split
  BY DEF SplitOf
<1>3. Splits(nodes, R, D, leaf, inter, x, 1 - x)
  BY SplitFacts
<1>4. inter \in Indices
  BY <1>3 DEF Splits
<1>5. old \in Nat \cup {NoRef}
  BY <1>1, NodeFacts DEF TreeOfNodes
<1>6. L \in Nat
  BY <1>1 DEF NodeSeq
<1>7. old = nodes[R].child[D] /\ ~IsAbove(other, leaf) /\ other = nodes[old].index
  OBVIOUS
<1> HIDE DEF inter, old, other
<1>8. IsSplit(split, leaf, other, inter, L, old)
  BY <1>4, <1>5, <1>6, SplitNodeIs
<1> HIDE DEF split
<1>9. /\ split \in NodeRecords /\ split.index = inter /\ split.depth = DepthOf(inter)
      /\ split.child[x] = L /\ split.child[1 - x] = old
  BY <1>8 DEF IsSplit
<1>10. \E M : Branched(nodes, after, R, D, leaf, split, L, M)
  BY <1>1, <1>9, BranchShape
<1>15. after = OnBranch(nodes, R, D, leaf, split)
  OBVIOUS
<1> HIDE DEF after, L, x
<1> PICK M : Branched(nodes, after, R, D, leaf, split, L, M)
  BY <1>10
<1>11. /\ after \in NodeSeq
       /\ L \in Nat /\ L \notin DOMAIN nodes /\ M \in Nat /\ M \notin DOMAIN nodes /\ M # L
       /\ DOMAIN after = DOMAIN nodes \cup {L, M}
       /\ Relinked(nodes, after, R, D, M)
       /\ IsNode(after, L, leaf, Depth, NoRef, NoRef)
       /\ after[M] = split
  BY DEF Branched
<1>12. /\ nodes[R].child[D] # NoRef /\ ~IsAbove(nodes[nodes[R].child[D]].index, leaf)
       /\ after[M].index = inter /\ after[M].depth = DepthOf(inter)
       /\ after[M].child[x] = L /\ after[M].child[1 - x] = nodes[R].child[D]
  BY <1>7, <1>9, <1>11
<1>13. WithBranch(nodes, after, R, D, leaf, L, M, inter, x, 1 - x)
  BY <1>3, <1>11, <1>12 DEF WithBranch
<1>14. Inserted(nodes, after, R, D, leaf)
  BY <1>13 DEF Inserted
<1> QED
  BY <1>2, <1>14, <1>15

LEMMA NodesInserted ==
  ASSUME TreeOfNodes(nodes), NEW walk, NEW leaf \in Indices, DepthOf(leaf) = Depth, WalkEnd(walk, 1, leaf)
  PROVE  Inserted(nodes, NodesWith(leaf, walk), walk.ref, walk.dir, leaf)
<1> DEFINE link == nodes[walk.ref].child[walk.dir]
           after == NodesWith(leaf, walk)
<1>1. EndsAt(nodes, walk.ref, walk.dir, leaf)
  BY WalkEndsAt
<1>2. walk.ref \in DOMAIN nodes /\ walk.dir \in {0, 1} /\ nodes \in NodeSeq
  BY <1>1, EndFacts DEF TreeOfNodes, NodesTyped
<1>3. \/ walk.how = "free link" /\ link = NoRef
      \/ walk.how = "leaf" /\ link # NoRef /\ nodes[link].index = leaf
      \/ walk.how = "other branch" /\ link # NoRef /\ ~IsAbove(nodes[link].index, leaf)
  BY DEF WalkEnd
<1>4. CASE walk.how = "leaf"
  <2>1. after = nodes
    BY <1>4, NodesWithIs
  <2> QED
    BY <1>1, <1>3, <1>4, <2>1 DEF Inserted
<1>5. CASE walk.how = "free link"
  <2>1. after = OnFreeLink(nodes, walk.ref, walk.dir, leaf)
    BY <1>5, NodesWithIs
  <2> HIDE DEF after
  <2>2. \E L \in Nat : /\ after \in NodeSeq /\ L \notin DOMAIN nodes /\ DOMAIN after = DOMAIN nodes \cup {L}
                       /\ Relinked(nodes, after, walk.ref, walk.dir, L) /\ IsNode(after, L, leaf, Depth, NoRef, NoRef)
    BY <1>2, <2>1, FreeLinkShape
  <2>3. \E L : WithFreeLink(nodes, after, walk.ref, walk.dir, leaf, L)
    BY <1>3, <1>5, <2>2 DEF WithFreeLink
  <2>4. Inserted(nodes, after, walk.ref, walk.dir, leaf)
    BY <1>1, <2>3 DEF Inserted
  <2> QED
    BY <2>4 DEF after
<1>6. CASE walk.how = "other branch"
  <2>1. after = OnBranch(nodes, walk.ref, walk.dir, leaf, SplitOf(leaf, walk.ref, walk.dir))
    BY <1>6, NodesWithIs
  <2>2. link # NoRef /\ ~IsAbove(nodes[link].index, leaf)
    BY <1>3, <1>6
  <2> QED
    BY <1>1, <2>1, <2>2, BranchInserted
<1> QED
  BY <1>3, <1>4, <1>5, <1>6

LEMMA InsertedTree ==
  ASSUME NEW ns, TreeOfNodes(ns), NEW after, NEW R, NEW D, NEW leaf \in Indices, DepthOf(leaf) = Depth,
         Inserted(ns, after, R, D, leaf)
  PROVE  TreeOfNodes(after)
<1>1. EndsAt(ns, R, D, leaf)
  BY DEF Inserted
<1>2. CASE after = ns
  BY <1>2
<1>3. ASSUME NEW L, WithFreeLink(ns, after, R, D, leaf, L) PROVE TreeOfNodes(after)
  <2>1. /\ ns[R].child[D] = NoRef
        /\ after \in NodeSeq /\ L \in Nat /\ L \notin DOMAIN ns /\ DOMAIN after = DOMAIN ns \cup {L}
        /\ Relinked(ns, after, R, D, L) /\ IsNode(after, L, leaf, Depth, NoRef, NoRef)
    BY <1>3 DEF WithFreeLink
  <2> QED
    BY <1>1, <2>1, FreeLinkTree
<1>4. ASSUME NEW L, NEW M, NEW inter, NEW x, NEW y, WithBranch(ns, after, R, D, leaf, L, M, inter, x, y)
      PROVE  TreeOfNodes(after)
  <2>1. /\ ns[R].child[D] # NoRef
        /\ after \in NodeSeq /\ L \in Nat /\ L \notin DOMAIN ns /\ M \in Nat /\ M \notin DOMAIN ns /\ L # M
        /\ DOMAIN after = DOMAIN ns \cup {L, M}
        /\ Relinked(ns, after, R, D, M) /\ IsNode(after, L, leaf, Depth, NoRef, NoRef)
        /\ Splits(ns, R, D, leaf, inter, x, y)
        /\ after[M].index = inter /\ after[M].depth = DepthOf(inter)
        /\ after[M].child[x] = L /\ after[M].child[y] = ns[R].child[D]
    BY <1>4 DEF WithBranch
  <2> QED
    BY <1>1, <2>1, BranchTree
<1> QED
  BY <1>2, <1>3, <1>4 DEF Inserted

\* The nodes that were there stay, and the others are above the leaf.
NodesKept(ns, after, leaf) ==
  /\ \A r \in DOMAIN ns : r \in DOMAIN after /\ after[r].index = ns[r].index /\ after[r].depth = ns[r].depth
  /\ \A r \in DOMAIN after : r \in DOMAIN ns \/ after[r].index = leaf \/ after[r].depth # Depth
  /\ \E r \in DOMAIN after : after[r].index = leaf

LEMMA InsertedNodes ==
  ASSUME NEW ns, TreeOfNodes(ns), NEW after, NEW R, NEW D, NEW leaf \in Indices, DepthOf(leaf) = Depth,
         Inserted(ns, after, R, D, leaf)
  PROVE  NodesKept(ns, after, leaf)
<1>1. EndsAt(ns, R, D, leaf)
  BY DEF Inserted
<1>2. CASE after = ns /\ ns[R].child[D] # NoRef /\ ns[ns[R].child[D]].index = leaf
  <2>1. ns[R].child[D] \in DOMAIN ns
    BY <1>1, <1>2, EndFacts, LinkFacts
  <2> QED
    BY <1>2, <2>1 DEF NodesKept
<1>3. ASSUME NEW L, WithFreeLink(ns, after, R, D, leaf, L) PROVE NodesKept(ns, after, leaf)
  <2>1. /\ DOMAIN after = DOMAIN ns \cup {L} /\ after[L].index = leaf
        /\ \A r \in DOMAIN ns : after[r].index = ns[r].index /\ after[r].depth = ns[r].depth
    BY <1>3 DEF WithFreeLink, Relinked, IsNode
  <2> QED
    BY <2>1 DEF NodesKept
<1>4. ASSUME NEW L, NEW M, NEW inter, NEW x, NEW y, WithBranch(ns, after, R, D, leaf, L, M, inter, x, y)
      PROVE  NodesKept(ns, after, leaf)
  <2>1. /\ DOMAIN after = DOMAIN ns \cup {L, M} /\ after[L].index = leaf /\ after[M].depth = DepthOf(inter)
        /\ \A r \in DOMAIN ns : after[r].index = ns[r].index /\ after[r].depth = ns[r].depth
    BY <1>4 DEF WithBranch, Relinked, IsNode
  <2>2. inter \in Indices /\ DepthOf(inter) < Depth
    BY <1>4 DEF WithBranch, Splits
  <2>3. DepthOf(inter) # Depth
    BY <2>2, IndexHasRow, DepthPositive
  <2> QED
    BY <2>1, <2>3 DEF NodesKept
<1> QED
  BY <1>2, <1>3, <1>4 DEF Inserted

LEMMA InsertedLeaves ==
  ASSUME NEW ns, NEW after, NEW k \in Index, NEW map, NEW map2, LeavesWritten(ns, map),
         NodesKept(ns, after, LeafIndex(k)), DOMAIN map2 = DOMAIN map \cup {k}
  PROVE  LeavesWritten(after, map2)
<1>1. LeafIndex(k) - 2^Depth = k
  BY IndexLeaf, LeafIndices
<1>2. DOMAIN map2 \subseteq Index
  BY DEF LeavesWritten
<1>3. ASSUME NEW r \in DOMAIN after, after[r].depth = Depth PROVE after[r].index - 2^Depth \in DOMAIN map2
  <2>1. CASE r \in DOMAIN ns
    <3>1. ns[r].index - 2^Depth \in DOMAIN map
      BY <1>3, <2>1 DEF NodesKept, LeavesWritten
    <3>2. after[r].index = ns[r].index
      BY <2>1 DEF NodesKept
    <3> QED
      BY <3>1, <3>2
  <2>2. CASE after[r].index = LeafIndex(k)
    BY <1>1, <2>2
  <2> QED
    BY <1>3, <2>1, <2>2 DEF NodesKept
<1>4. ASSUME NEW i \in DOMAIN map2 PROVE \E r \in DOMAIN after : after[r].index = LeafIndex(i)
  <2>1. CASE i \in DOMAIN map
    <3>1. \E r \in DOMAIN ns : ns[r].index = LeafIndex(i)
      BY <2>1 DEF LeavesWritten
    <3> QED
      BY <3>1 DEF NodesKept
  <2>2. CASE i = k
    BY <2>2 DEF NodesKept
  <2> QED
    BY <2>1, <2>2
<1> QED
  BY <1>2, <1>3, <1>4 DEF LeavesWritten

LEMMA InsertedCached ==
  ASSUME NEW ns, NEW after, NEW leaf, NodesKept(ns, after, leaf),
         NEW kept, NEW kept2 \in SUBSET kept, CachedOnLinks(ns, kept)
  PROVE  CachedOnLinks(after, kept2)
BY DEF NodesKept, CachedOnLinks

\* A link that an insert leaves alone.
LEMMA LinkLeftAlone ==
  ASSUME NEW ns, TreeOfNodes(ns), NEW R, NEW D, NEW leaf \in Indices, DepthOf(leaf) = Depth,
         EndsAt(ns, R, D, leaf), NEW kept, WholeLinks(ns, kept),
         NEW r \in DOMAIN ns, NEW dir \in {0, 1}, ns[r].child[dir] # NoRef,
         ~(r = R /\ dir = D) \/ IsAbove(ns[ns[r].child[dir]].index, leaf),
         NEW x \in Indices, OnLink(ns, r, dir, x)
  PROVE  /\ x \in kept <=> ns[ns[r].child[dir]].index \in kept
         /\ IsAbove(x, leaf) <=> IsAbove(ns[ns[r].child[dir]].index, leaf)
<1> DEFINE c == ns[ns[r].child[dir]].index
           side == 2 * ns[r].index + dir
<1>1. x \in kept <=> c \in kept
  BY DEF WholeLinks
<1>2. ns[r].depth < Depth /\ c \in Indices /\ ns[r].index \in Indices /\ DepthOf(ns[r].index) = ns[r].depth
  BY LinkFacts, NodeFacts DEF TreeOfNodes
<1>3. IsAbove(side, x) /\ IsAbove(x, c) /\ side \in Indices
  BY <1>2, SidesOf DEF OnLink
<1>4. IsAbove(c, leaf) => IsAbove(x, leaf)
  BY <1>2, <1>3, AboveTransitive
<1>5. ASSUME IsAbove(x, leaf), ~(r = R /\ dir = D) PROVE IsAbove(c, leaf)
  <2>1. IsAbove(side, leaf)
    BY <1>3, <1>5, AboveTransitive
  <2>2. r \in Inner(ns)
    BY <1>2 DEF Inner
  <2>3. IsAbove(c, ns[R].index)
    BY <1>5, <2>1, <2>2, OtherSides
  <2>4. ns[R].index \in Indices /\ IsAbove(ns[R].index, leaf)
    BY EndFacts
  <2> QED
    BY <1>2, <2>3, <2>4, AboveTransitive
<1> QED
  BY <1>1, <1>4, <1>5

LEMMA InsertedWhole ==
  ASSUME NEW ns, TreeOfNodes(ns), NEW after, NEW R, NEW D, NEW leaf \in Indices, DepthOf(leaf) = Depth,
         Inserted(ns, after, R, D, leaf), NEW kept, WholeLinks(ns, kept),
         NEW kept2, kept2 = {x \in kept : ~IsAbove(x, leaf)}
  PROVE  WholeLinks(after, kept2)
<1>1. EndsAt(ns, R, D, leaf)
  BY DEF Inserted
<1>2. /\ R \in DOMAIN ns /\ ns[R].index \in Indices /\ ns[R].depth < Depth /\ D \in {0, 1}
      /\ 2 * ns[R].index + D \in Indices
  BY <1>1, EndFacts
<1>3. \A r \in DOMAIN ns, dir \in {0, 1} : ns[r].child[dir] # NoRef => ns[r].child[dir] \in DOMAIN ns
  BY LinkFacts
<1> SUFFICES ASSUME NEW r \in DOMAIN after, NEW dir \in {0, 1}, after[r].child[dir] # NoRef,
                    NEW x \in Indices, OnLink(after, r, dir, x)
             PROVE  x \in kept2 <=> after[after[r].child[dir]].index \in kept2
  BY DEF WholeLinks
<1> DEFINE c == after[after[r].child[dir]].index
<1>4. ASSUME r \in DOMAIN ns, ns[r].child[dir] # NoRef,
             ~(r = R /\ dir = D) \/ IsAbove(ns[ns[r].child[dir]].index, leaf),
             after[r].child[dir] = ns[r].child[dir], after[r].index = ns[r].index,
             after[ns[r].child[dir]].index = ns[ns[r].child[dir]].index
      PROVE  x \in kept2 <=> c \in kept2
  <2>1. OnLink(ns, r, dir, x)
    BY <1>4 DEF OnLink
  <2>2. /\ x \in kept <=> ns[ns[r].child[dir]].index \in kept
        /\ IsAbove(x, leaf) <=> IsAbove(ns[ns[r].child[dir]].index, leaf)
    BY <1>1, <1>4, <2>1, LinkLeftAlone
  <2> QED
    BY <1>4, <2>2
<1>5. ASSUME c \in Indices, IsAbove(c, leaf) PROVE x \in kept2 <=> c \in kept2
  <2>1. IsAbove(x, leaf)
    BY <1>5, AboveTransitive DEF OnLink
  <2> QED
    BY <1>5, <2>1
<1>6. CASE after = ns /\ ns[R].child[D] # NoRef /\ ns[ns[R].child[D]].index = leaf
  <2>1. IsAbove(leaf, leaf)
    BY AboveItself
  <2>2. ~(r = R /\ dir = D) \/ IsAbove(ns[ns[r].child[dir]].index, leaf)
    BY <1>6, <2>1
  <2> QED
    BY <1>4, <1>6, <2>2
<1>7. ASSUME NEW L, WithFreeLink(ns, after, R, D, leaf, L) PROVE x \in kept2 <=> c \in kept2
  <2>1. /\ DOMAIN after = DOMAIN ns \cup {L} /\ Relinked(ns, after, R, D, L)
        /\ IsNode(after, L, leaf, Depth, NoRef, NoRef)
    BY <1>7 DEF WithFreeLink
  <2>2. r \in DOMAIN ns
    BY <2>1 DEF IsNode
  <2>3. CASE r = R /\ dir = D
    <3>1. c = leaf
      BY <2>1, <2>3 DEF Relinked, IsNode
    <3> QED
      BY <1>5, <3>1, AboveItself
  <2>4. CASE ~(r = R /\ dir = D)
    <3>1. after[r].child[dir] = ns[r].child[dir] /\ after[r].index = ns[r].index
      BY <2>1, <2>2, <2>4 DEF Relinked
    <3>2. after[ns[r].child[dir]].index = ns[ns[r].child[dir]].index
      BY <1>3, <2>1, <2>2, <3>1 DEF Relinked
    <3> QED
      BY <1>4, <2>2, <2>4, <3>1, <3>2
  <2> QED
    BY <2>3, <2>4
<1>8. ASSUME NEW L, NEW M, NEW inter, NEW a, NEW b, WithBranch(ns, after, R, D, leaf, L, M, inter, a, b)
      PROVE  x \in kept2 <=> c \in kept2
  <2>1. /\ DOMAIN after = DOMAIN ns \cup {L, M} /\ Relinked(ns, after, R, D, M) /\ M \notin DOMAIN ns
        /\ IsNode(after, L, leaf, Depth, NoRef, NoRef)
        /\ after[M].index = inter /\ after[M].child[a] = L /\ after[M].child[b] = ns[R].child[D]
        /\ ns[R].child[D] # NoRef /\ ~IsAbove(ns[ns[R].child[D]].index, leaf)
    BY <1>8 DEF WithBranch
  <2>2. /\ a \in {0, 1} /\ b \in {0, 1} /\ a # b /\ inter \in Indices /\ DepthOf(inter) < Depth
        /\ IsAbove(2 * ns[R].index + D, inter) /\ IsAbove(2 * inter + a, leaf)
    BY <1>8 DEF WithBranch, Splits
  <2>3. r # L /\ (r = M \/ r \in DOMAIN ns)
    BY <2>1 DEF IsNode
  <2>4. IsAbove(inter, leaf)
    BY <2>2, SideAbove
  <2>5. CASE r = M /\ dir = a
    <3>1. c = leaf
      BY <2>1, <2>5 DEF IsNode
    <3> QED
      BY <1>5, <3>1, AboveItself
  <2>6. CASE r = M /\ dir = b
    <3>1. after[r].child[dir] = ns[R].child[D] /\ after[r].index = inter
      BY <2>1, <2>6
    <3>2. c = ns[ns[R].child[D]].index
      BY <1>2, <1>3, <2>1, <3>1 DEF Relinked
    <3>3. IsAbove(2 * inter + b, x) /\ IsAbove(x, c)
      BY <2>6, <3>1 DEF OnLink
    <3>4. 2 * inter + b \in Indices /\ IsAbove(inter, x)
      BY <2>2, <3>3, SidesOf, SideAbove
    <3>5. ~IsAbove(x, leaf)
      <4>1. SUFFICES ASSUME IsAbove(x, leaf) PROVE FALSE
        OBVIOUS
      <4>2. IsAbove(2 * inter + b, leaf)
        BY <3>3, <3>4, <4>1, AboveTransitive
      <4> QED
        BY <2>2, <4>2, OneSide
    <3>6. IsAbove(2 * ns[R].index + D, x)
      BY <1>2, <2>2, <3>4, AboveTransitive
    <3>7. OnLink(ns, R, D, x)
      BY <3>2, <3>3, <3>6 DEF OnLink
    <3>8. x \in kept <=> c \in kept
      BY <1>2, <2>1, <3>2, <3>7 DEF WholeLinks
    <3>9. ~IsAbove(c, leaf)
      BY <2>1, <3>2
    <3> QED
      BY <3>5, <3>8, <3>9
  <2>7. CASE r \in DOMAIN ns /\ r = R /\ dir = D
    <3>1. c = inter
      BY <2>1, <2>7 DEF Relinked
    <3> QED
      BY <1>5, <2>2, <2>4, <3>1
  <2>8. CASE r \in DOMAIN ns /\ ~(r = R /\ dir = D)
    <3>1. after[r].child[dir] = ns[r].child[dir] /\ after[r].index = ns[r].index
      BY <2>1, <2>8 DEF Relinked
    <3>2. after[ns[r].child[dir]].index = ns[ns[r].child[dir]].index
      BY <1>3, <2>1, <2>8, <3>1 DEF Relinked
    <3> QED
      BY <1>4, <2>8, <3>1, <3>2
  <2> QED
    BY <2>2, <2>3, <2>5, <2>6, <2>7, <2>8
<1> QED
  BY <1>6, <1>7, <1>8 DEF Inserted

----------------------------------------------------------------------------
\* The invariant of the parallel tree, and an insert

KeptExact(kept, map) == \A i \in DOMAIN kept : kept[i] = RefOf(HashedOf(map), i)

ParInv ==
  /\ written = items
  /\ TreeOfNodes(nodes) /\ LeavesWritten(nodes, written)
  /\ CacheFits /\ KeptExact(cache, written)

KeptOff(kept, leaf) == {x \in DOMAIN kept : ~IsAbove(x, leaf)}

LEMMA WipedAll ==
  ASSUME TreeOfNodes(nodes), CacheFits, NEW leaf \in Indices, NEW walk, WalkEnd(walk, 1, leaf)
  PROVE  /\ DOMAIN CacheWithout(walk.wiped) = KeptOff(cache, leaf)
         /\ \A x \in KeptOff(cache, leaf) : CacheWithout(walk.wiped)[x] = cache[x]
<1>1. nodes[1].index = 1
  BY DEF TreeOfNodes, NodesTyped
<1>2. \A x \in DOMAIN cache : x \in walk.wiped <=> IsAbove(x, leaf) /\ IsAbove(1, x) /\ x # 1
  BY <1>1 DEF WalkEnd
<1>3. \A x \in DOMAIN cache : x \in Indices
  BY DEF CacheFits, CachedOnLinks
<1>4. IsAbove(1, leaf) /\ \A x \in DOMAIN cache : IsAbove(1, x)
  BY <1>3, RootIndex
<1>5. DOMAIN cache \ ({1} \cup walk.wiped) = KeptOff(cache, leaf)
  BY <1>2, <1>4 DEF KeptOff
<1>6. CacheWithout(walk.wiped) = [x \in KeptOff(cache, leaf) |-> cache[x]]
  BY <1>5 DEF CacheWithout, Restrict
<1> QED
  BY <1>6

LEMMA InsertKept ==
  ASSUME NEW kept, NEW map, KeptExact(kept, map), DOMAIN kept \subseteq Indices,
         NEW index \in Positions(0), NEW item, NEW kept2,
         DOMAIN kept2 = KeptOff(kept, LeafIndex(index)),
         \A x \in KeptOff(kept, LeafIndex(index)) : kept2[x] = kept[x]
  PROVE  KeptExact(kept2, With(map, Single(index, item)))
<1> DEFINE h == HashedOf(map)
           g == HashedOf(With(map, Single(index, item)))
<1>1. \A k \in Positions(0) \ {index} : g[k] = h[k]
  BY HashedWith
<1> HIDE DEF g
<1>2. ASSUME NEW x \in DOMAIN kept2 PROVE kept2[x] = RefOf(g, x)
  <2>1. x \in Indices /\ x \in DOMAIN kept /\ ~IsAbove(x, LeafIndex(index)) /\ kept2[x] = kept[x]
    BY DEF KeptOff
  <2>2. kept[x] = RefOf(h, x)
    BY <2>1 DEF KeptExact
  <2>3. \A k \in Positions(0) : IsAbove(x, LeafIndex(k)) => h[k] = g[k]
    BY <1>1, <2>1
  <2> HIDE DEF h
  <2>4. RefOf(h, x) = RefOf(g, x)
    BY <2>1, <2>3, RefOfBelow
  <2> QED
    BY <2>1, <2>2, <2>4
<1> QED
  BY <1>2 DEF KeptExact, g

LEMMA InsertKeepsInv ==
  ASSUME ParInv, NEW index \in Index, NEW item, ParInsert(index, item),
         items' = With(items, Single(index, item))
  PROVE  ParInv'
<1> DEFINE leaf == LeafIndex(index)
           walk == Walk(leaf)
           after == NodesWith(leaf, walk)
           less == CacheWithout(walk.wiped)
           map == With(written, Single(index, item))
<1>1. leaf \in Indices /\ DepthOf(leaf) = Depth /\ index \in Positions(0)
  BY IndexLeaf, LeafIndices
<1>2. TreeOfNodes(nodes) /\ LeavesWritten(nodes, written) /\ CacheFits /\ KeptExact(cache, written)
  BY DEF ParInv
<1>3. WalkEnd(walk, 1, leaf)
  BY <1>1, <1>2, WalkEnds
<1>4. nodes' = after /\ cache' = less /\ written' = map /\ items' = map
  BY DEF ParInsert, ParInv
<1> HIDE DEF walk
<1>5. Inserted(nodes, after, walk.ref, walk.dir, leaf)
  BY <1>1, <1>2, <1>3, NodesInserted
<1>6. DOMAIN less = KeptOff(cache, leaf) /\ \A x \in KeptOff(cache, leaf) : less[x] = cache[x]
  BY <1>1, <1>2, <1>3, WipedAll
<1>7. DOMAIN map = DOMAIN written \cup {index}
  <2>1. DOMAIN Single(index, item) = {index}
    BY SingleAt
  <2> QED
    BY <2>1, WithAt
<1>8. DOMAIN cache \subseteq Indices /\ CachedOnLinks(nodes, DOMAIN cache) /\ WholeLinks(nodes, DOMAIN cache)
  BY <1>2 DEF CacheFits, CachedOnLinks
<1>9. KeptExact(less, map)
  BY <1>1, <1>2, <1>6, <1>8, InsertKept
<1> HIDE DEF after, less, map
<1>10. TreeOfNodes(after)
  BY <1>1, <1>2, <1>5, InsertedTree
<1>11. NodesKept(nodes, after, leaf)
  BY <1>1, <1>2, <1>5, InsertedNodes
<1>12. LeavesWritten(after, map)
  BY <1>2, <1>7, <1>11, InsertedLeaves
<1>13. CachedOnLinks(after, DOMAIN less)
  <2>1. KeptOff(cache, leaf) \in SUBSET DOMAIN cache
    BY DEF KeptOff
  <2> QED
    BY <1>6, <1>8, <1>11, <2>1, InsertedCached
<1>14. WholeLinks(after, DOMAIN less)
  <2>1. DOMAIN less = {x \in DOMAIN cache : ~IsAbove(x, leaf)}
    BY <1>6 DEF KeptOff
  <2> QED
    BY <1>1, <1>2, <1>5, <1>8, <2>1, InsertedWhole
<1>15. CacheFits' <=> CachedOnLinks(nodes', DOMAIN cache') /\ WholeLinks(nodes', DOMAIN cache')
  BY DEF CacheFits
<1> QED
  BY <1>4, <1>9, <1>10, <1>12, <1>13, <1>14, <1>15 DEF ParInv

----------------------------------------------------------------------------
\* What root_hash computes

Hashed == HashedOf(written)

\* Below an index without nodes nothing was written.
LEMMA NoneBelow ==
  ASSUME TreeOfNodes(nodes), LeavesWritten(nodes, written), NEW i \in Indices,
         \A s \in DOMAIN nodes : ~IsAbove(i, nodes[s].index)
  PROVE  RefOf(Hashed, i) = Prehashed[DepthOf(i)]
<1>1. ASSUME NEW k \in Positions(0), IsAbove(i, LeafIndex(k)) PROVE Hashed[k] = Untouched[k]
  <2>1. k \notin DOMAIN written
    BY <1>1 DEF LeavesWritten
  <2>2. Hashed[k] = ItemHash(DefaultItem)
    BY <2>1, HashedAt DEF Hashed
  <2> QED
    BY <2>2 DEF Untouched
<1>2. RefOf(Hashed, i) = RefOf(Untouched, i)
  <2> PICK h, g : h = Hashed /\ g = Untouched
    OBVIOUS
  <2> QED
    BY <1>1, RefOfBelow
<1> QED
  BY <1>2, PrehashedIs

\* An index on a link has nodes below it on one side only.
LEMMA OffTheLink ==
  ASSUME TreeOfNodes(nodes), NEW r \in DOMAIN nodes, NEW dir \in {0, 1}, nodes[r].child[dir] # NoRef,
         NEW i \in Indices, DepthOf(i) < Depth, IsAbove(2 * nodes[r].index + dir, i),
         NEW b \in {0, 1}, IsAbove(2 * i + b, nodes[nodes[r].child[dir]].index),
         NEW s \in DOMAIN nodes
  PROVE  ~IsAbove(2 * i + (1 - b), nodes[s].index)
<1> DEFINE c == nodes[nodes[r].child[dir]].index
           j == nodes[s].index
           side == 2 * nodes[r].index + dir
<1> SUFFICES ASSUME IsAbove(2 * i + (1 - b), j) PROVE FALSE
  OBVIOUS
<1>1. /\ nodes[r].index \in Indices /\ DepthOf(nodes[r].index) = nodes[r].depth /\ j \in Indices
  BY NodeFacts DEF TreeOfNodes
<1>2. nodes[r].depth < Depth /\ c \in Indices
  BY LinkFacts
<1>3. side \in Indices /\ 1 - b \in {0, 1} /\ b # 1 - b
  <2>1. side \in Indices
    BY <1>1, <1>2, SidesOf
  <2>2. 1 - b \in {0, 1} /\ b # 1 - b
    OBVIOUS
  <2> QED
    BY <2>1, <2>2
<1> HIDE DEF c, j
<1>4. IsAbove(i, j)
  BY <1>1, <1>3, SideAbove
<1>5. IsAbove(side, j)
  BY <1>1, <1>3, <1>4, AboveTransitive
<1>6. IsAbove(c, j)
  BY <1>2, <1>5 DEF TreeOfNodes, AllBelow, c, j
<1>7. IsAbove(2 * i + b, c)
  BY DEF c
<1>8. 2 * i + b \in Indices
  BY SidesOf
<1>9. IsAbove(2 * i + b, j)
  BY <1>1, <1>2, <1>6, <1>7, <1>8, AboveTransitive
<1> QED
  BY <1>1, <1>3, <1>9, OneSide

\* One step up a link.
LEMMA LineStep ==
  ASSUME TreeOfNodes(nodes), LeavesWritten(nodes, written), NEW r \in DOMAIN nodes, NEW dir \in {0, 1},
         nodes[r].child[dir] # NoRef, NEW c, c = nodes[nodes[r].child[dir]].index,
         NEW d \in nodes[r].depth + 1 .. DepthOf(c), d # DepthOf(c)
  PROVE  RefOf(Hashed, Up(c, d))
         = Parent(Depth - d - 1, Up(c, d + 1) % 2, RefOf(Hashed, Up(c, d + 1)), Prehashed[d + 1])
<1> DEFINE side == 2 * nodes[r].index + dir
           i == Up(c, d)
           b == Up(c, d + 1) % 2
<1>1. /\ nodes[r].index \in Indices /\ DepthOf(nodes[r].index) = nodes[r].depth
      /\ nodes[r].depth < Depth /\ c \in Indices /\ IsAbove(side, c)
  BY LinkFacts, NodeFacts DEF TreeOfNodes
<1>2. side \in Indices /\ DepthOf(side) = nodes[r].depth + 1 /\ nodes[r].depth \in Nat
  BY <1>1, SidesOf, IndexHasRow, DepthPositive
<1>3. DepthOf(c) \in Nat /\ DepthOf(c) <= Depth
  BY <1>1, IndexHasRow, DepthPositive
<1>4. d \in 0 .. DepthOf(c) /\ d < DepthOf(c) /\ d + 1 \in 0 .. DepthOf(c) /\ d < Depth /\ d \in Nat
  BY <1>2, <1>3, DepthPositive
<1>5. i \in Indices /\ DepthOf(i) = d /\ IsAbove(i, c)
  BY <1>1, <1>4, UpInRow, AboveUp
<1>6. IsAbove(side, i)
  <2>1. DepthOf(side) <= DepthOf(i)
    BY <1>2, <1>5
  <2> QED
    BY <1>1, <1>2, <1>5, <2>1, AboveChain
<1>7. i # c
  BY <1>4, <1>5
<1>8. /\ b \in {0, 1} /\ Up(c, d + 1) = 2 * i + b /\ IsAbove(2 * i + b, c)
  BY <1>1, <1>5, <1>7, BelowSide
<1> HIDE DEF i, b
<1>9. \A s \in DOMAIN nodes : ~IsAbove(2 * i + (1 - b), nodes[s].index)
  BY <1>4, <1>5, <1>6, <1>8, OffTheLink
<1>10. 1 - b \in {0, 1}
  BY <1>8
<1>11. 2 * i + (1 - b) \in Indices /\ DepthOf(2 * i + (1 - b)) = d + 1
  BY <1>4, <1>5, <1>10, SidesOf
<1>12. RefOf(Hashed, 2 * i + (1 - b)) = Prehashed[d + 1]
  BY <1>9, <1>11, NoneBelow
<1>13. RefOf(Hashed, i) = Compress(Depth - d - 1, RefOf(Hashed, 2 * i), RefOf(Hashed, 2 * i + 1))
  BY <1>4, <1>5, RefOfInner
<1>14. i \in Nat /\ 2 * i + 0 = 2 * i
  BY <1>5, IndexHasRow
<1>15. RefOf(Hashed, i) = Parent(Depth - d - 1, b, RefOf(Hashed, 2 * i + b), Prehashed[d + 1])
  <2>1. CASE b = 0
    <3>1. 2 * i + (1 - b) = 2 * i + 1 /\ 2 * i + b = 2 * i
      BY <1>14, <2>1
    <3> QED
      BY <1>12, <1>13, <2>1, <3>1 DEF Parent
  <2>2. CASE b = 1
    <3>1. 2 * i + (1 - b) = 2 * i /\ 2 * i + b = 2 * i + 1
      BY <1>14, <2>2
    <3> QED
      BY <1>12, <1>13, <2>2, <3>1 DEF Parent
  <2> QED
    BY <1>8, <2>1, <2>2
<1> QED
  BY <1>8, <1>15 DEF i, b

IsLine(line, node, child, hash) ==
  line = [d \in node.depth + 1 .. child.depth |->
            IF d = child.depth THEN hash
            ELSE Parent(Depth - d - 1, Up(child.index, d + 1) % 2, line[d + 1], Prehashed[d + 1])]

LEMMA LineUnfold ==
  ASSUME NEW node, NEW child, NEW hash
  PROVE  LineHashes(node, child, hash) = CHOOSE line : IsLine(line, node, child, hash)
BY DEF LineHashes, IsLine

LEMMA LineExact ==
  ASSUME TreeOfNodes(nodes), LeavesWritten(nodes, written), NEW r \in DOMAIN nodes, NEW dir \in {0, 1},
         nodes[r].child[dir] # NoRef, NEW child, child = nodes[nodes[r].child[dir]],
         NEW hash, hash = RefOf(Hashed, child.index)
  PROVE  \A d \in nodes[r].depth + 1 .. child.depth :
           LineHashes(nodes[r], child, hash)[d] = RefOf(Hashed, Up(child.index, d))
<1> DEFINE c == child.index
           low == child.depth
           up == nodes[r].depth
           LineOf(line) == /\ line = [d \in up + 1 .. low |-> line[d]]
                           /\ \A d \in up + 1 .. low :
                                line[d] = IF d = low THEN hash
                                          ELSE Parent(Depth - d - 1, Up(c, d + 1) % 2, line[d + 1], Prehashed[d + 1])
<1>1. nodes[r].child[dir] \in DOMAIN nodes /\ up < low
  BY LinkFacts
<1>2. /\ c \in Indices /\ low = DepthOf(c) /\ up \in Nat /\ low \in Nat
  BY <1>1, NodeFacts, DepthPositive DEF TreeOfNodes
<1>3. \A line : IsLine(line, nodes[r], child, hash) <=> LineOf(line)
  BY DEF IsLine
<1> HIDE DEF low, up, c
<1>4. ASSUME NEW d \in up + 1 .. low, d # low
      PROVE  RefOf(Hashed, Up(c, d))
             = Parent(Depth - d - 1, Up(c, d + 1) % 2, RefOf(Hashed, Up(c, d + 1)), Prehashed[d + 1])
  BY <1>2, <1>4, LineStep DEF c, up
<1>5. hash = RefOf(Hashed, Up(c, low))
  BY <1>2, UpOnce DEF c
<1>6. \E line : LineOf(line)
  <2> DEFINE line == [d \in up + 1 .. low |-> RefOf(Hashed, Up(c, d))]
  <2>1. ASSUME NEW d \in up + 1 .. low
        PROVE  line[d] = IF d = low THEN hash
                         ELSE Parent(Depth - d - 1, Up(c, d + 1) % 2, line[d + 1], Prehashed[d + 1])
    <3>1. d # low => d + 1 \in up + 1 .. low
      BY <1>2
    <3> QED
      BY <1>4, <1>5, <3>1
  <2>2. line = [d \in up + 1 .. low |-> line[d]]
    OBVIOUS
  <2> HIDE DEF line
  <2> QED
    BY <2>1, <2>2
<1>7. ASSUME NEW line, LineOf(line), NEW d \in up + 1 .. low PROVE line[d] = RefOf(Hashed, Up(c, d))
  <2> DEFINE T == {n \in Nat : \A e \in up + 1 .. low : low - e <= n => line[e] = RefOf(Hashed, Up(c, e))}
  <2>1. 0 \in T
    <3>1. \A e \in up + 1 .. low : low - e <= 0 => e = low
      BY <1>2
    <3>2. \A e \in up + 1 .. low : e = low => line[e] = hash
      BY <1>7
    <3> QED
      BY <1>5, <3>1, <3>2
  <2>2. ASSUME NEW n \in Nat, n \in T PROVE n + 1 \in T
    <3>1. SUFFICES ASSUME NEW e \in up + 1 .. low, low - e <= n + 1 PROVE line[e] = RefOf(Hashed, Up(c, e))
      OBVIOUS
    <3>2. CASE e = low
      BY <1>5, <1>7, <3>2
    <3>3. CASE e # low
      <4>1. e + 1 \in up + 1 .. low /\ low - (e + 1) <= n
        BY <1>2, <3>1, <3>3
      <4>2. line[e + 1] = RefOf(Hashed, Up(c, e + 1))
        BY <2>2, <4>1
      <4>3. line[e] = Parent(Depth - e - 1, Up(c, e + 1) % 2, line[e + 1], Prehashed[e + 1])
        BY <1>7, <3>3
      <4> QED
        BY <1>4, <3>3, <4>2, <4>3
    <3> QED
      BY <3>2, <3>3
  <2> HIDE DEF T
  <2>3. low - d \in Nat
    BY <1>2
  <2>4. low - d \in T
    BY <2>1, <2>2, <2>3, NatSetInduction
  <2>5. low - d <= low - d
    BY <2>3
  <2> QED
    BY <2>4, <2>5 DEF T
<1> PICK line : line = LineHashes(nodes[r], child, hash)
  OBVIOUS
<1>8. LineOf(line)
  BY <1>3, <1>6, LineUnfold
<1> HIDE DEF LineOf
<1>9. \A d \in up + 1 .. low : line[d] = RefOf(Hashed, Up(c, d))
  BY <1>7, <1>8
<1> QED
  BY <1>9 DEF up, low, c

IsComputed(f) == f = [ref \in DOMAIN nodes |-> NodeHash(nodes[ref], f)]

LEMMA ComputedUnfold == Computed = (CHOOSE f : IsComputed(f))[1]
BY DEF Computed, IsComputed

\* What is computed for a side depends on what was for the child on it.
LEMMA ChildLocal ==
  ASSUME NEW node, NEW dir, NEW f, NEW g, node.child[dir] = NoRef \/ f[node.child[dir]] = g[node.child[dir]]
  PROVE  ChildHash(node, dir, f) = ChildHash(node, dir, g)
BY DEF ChildHash

LEMMA NodeLocal ==
  ASSUME TreeOfNodes(nodes), NEW r \in DOMAIN nodes, NEW f, NEW g,
         \A s \in DOMAIN nodes : nodes[r].depth < nodes[s].depth => f[s] = g[s]
  PROVE  NodeHash(nodes[r], f) = NodeHash(nodes[r], g)
<1>1. ASSUME NEW dir \in {0, 1} PROVE ChildHash(nodes[r], dir, f) = ChildHash(nodes[r], dir, g)
  <2>1. ASSUME nodes[r].child[dir] # NoRef PROVE f[nodes[r].child[dir]] = g[nodes[r].child[dir]]
    BY <2>1, LinkFacts
  <2> QED
    BY <2>1, ChildLocal
<1> QED
  BY <1>1 DEF NodeHash

LEMMA ComputedExists ==
  ASSUME TreeOfNodes(nodes)
  PROVE  \E f : IsComputed(f)
<1> DEFINE refs == DOMAIN nodes
<1>0. \A r \in refs : nodes[r].depth \in Nat /\ nodes[r].depth <= Depth /\ Depth \in Nat
  BY NodeFacts, DepthPositive DEF TreeOfNodes
<1> HIDE DEF refs
<1> DEFINE T == {n \in Nat : \E f : f = [r \in refs |-> f[r]] /\
                   \A r \in refs : Depth - nodes[r].depth < n => f[r] = NodeHash(nodes[r], f)}
<1>1. 0 \in T
  <2> DEFINE f == [r \in refs |-> 0]
  <2>1. f = [r \in refs |-> f[r]]
    OBVIOUS
  <2>2. \A r \in refs : ~(Depth - nodes[r].depth < 0)
    BY <1>0
  <2> HIDE DEF f
  <2> QED
    BY <2>1, <2>2
<1>2. ASSUME NEW n \in Nat, n \in T PROVE n + 1 \in T
  <2> PICK f : f = [r \in refs |-> f[r]] /\ \A r \in refs : Depth - nodes[r].depth < n => f[r] = NodeHash(nodes[r], f)
    BY <1>2
  <2> DEFINE g == [r \in refs |-> IF Depth - nodes[r].depth < n THEN f[r] ELSE NodeHash(nodes[r], f)]
  <2>1. g = [r \in refs |-> g[r]]
    OBVIOUS
  <2>2. \A r \in refs : /\ Depth - nodes[r].depth < n => g[r] = f[r]
                        /\ ~(Depth - nodes[r].depth < n) => g[r] = NodeHash(nodes[r], f)
    OBVIOUS
  <2> HIDE DEF g
  <2>3. ASSUME NEW r \in refs, Depth - nodes[r].depth < n + 1 PROVE g[r] = NodeHash(nodes[r], g)
    <3>1. \A s \in refs : nodes[r].depth < nodes[s].depth => f[s] = g[s]
      <4> SUFFICES ASSUME NEW s \in refs, nodes[r].depth < nodes[s].depth PROVE f[s] = g[s]
        OBVIOUS
      <4>1. Depth - nodes[s].depth < n
        BY <1>0, <2>3
      <4> QED
        BY <2>2, <4>1
    <3>2. NodeHash(nodes[r], f) = NodeHash(nodes[r], g)
      BY <3>1, NodeLocal DEF refs
    <3> QED
      BY <2>2, <3>2
  <2>4. \E e : e = [r \in refs |-> e[r]] /\ \A r \in refs : Depth - nodes[r].depth < n + 1 => e[r] = NodeHash(nodes[r], e)
    BY <2>1, <2>3
  <2> QED
    BY <2>4
<1> HIDE DEF T
<1>3. Depth + 1 \in Nat /\ \A r \in refs : Depth - nodes[r].depth < Depth + 1
  BY <1>0, DepthPositive
<1>4. Depth + 1 \in T
  BY <1>1, <1>2, <1>3, NatSetInduction
<1> PICK f : f = [r \in refs |-> f[r]] /\ \A r \in refs : f[r] = NodeHash(nodes[r], f)
  BY <1>3, <1>4 DEF T
<1>5. f = [r \in refs |-> NodeHash(nodes[r], f)]
  OBVIOUS
<1> QED
  BY <1>5 DEF IsComputed, refs

\* What is known with the hashes computed for a node: whole links.
Whole(r, dir, known) ==
  \A x \in Indices : OnLink(nodes, r, dir, x) => (x \in known <=> nodes[nodes[r].child[dir]].index \in known)

\* A correct result for what is at or below an index.
Sound(i, v) ==
  /\ v.hash = RefOf(Hashed, i)
  /\ KeptExact(v.updates, written)
  /\ \A x \in DOMAIN v.updates :
       x \in Indices /\ IsAbove(i, x) /\ \E s \in DOMAIN nodes : IsAbove(x, nodes[s].index)
  /\ \A s \in DOMAIN nodes, d \in {0, 1} :
       nodes[s].child[d] # NoRef /\ IsAbove(i, nodes[s].index)
       => Whole(s, d, DOMAIN cache \cup DOMAIN v.updates)

NodeSound(r, v) == Sound(nodes[r].index, v) /\ nodes[r].index \in DOMAIN v.updates

SideSound(r, dir, v) ==
  /\ Sound(2 * nodes[r].index + dir, v)
  /\ nodes[r].child[dir] # NoRef => Whole(r, dir, DOMAIN cache \cup DOMAIN v.updates)

\* A result without new hashes.
LEMMA NothingNew ==
  ASSUME CacheFits, NEW i, NEW hash, hash = RefOf(Hashed, i),
         NEW v, v.hash = hash, DOMAIN v.updates = {}
  PROVE  /\ Sound(i, v)
         /\ \A s \in DOMAIN nodes, d \in {0, 1} :
              nodes[s].child[d] # NoRef => Whole(s, d, DOMAIN cache \cup DOMAIN v.updates)
<1>2. DOMAIN cache \cup DOMAIN v.updates = DOMAIN cache
  OBVIOUS
<1>3. \A s \in DOMAIN nodes, d \in {0, 1} :
        nodes[s].child[d] # NoRef => Whole(s, d, DOMAIN cache \cup DOMAIN v.updates)
  BY <1>2 DEF CacheFits, WholeLinks, Whole
<1> QED
  BY <1>3 DEF Sound, KeptExact

LineNew(r, dir, of) ==
  LET link  == nodes[r].child[dir]
      child == nodes[link]
      line  == LineHashes(nodes[r], child, of[link].hash)
  IN  [i \in Between(child.index, nodes[r].index) |-> line[DepthOf(i)]]

LineTop(r, dir, of) ==
  LineHashes(nodes[r], nodes[nodes[r].child[dir]], of[nodes[r].child[dir]].hash)[nodes[r].depth + 1]

LEMMA ChildHashIs ==
  ASSUME NEW r, NEW dir, NEW of
  PROVE  /\ 2 * nodes[r].index + dir \in DOMAIN cache
            => /\ ChildHash(nodes[r], dir, of).hash = cache[2 * nodes[r].index + dir]
               /\ DOMAIN ChildHash(nodes[r], dir, of).updates = {}
         /\ 2 * nodes[r].index + dir \notin DOMAIN cache /\ nodes[r].child[dir] = NoRef
            => /\ ChildHash(nodes[r], dir, of).hash = Prehashed[nodes[r].depth + 1]
               /\ DOMAIN ChildHash(nodes[r], dir, of).updates = {}
         /\ 2 * nodes[r].index + dir \notin DOMAIN cache /\ nodes[r].child[dir] # NoRef
            => /\ ChildHash(nodes[r], dir, of).hash = LineTop(r, dir, of)
               /\ ChildHash(nodes[r], dir, of).updates = With(of[nodes[r].child[dir]].updates, LineNew(r, dir, of))
<1>1. ASSUME 2 * nodes[r].index + dir \in DOMAIN cache
      PROVE  /\ ChildHash(nodes[r], dir, of).hash = cache[2 * nodes[r].index + dir]
             /\ DOMAIN ChildHash(nodes[r], dir, of).updates = {}
  BY <1>1 DEF ChildHash
<1>2. ASSUME 2 * nodes[r].index + dir \notin DOMAIN cache, nodes[r].child[dir] = NoRef
      PROVE  /\ ChildHash(nodes[r], dir, of).hash = Prehashed[nodes[r].depth + 1]
             /\ DOMAIN ChildHash(nodes[r], dir, of).updates = {}
  BY <1>2 DEF ChildHash
<1>3. ASSUME 2 * nodes[r].index + dir \notin DOMAIN cache, nodes[r].child[dir] # NoRef
      PROVE  /\ ChildHash(nodes[r], dir, of).hash = LineTop(r, dir, of)
             /\ ChildHash(nodes[r], dir, of).updates = With(of[nodes[r].child[dir]].updates, LineNew(r, dir, of))
  BY <1>3 DEF ChildHash, LineTop, LineNew
<1> QED
  BY <1>1, <1>2, <1>3

\* The indices on a link but for the child.
OnTheLink(r, dir, c) ==
  /\ \A i \in Between(c, nodes[r].index) :
       /\ i \in Indices /\ i # c /\ IsAbove(i, c)
       /\ IsAbove(2 * nodes[r].index + dir, i)
       /\ DepthOf(i) \in nodes[r].depth + 1 .. DepthOf(c) /\ i = Up(c, DepthOf(i))
  /\ \A i \in Indices : OnLink(nodes, r, dir, i) => i = c \/ i \in Between(c, nodes[r].index)

LEMMA BetweenIs ==
  ASSUME TreeOfNodes(nodes), NEW r \in DOMAIN nodes, NEW dir \in {0, 1}, nodes[r].child[dir] # NoRef,
         NEW c, c = nodes[nodes[r].child[dir]].index
  PROVE  OnTheLink(r, dir, c)
<1> DEFINE a == nodes[r].index
           side == 2 * a + dir
<1>1. /\ a \in Indices /\ DepthOf(a) = nodes[r].depth /\ DepthOf(a) < Depth /\ c \in Indices
      /\ IsAbove(side, c) /\ DepthOf(a) < DepthOf(c)
  BY LinkFacts, NodeFacts DEF TreeOfNodes
<1>2. side \in Indices /\ DepthOf(side) = DepthOf(a) + 1
  BY <1>1, SidesOf
<1>3. DepthOf(a) \in Nat /\ DepthOf(c) \in Nat
  BY <1>1, IndexHasRow, DepthPositive
<1>4. ASSUME NEW i \in Between(c, a)
      PROVE  /\ i \in Indices /\ IsAbove(side, i) /\ IsAbove(i, c) /\ i # c
             /\ DepthOf(i) \in DepthOf(a) + 1 .. DepthOf(c) /\ i = Up(c, DepthOf(i))
  <2> PICK d \in DepthOf(a) + 1 .. DepthOf(c) - 1 : i = Up(c, d)
    BY DEF Between
  <2>1. d \in 0 .. DepthOf(c) /\ d # DepthOf(c) /\ d \in DepthOf(a) + 1 .. DepthOf(c)
    BY <1>3
  <2>2. i \in Indices /\ DepthOf(i) = d /\ IsAbove(i, c)
    BY <1>1, <2>1, UpInRow, AboveUp
  <2>3. DepthOf(side) <= DepthOf(i)
    BY <1>2, <1>3, <2>1, <2>2
  <2>4. IsAbove(side, i)
    BY <1>1, <1>2, <2>2, <2>3, AboveChain
  <2> QED
    BY <2>1, <2>2, <2>4
<1>5. ASSUME NEW i \in Indices, IsAbove(side, i), IsAbove(i, c), i # c PROVE i \in Between(c, a)
  <2>1. DepthOf(i) < DepthOf(c) /\ DepthOf(i) \in Nat /\ i = Up(c, DepthOf(i))
    BY <1>1, <1>5, BelowSide, IndexHasRow, DepthPositive DEF IsAbove
  <2>2. DepthOf(a) + 1 <= DepthOf(i)
    BY <1>2, <1>5 DEF IsAbove
  <2>3. DepthOf(i) \in DepthOf(a) + 1 .. DepthOf(c) - 1
    BY <1>3, <2>1, <2>2
  <2> QED
    BY <2>1, <2>3 DEF Between
<1> QED
  BY <1>1, <1>4, <1>5 DEF OnLink, OnTheLink

LEMMA LineNewIs ==
  ASSUME TreeOfNodes(nodes), LeavesWritten(nodes, written), NEW r \in DOMAIN nodes, NEW dir \in {0, 1},
         nodes[r].child[dir] # NoRef, NEW of, NodeSound(nodes[r].child[dir], of[nodes[r].child[dir]])
  PROVE  /\ LineTop(r, dir, of) = RefOf(Hashed, 2 * nodes[r].index + dir)
         /\ DOMAIN LineNew(r, dir, of) = Between(nodes[nodes[r].child[dir]].index, nodes[r].index)
         /\ KeptExact(LineNew(r, dir, of), written)
<1> DEFINE link == nodes[r].child[dir]
           child == nodes[link]
           c == child.index
           hash == of[link].hash
           line == LineHashes(nodes[r], child, hash)
<1>1. link \in DOMAIN nodes /\ nodes[r].depth < child.depth /\ c \in Indices /\ child.depth = DepthOf(c)
  BY LinkFacts, NodeFacts DEF TreeOfNodes
<1>2. hash = RefOf(Hashed, c)
  BY DEF NodeSound, Sound
<1>3. \A d \in nodes[r].depth + 1 .. child.depth : line[d] = RefOf(Hashed, Up(c, d))
  BY <1>2, LineExact
<1>4. LineTop(r, dir, of) = line[nodes[r].depth + 1]
  BY DEF LineTop
<1>5. LineNew(r, dir, of) = [i \in Between(c, nodes[r].index) |-> line[DepthOf(i)]]
  BY DEF LineNew
<1>6. nodes[r].depth \in Nat /\ child.depth \in Nat
  BY <1>1, NodeFacts, DepthPositive DEF TreeOfNodes
<1>7. Up(c, nodes[r].depth + 1) = 2 * nodes[r].index + dir
  <2>1. IsAbove(2 * nodes[r].index + dir, c)
    BY LinkFacts
  <2>3. nodes[r].index \in Indices /\ DepthOf(nodes[r].index) = nodes[r].depth /\ nodes[r].depth < Depth
    BY LinkFacts, NodeFacts DEF TreeOfNodes
  <2>2. DepthOf(2 * nodes[r].index + dir) = nodes[r].depth + 1
    BY <2>3, SidesOf
  <2> QED
    BY <2>1, <2>2 DEF IsAbove
<1> HIDE DEF line
<1>8. nodes[r].depth + 1 \in nodes[r].depth + 1 .. child.depth
  BY <1>1, <1>6
<1>9. LineTop(r, dir, of) = RefOf(Hashed, 2 * nodes[r].index + dir)
  BY <1>3, <1>4, <1>7, <1>8
<1>10. ASSUME NEW i \in Between(c, nodes[r].index) PROVE line[DepthOf(i)] = RefOf(Hashed, i)
  <2>1. OnTheLink(r, dir, c)
    BY BetweenIs
  <2>2. DepthOf(i) \in nodes[r].depth + 1 .. child.depth /\ i = Up(c, DepthOf(i))
    BY <1>1, <2>1 DEF OnTheLink
  <2> QED
    BY <1>3, <2>2
<1>11. KeptExact(LineNew(r, dir, of), written)
  BY <1>5, <1>10 DEF KeptExact, Hashed
<1> QED
  BY <1>5, <1>9, <1>11

LEMMA WithExact ==
  ASSUME NEW kept, NEW new, NEW map, KeptExact(kept, map), KeptExact(new, map)
  PROVE  KeptExact(With(kept, new), map)
<1> DEFINE both == With(kept, new)
<1>1. /\ DOMAIN both = DOMAIN kept \cup DOMAIN new
      /\ \A key \in DOMAIN new : both[key] = new[key]
      /\ \A key \in DOMAIN kept \ DOMAIN new : both[key] = kept[key]
  BY WithAt
<1> HIDE DEF both
<1> QED
  BY <1>1 DEF KeptExact, both

\* get_child_hash
LEMMA SideIsSound ==
  ASSUME TreeOfNodes(nodes), LeavesWritten(nodes, written), CacheFits, KeptExact(cache, written),
         NEW r \in DOMAIN nodes, nodes[r].depth < Depth, NEW dir \in {0, 1}, NEW of,
         nodes[r].child[dir] # NoRef => NodeSound(nodes[r].child[dir], of[nodes[r].child[dir]])
  PROVE  SideSound(r, dir, ChildHash(nodes[r], dir, of))
<1> DEFINE side == 2 * nodes[r].index + dir
           link == nodes[r].child[dir]
           v == ChildHash(nodes[r], dir, of)
<1>1. /\ nodes[r].index \in Indices /\ DepthOf(nodes[r].index) = nodes[r].depth
  BY NodeFacts DEF TreeOfNodes
<1>2. side \in Indices /\ DepthOf(side) = nodes[r].depth + 1
  BY <1>1, SidesOf
<1>3. CASE side \in DOMAIN cache
  <2>1. v.hash = cache[side] /\ DOMAIN v.updates = {}
    BY <1>3, ChildHashIs
  <2> HIDE DEF v
  <2>2. v.hash = RefOf(Hashed, side)
    BY <1>3, <2>1 DEF KeptExact, Hashed
  <2>3. SideSound(r, dir, v)
    BY <2>1, <2>2, NothingNew DEF SideSound
  <2> QED
    BY <2>3 DEF v
<1>4. CASE side \notin DOMAIN cache /\ link = NoRef
  <2>1. v.hash = Prehashed[nodes[r].depth + 1] /\ DOMAIN v.updates = {}
    BY <1>4, ChildHashIs
  <2> HIDE DEF v
  <2>2. \A s \in DOMAIN nodes : ~IsAbove(side, nodes[s].index)
    BY <1>4 DEF TreeOfNodes, AllBelow
  <2>3. v.hash = RefOf(Hashed, side)
    BY <1>2, <2>1, <2>2, NoneBelow
  <2>4. SideSound(r, dir, v)
    BY <2>1, <2>3, NothingNew DEF SideSound
  <2> QED
    BY <2>4 DEF v
<1>5. CASE side \notin DOMAIN cache /\ link # NoRef
  <2> DEFINE old == of[link].updates
             new == LineNew(r, dir, of)
             c == nodes[link].index
  <2>1. v.hash = LineTop(r, dir, of) /\ v.updates = With(old, new)
    BY <1>5, ChildHashIs
  <2>2. NodeSound(link, of[link]) /\ link # NoRef
    BY <1>5
  <2>3. /\ link \in DOMAIN nodes /\ c \in Indices /\ IsAbove(side, c)
    BY <1>5, LinkFacts
  <2>4. v.hash = RefOf(Hashed, side) /\ DOMAIN new = Between(c, nodes[r].index) /\ KeptExact(new, written)
    BY <2>1, <2>2, LineNewIs
  <2>5. KeptExact(old, written)
    BY <2>2 DEF NodeSound, Sound
  <2>6. \A x \in DOMAIN old : x \in Indices /\ IsAbove(c, x) /\ \E s \in DOMAIN nodes : IsAbove(x, nodes[s].index)
    BY <2>2 DEF NodeSound, Sound
  <2>7. c \in DOMAIN old
    BY <2>2 DEF NodeSound
  <2>8. \A s \in DOMAIN nodes, d \in {0, 1} :
          nodes[s].child[d] # NoRef /\ IsAbove(c, nodes[s].index) => Whole(s, d, DOMAIN cache \cup DOMAIN old)
    BY <2>2 DEF NodeSound, Sound
  <2>24. c = nodes[link].index
    OBVIOUS
  <2> HIDE DEF c
  <2>9. /\ \A i \in Between(c, nodes[r].index) :
             i \in Indices /\ i # c /\ IsAbove(i, c) /\ IsAbove(side, i)
        /\ \A i \in Indices : OnLink(nodes, r, dir, i) => i = c \/ i \in Between(c, nodes[r].index)
    <3>1. OnTheLink(r, dir, c)
      BY <1>5, <2>24, BetweenIs
    <3> QED
      BY <3>1 DEF OnTheLink
  <2>10. DOMAIN v.updates = DOMAIN old \cup DOMAIN new
    <3>1. DOMAIN With(old, new) = DOMAIN old \cup DOMAIN new
      BY WithAt
    <3> QED
      BY <2>1, <3>1
  <2>11. KeptExact(v.updates, written)
    BY <2>1, <2>4, <2>5, WithExact
  <2> HIDE DEF v, old, new
  <2>12. ASSUME NEW x \in DOMAIN v.updates
         PROVE  x \in Indices /\ IsAbove(side, x) /\ \E s \in DOMAIN nodes : IsAbove(x, nodes[s].index)
    <3>1. CASE x \in DOMAIN old
      <4>1. IsAbove(side, x)
        BY <1>2, <2>3, <2>6, <3>1, AboveTransitive
      <4> QED
        BY <2>6, <3>1, <4>1
    <3>2. CASE x \in DOMAIN new
      BY <2>3, <2>4, <2>9, <2>24, <3>2
    <3> QED
      BY <2>10, <3>1, <3>2
  <2>13. Whole(r, dir, DOMAIN cache \cup DOMAIN v.updates)
    BY <2>4, <2>7, <2>9, <2>10, <2>24 DEF Whole
  <2>14. ASSUME NEW s \in DOMAIN nodes, NEW d \in {0, 1}, nodes[s].child[d] # NoRef, IsAbove(side, nodes[s].index)
         PROVE  Whole(s, d, DOMAIN cache \cup DOMAIN v.updates)
    <3>1. IsAbove(c, nodes[s].index)
      BY <2>14, <2>24 DEF TreeOfNodes, AllBelow
    <3>2. Whole(s, d, DOMAIN cache \cup DOMAIN old)
      BY <2>8, <2>14, <3>1
    <3>3. /\ nodes[s].index \in Indices /\ DepthOf(nodes[s].index) = nodes[s].depth /\ nodes[s].depth < Depth
          /\ nodes[nodes[s].child[d]].index \in Indices
          /\ IsAbove(2 * nodes[s].index + d, nodes[nodes[s].child[d]].index)
      BY <2>14, LinkFacts, NodeFacts DEF TreeOfNodes
    <3>4. ASSUME NEW x \in Indices, IsAbove(2 * nodes[s].index + d, x) PROVE x \notin DOMAIN new
      <4>1. SUFFICES ASSUME x \in DOMAIN new PROVE FALSE
        OBVIOUS
      <4>2. IsAbove(nodes[s].index, x)
        BY <3>3, <3>4, SideAbove
      <4>3. IsAbove(c, x) /\ DepthOf(c) <= DepthOf(x)
        BY <2>3, <3>1, <3>3, <4>2, AboveTransitive DEF IsAbove
      <4>4. IsAbove(x, c) /\ x # c
        BY <2>4, <2>9, <4>1
      <4> QED
        BY <2>3, <4>3, <4>4, AboveSameDepth
    <3>5. ASSUME NEW x \in Indices, OnLink(nodes, s, d, x)
          PROVE  x \in DOMAIN cache \cup DOMAIN v.updates
                 <=> nodes[nodes[s].child[d]].index \in DOMAIN cache \cup DOMAIN v.updates
      <4>1. x \notin DOMAIN new
        BY <3>4, <3>5 DEF OnLink
      <4>2. nodes[nodes[s].child[d]].index \notin DOMAIN new
        BY <3>3, <3>4
      <4>3. x \in DOMAIN cache \cup DOMAIN old <=> nodes[nodes[s].child[d]].index \in DOMAIN cache \cup DOMAIN old
        BY <3>2, <3>5 DEF Whole
      <4> QED
        BY <2>10, <4>1, <4>2, <4>3
    <3> QED
      BY <3>5 DEF Whole
  <2>15. v.hash = RefOf(Hashed, side)
    BY <2>4
  <2>16. Sound(side, v)
    BY <2>11, <2>12, <2>14, <2>15 DEF Sound
  <2>17. SideSound(r, dir, v)
    BY <2>13, <2>16 DEF SideSound
  <2> QED
    BY <2>17 DEF v
<1> QED
  BY <1>3, <1>4, <1>5

LEMMA NodeHashIs ==
  ASSUME NEW r, NEW of
  PROVE  /\ nodes[r].depth = Depth
            => /\ NodeHash(nodes[r], of).hash = ItemHash(written[nodes[r].index - 2^Depth])
               /\ NodeHash(nodes[r], of).updates
                  = Single(nodes[r].index, ItemHash(written[nodes[r].index - 2^Depth]))
         /\ nodes[r].depth # Depth
            => /\ NodeHash(nodes[r], of).hash
                  = Compress(Depth - nodes[r].depth - 1,
                             ChildHash(nodes[r], 0, of).hash, ChildHash(nodes[r], 1, of).hash)
               /\ NodeHash(nodes[r], of).updates
                  = With(With(ChildHash(nodes[r], 0, of).updates, ChildHash(nodes[r], 1, of).updates),
                         Single(nodes[r].index, NodeHash(nodes[r], of).hash))
<1>1. ASSUME nodes[r].depth = Depth
      PROVE  /\ NodeHash(nodes[r], of).hash = ItemHash(written[nodes[r].index - 2^Depth])
             /\ NodeHash(nodes[r], of).updates = Single(nodes[r].index, ItemHash(written[nodes[r].index - 2^Depth]))
  BY <1>1 DEF NodeHash
<1>2. ASSUME nodes[r].depth # Depth
      PROVE  /\ NodeHash(nodes[r], of).hash
                = Compress(Depth - nodes[r].depth - 1,
                           ChildHash(nodes[r], 0, of).hash, ChildHash(nodes[r], 1, of).hash)
             /\ NodeHash(nodes[r], of).updates
                = With(With(ChildHash(nodes[r], 0, of).updates, ChildHash(nodes[r], 1, of).updates),
                       Single(nodes[r].index, NodeHash(nodes[r], of).hash))
  BY <1>2 DEF NodeHash
<1> QED
  BY <1>1, <1>2

LEMMA SingleExact ==
  ASSUME NEW i, NEW hash, NEW map, hash = RefOf(HashedOf(map), i)
  PROVE  KeptExact(Single(i, hash), map)
<1> DEFINE one == Single(i, hash)
<1>1. DOMAIN one = {i} /\ one[i] = hash
  BY SingleAt
<1> HIDE DEF one
<1>2. KeptExact(one, map)
  BY <1>1 DEF KeptExact
<1> QED
  BY <1>2 DEF one

\* get_hash of a leaf
LEMMA LeafIsSound ==
  ASSUME TreeOfNodes(nodes), LeavesWritten(nodes, written),
         NEW r \in DOMAIN nodes, nodes[r].depth = Depth, NEW of
  PROVE  NodeSound(r, NodeHash(nodes[r], of))
<1> DEFINE v == NodeHash(nodes[r], of)
           i == nodes[r].index
<1>1. i \in Indices /\ DepthOf(i) = Depth
  BY NodeFacts DEF TreeOfNodes
<1>2. i - 2^Depth \in DOMAIN written /\ i - 2^Depth \in Positions(0)
  BY <1>1, LeafIndices DEF LeavesWritten
<1>3. v.hash = ItemHash(written[i - 2^Depth]) /\ v.updates = Single(i, ItemHash(written[i - 2^Depth]))
  BY NodeHashIs
<1>4. RefOf(Hashed, i) = ItemHash(written[i - 2^Depth])
  <2>1. Hashed[i - 2^Depth] = ItemHash(written[i - 2^Depth])
    BY <1>2, HashedAt DEF Hashed
  <2> QED
    BY <1>1, <2>1, RefOfLeaf
<1>8. i = nodes[r].index
  OBVIOUS
<1> HIDE DEF v, i
<1>5. KeptExact(v.updates, written) /\ DOMAIN v.updates = {i}
  <2> DEFINE hash == ItemHash(written[i - 2^Depth])
  <2>1. v.updates = Single(i, hash) /\ hash = RefOf(HashedOf(written), i)
    BY <1>3, <1>4 DEF Hashed
  <2> HIDE DEF hash
  <2>2. KeptExact(Single(i, hash), written)
    BY <2>1, SingleExact
  <2>3. DOMAIN Single(i, hash) = {i}
    BY SingleAt
  <2> QED
    BY <2>1, <2>2, <2>3
<1>6. \A x \in DOMAIN v.updates : x \in Indices /\ IsAbove(i, x) /\ \E s \in DOMAIN nodes : IsAbove(x, nodes[s].index)
  BY <1>1, <1>5, <1>8, AboveItself
<1>7. ASSUME NEW s \in DOMAIN nodes, NEW d \in {0, 1}, nodes[s].child[d] # NoRef, IsAbove(i, nodes[s].index)
      PROVE  FALSE
  <2>1. nodes[s].depth < Depth /\ DepthOf(nodes[s].index) = nodes[s].depth /\ nodes[s].depth \in Nat
    BY <1>7, LinkFacts, NodeFacts, DepthPositive DEF TreeOfNodes
  <2>2. Depth <= nodes[s].depth
    BY <1>1, <1>7, <2>1 DEF IsAbove
  <2> QED
    BY <2>1, <2>2, DepthPositive
<1>9. Sound(i, v) /\ i \in DOMAIN v.updates
  BY <1>3, <1>4, <1>5, <1>6, <1>7 DEF Sound
<1>10. NodeSound(r, v)
  BY <1>8, <1>9 DEF NodeSound
<1> QED
  BY <1>10 DEF v

\* get_hash of a node with the results for its sides
LEMMA InnerIsSound ==
  ASSUME TreeOfNodes(nodes), NEW r \in DOMAIN nodes, nodes[r].depth < Depth,
         NEW left, NEW right, SideSound(r, 0, left), SideSound(r, 1, right),
         NEW v, v.hash = Compress(Depth - nodes[r].depth - 1, left.hash, right.hash),
         v.updates = With(With(left.updates, right.updates), Single(nodes[r].index, v.hash))
  PROVE  NodeSound(r, v)
<1> DEFINE i == nodes[r].index
           both == With(left.updates, right.updates)
           side(d) == IF d = 0 THEN left ELSE right
<1>1. i \in Indices /\ DepthOf(i) = nodes[r].depth /\ nodes[r].depth < Depth /\ i \in Nat
  BY NodeFacts, IndexHasRow DEF TreeOfNodes
<1>2. \A d \in {0, 1} : Sound(2 * i + d, side(d))
  BY DEF SideSound
<1>3. \A d \in {0, 1} : nodes[r].child[d] # NoRef => Whole(r, d, DOMAIN cache \cup DOMAIN side(d).updates)
  BY DEF SideSound
<1>4. v.hash = RefOf(Hashed, i)
  <2>1. 2 * i + 0 = 2 * i
    BY <1>1
  <2>2. left.hash = RefOf(Hashed, 2 * i) /\ right.hash = RefOf(Hashed, 2 * i + 1)
    BY <1>2, <2>1 DEF Sound
  <2> QED
    BY <1>1, <2>2, RefOfInner
<1>5. KeptExact(v.updates, written)
  <2>1. KeptExact(left.updates, written) /\ KeptExact(right.updates, written)
    BY <1>2 DEF Sound
  <2>2. KeptExact(both, written)
    BY <2>1, WithExact
  <2>3. KeptExact(Single(i, v.hash), written)
    BY <1>4, SingleExact DEF Hashed
  <2> QED
    BY <2>2, <2>3, WithExact
<1>6. DOMAIN v.updates = DOMAIN left.updates \cup DOMAIN right.updates \cup {i}
  <2>1. DOMAIN both = DOMAIN left.updates \cup DOMAIN right.updates
    BY WithAt
  <2>2. DOMAIN Single(i, v.hash) = {i}
    BY SingleAt
  <2>3. DOMAIN With(both, Single(i, v.hash)) = DOMAIN both \cup DOMAIN Single(i, v.hash)
    BY WithAt
  <2> QED
    BY <2>1, <2>2, <2>3
<1>7. i = nodes[r].index /\ side(0) = left /\ side(1) = right
  OBVIOUS
<1> HIDE DEF i, side
<1>8. \A d \in {0, 1} : \A x \in DOMAIN side(d).updates :
        x \in Indices /\ IsAbove(2 * i + d, x) /\ \E s \in DOMAIN nodes : IsAbove(x, nodes[s].index)
  BY <1>2 DEF Sound
<1>9. DOMAIN v.updates = DOMAIN side(0).updates \cup DOMAIN side(1).updates \cup {i}
  BY <1>6, <1>7
<1>10. \A d \in {0, 1} : 2 * i + d \in Indices
  BY <1>1, SidesOf
<1>11. ASSUME NEW d \in {0, 1}, NEW x \in Indices, IsAbove(2 * i + d, x)
       PROVE  x \in DOMAIN v.updates <=> x \in DOMAIN side(d).updates
  <2>1. x # i
    BY <1>1, <1>11, SideAbove
  <2>2. ASSUME NEW e \in {0, 1}, x \in DOMAIN side(e).updates PROVE e = d
    <3>1. IsAbove(2 * i + e, x)
      BY <1>8, <2>2
    <3> QED
      BY <1>1, <1>11, <3>1, OneSide
  <2> QED
    BY <1>9, <2>1, <2>2
<1>12. ASSUME NEW x \in DOMAIN v.updates
       PROVE  x \in Indices /\ IsAbove(i, x) /\ \E s \in DOMAIN nodes : IsAbove(x, nodes[s].index)
  <2>1. CASE x = i
    BY <1>1, <1>7, <2>1, AboveItself
  <2>2. ASSUME NEW d \in {0, 1}, x \in DOMAIN side(d).updates
        PROVE  x \in Indices /\ IsAbove(i, x) /\ \E s \in DOMAIN nodes : IsAbove(x, nodes[s].index)
    <3>1. x \in Indices /\ IsAbove(2 * i + d, x) /\ \E s \in DOMAIN nodes : IsAbove(x, nodes[s].index)
      BY <1>8, <2>2
    <3>2. IsAbove(i, x)
      BY <1>1, <3>1, SideAbove
    <3> QED
      BY <3>1, <3>2
  <2> QED
    BY <1>9, <2>1, <2>2
<1>13. ASSUME NEW s \in DOMAIN nodes, NEW e \in {0, 1}, nodes[s].child[e] # NoRef, IsAbove(i, nodes[s].index)
       PROVE  Whole(s, e, DOMAIN cache \cup DOMAIN v.updates)
  <2> DEFINE c == nodes[nodes[s].child[e]].index
  <2>1. /\ nodes[s].index \in Indices /\ DepthOf(nodes[s].index) = nodes[s].depth /\ nodes[s].depth < Depth
        /\ c \in Indices /\ IsAbove(2 * nodes[s].index + e, c)
    BY <1>13, LinkFacts, NodeFacts DEF TreeOfNodes
  <2>2. \E d \in {0, 1} : /\ Whole(s, e, DOMAIN cache \cup DOMAIN side(d).updates)
                          /\ \A x \in Indices : IsAbove(2 * nodes[s].index + e, x) => IsAbove(2 * i + d, x)
    <3>1. CASE s = r
      BY <1>3, <1>7, <1>13, <3>1
    <3>2. CASE s # r
      <4> PICK d \in {0, 1} : IsAbove(2 * i + d, nodes[s].index)
        BY <1>7, <1>13, <3>2, BelowChild
      <4>1. Whole(s, e, DOMAIN cache \cup DOMAIN side(d).updates)
        BY <1>2, <1>13 DEF Sound
      <4>2. ASSUME NEW x \in Indices, IsAbove(2 * nodes[s].index + e, x) PROVE IsAbove(2 * i + d, x)
        <5>1. IsAbove(nodes[s].index, x)
          BY <2>1, <4>2, SideAbove
        <5> QED
          BY <1>10, <2>1, <5>1, AboveTransitive
      <4> QED
        BY <4>1, <4>2
    <3> QED
      BY <3>1, <3>2
  <2> PICK d \in {0, 1} : /\ Whole(s, e, DOMAIN cache \cup DOMAIN side(d).updates)
                          /\ \A x \in Indices : IsAbove(2 * nodes[s].index + e, x) => IsAbove(2 * i + d, x)
    BY <2>2
  <2>3. c = nodes[nodes[s].child[e]].index
    OBVIOUS
  <2> HIDE DEF c
  <2>4. c \in DOMAIN v.updates <=> c \in DOMAIN side(d).updates
    BY <1>11, <2>1
  <2>5. ASSUME NEW x \in Indices, OnLink(nodes, s, e, x)
        PROVE  x \in DOMAIN cache \cup DOMAIN v.updates <=> c \in DOMAIN cache \cup DOMAIN v.updates
    <3>1. x \in DOMAIN v.updates <=> x \in DOMAIN side(d).updates
      BY <1>11, <2>5 DEF OnLink
    <3>2. x \in DOMAIN cache \cup DOMAIN side(d).updates <=> c \in DOMAIN cache \cup DOMAIN side(d).updates
      BY <2>3, <2>5 DEF Whole
    <3> QED
      BY <2>4, <3>1, <3>2
  <2> QED
    BY <2>3, <2>5 DEF Whole
<1>14. Sound(i, v)
  BY <1>4, <1>5, <1>12, <1>13 DEF Sound
<1>15. i \in DOMAIN v.updates
  BY <1>9
<1> QED
  BY <1>7, <1>14, <1>15 DEF NodeSound

LEMMA ComputedIsSound ==
  ASSUME TreeOfNodes(nodes), LeavesWritten(nodes, written), CacheFits, KeptExact(cache, written)
  PROVE  NodeSound(1, Computed)
<1> PICK f : f = CHOOSE g : IsComputed(g)
  OBVIOUS
<1>1. IsComputed(f)
  BY ComputedExists
<1>2. \A r \in DOMAIN nodes : f[r] = NodeHash(nodes[r], f)
  BY <1>1 DEF IsComputed
<1>3. \A r \in DOMAIN nodes : nodes[r].depth \in Nat /\ nodes[r].depth <= Depth /\ Depth \in Nat
  BY NodeFacts, DepthPositive DEF TreeOfNodes
<1> DEFINE T == {n \in Nat : \A r \in DOMAIN nodes : Depth - nodes[r].depth < n => NodeSound(r, f[r])}
<1>4. 0 \in T
  <2>1. \A r \in DOMAIN nodes : ~(Depth - nodes[r].depth < 0)
    BY <1>3
  <2> QED
    BY <2>1
<1>5. ASSUME NEW n \in Nat, n \in T PROVE n + 1 \in T
  <2> SUFFICES ASSUME NEW r \in DOMAIN nodes, Depth - nodes[r].depth < n + 1 PROVE NodeSound(r, f[r])
    OBVIOUS
  <2>1. CASE nodes[r].depth = Depth
    <3>1. NodeSound(r, NodeHash(nodes[r], f))
      BY <2>1, LeafIsSound
    <3> QED
      BY <1>2, <3>1
  <2>2. CASE nodes[r].depth # Depth
    <3>1. nodes[r].depth < Depth
      BY <1>3, <2>2
    <3>2. ASSUME NEW d \in {0, 1}, nodes[r].child[d] # NoRef PROVE NodeSound(nodes[r].child[d], f[nodes[r].child[d]])
      <4>1. nodes[r].child[d] \in DOMAIN nodes /\ nodes[r].depth < nodes[nodes[r].child[d]].depth
        BY <3>2, LinkFacts
      <4>2. Depth - nodes[nodes[r].child[d]].depth < n
        BY <1>3, <4>1
      <4> QED
        BY <1>5, <4>1, <4>2
    <3>3. SideSound(r, 0, ChildHash(nodes[r], 0, f))
      BY <3>1, <3>2, SideIsSound
    <3>4. SideSound(r, 1, ChildHash(nodes[r], 1, f))
      BY <3>1, <3>2, SideIsSound
    <3> DEFINE v == NodeHash(nodes[r], f)
               left == ChildHash(nodes[r], 0, f)
               right == ChildHash(nodes[r], 1, f)
    <3>5. /\ v.hash = Compress(Depth - nodes[r].depth - 1, left.hash, right.hash)
          /\ v.updates = With(With(left.updates, right.updates), Single(nodes[r].index, v.hash))
      BY <2>2, NodeHashIs
    <3>6. SideSound(r, 0, left) /\ SideSound(r, 1, right) /\ f[r] = v
      BY <1>2, <3>3, <3>4
    <3> HIDE DEF v, left, right
    <3>7. NodeSound(r, v)
      BY <3>1, <3>5, <3>6, InnerIsSound
    <3> QED
      BY <3>6, <3>7
  <2> QED
    BY <2>1, <2>2
<1> HIDE DEF T
<1>6. Depth + 1 \in Nat /\ 1 \in DOMAIN nodes
  BY DepthPositive DEF TreeOfNodes, NodesTyped
<1>7. Depth + 1 \in T /\ Depth - nodes[1].depth < Depth + 1
  BY <1>3, <1>4, <1>5, <1>6, NatSetInduction
<1>8. NodeSound(1, f[1])
  BY <1>6, <1>7 DEF T
<1> QED
  BY <1>8, ComputedUnfold

----------------------------------------------------------------------------
\* The theorems about both trees

LEMMA ReadKeepsInv ==
  ASSUME ParInv, ReadRoot
  PROVE  ParInv'
<1> DEFINE v == Computed
           more == With(cache, v.updates)
<1>1. /\ written = items /\ TreeOfNodes(nodes) /\ LeavesWritten(nodes, written)
      /\ CacheFits /\ KeptExact(cache, written)
  BY DEF ParInv
<1>2. NodeSound(1, v)
  BY <1>1, ComputedIsSound
<1>3. nodes' = nodes /\ written' = written /\ items' = items /\ cache' = more
  BY DEF ReadRoot, ParRootHash
<1> HIDE DEF v
<1>4. nodes[1].index = 1 /\ 1 \in DOMAIN nodes
  BY <1>1 DEF TreeOfNodes, NodesTyped
<1>5. Sound(1, v)
  BY <1>2, <1>4 DEF NodeSound
<1>6. KeptExact(more, written)
  BY <1>1, <1>5, WithExact DEF Sound
<1>7. DOMAIN more = DOMAIN cache \cup DOMAIN v.updates
  BY WithAt
<1> HIDE DEF more
<1>8. CachedOnLinks(nodes, DOMAIN more)
  BY <1>1, <1>5, <1>7 DEF CacheFits, CachedOnLinks, Sound
<1>9. WholeLinks(nodes, DOMAIN more)
  <2>1. \A s \in DOMAIN nodes : IsAbove(1, nodes[s].index)
    BY <1>1, NodeFacts, RootIndex DEF TreeOfNodes
  <2>2. \A s \in DOMAIN nodes, d \in {0, 1} : nodes[s].child[d] # NoRef => Whole(s, d, DOMAIN more)
    BY <1>5, <1>7, <2>1 DEF Sound
  <2> QED
    BY <2>2 DEF WholeLinks, Whole
<1>10. CacheFits' <=> CachedOnLinks(nodes', DOMAIN cache') /\ WholeLinks(nodes', DOMAIN cache')
  BY DEF CacheFits
<1> QED
  BY <1>1, <1>3, <1>6, <1>8, <1>9, <1>10 DEF ParInv

LEMMA InitInv == Init => ParInv
<1> SUFFICES ASSUME Init PROVE ParInv
  OBVIOUS
<1> DEFINE root == Node(1, 0, NoRef, NoRef)
           ns == <<root>>
<1>1. items = <<>> /\ written = <<>> /\ nodes = ns /\ cache = <<>>
  BY DEF Init, SeqInit, ParInit
<1>2. 0 \in 0 .. Depth /\ 1 \in Indices /\ DepthOf(1) = 0
  BY RootIndex, DepthPositive
<1>3. /\ root \in NodeRecords /\ root.index = 1 /\ root.depth = 0
      /\ root.child[0] = NoRef /\ root.child[1] = NoRef
  <2>1. root \in NodeRecords
    BY <1>2 DEF Node, NodeRecords
  <2>2. /\ root.index = 1 /\ root.depth = 0 /\ root.child[0] = NoRef /\ root.child[1] = NoRef
    BY DEF Node
  <2> QED
    BY <2>1, <2>2
<1> HIDE DEF root
<1>4. ns \in NodeSeq /\ DOMAIN ns = {1} /\ ns[1] = root
  BY <1>3 DEF NodeSeq
<1> HIDE DEF ns
<1>5. /\ ns[1].index = 1 /\ ns[1].depth = 0 /\ \A dir \in {0, 1} : ns[1].child[dir] = NoRef
  BY <1>3, <1>4
<1>6. \A r \in DOMAIN ns : r = 1 /\ ns[r].index = 1 /\ ns[r].depth = 0
  BY <1>4, <1>5
<1>7. NodesTyped(ns)
  BY <1>2, <1>4, <1>5, <1>6 DEF NodesTyped
<1>8. LinksDown(ns)
  BY <1>4, <1>5 DEF LinksDown
<1>9. OneNodePerIndex(ns)
  BY <1>6 DEF OneNodePerIndex
<1>10. AllBelow(ns)
  <2> SUFFICES ASSUME NEW r \in DOMAIN ns, NEW s \in DOMAIN ns, NEW dir \in {0, 1},
                      IsAbove(2 * ns[r].index + dir, ns[s].index)
               PROVE  FALSE
    BY DEF AllBelow
  <2>1. IsAbove(2 * 1 + dir, 1)
    BY <1>6
  <2>2. DepthOf(1) < DepthOf(1)
    BY <1>2, <2>1, SideAbove, DepthPositive
  <2> QED
    BY <1>2, <2>2
<1>11. InnerSplit(ns)
  BY <1>6 DEF InnerSplit
<1>12. TreeOfNodes(ns)
  BY <1>7, <1>8, <1>9, <1>10, <1>11 DEF TreeOfNodes
<1>13. LeavesWritten(ns, <<>>)
  <2>1. \A r \in DOMAIN ns : ns[r].depth # Depth
    BY <1>6, DepthPositive
  <2>2. DOMAIN <<>> = {}
    OBVIOUS
  <2> QED
    BY <2>1, <2>2 DEF LeavesWritten
<1>14. CachedOnLinks(ns, {}) /\ WholeLinks(ns, {}) /\ DOMAIN <<>> = {}
  BY DEF CachedOnLinks, WholeLinks
<1>15. CacheFits
  BY <1>1, <1>14 DEF CacheFits
<1>16. KeptExact(<<>>, <<>>)
  BY <1>14 DEF KeptExact
<1> QED
  BY <1>1, <1>12, <1>13, <1>15, <1>16 DEF ParInv

LEMMA InvStays ==
  ASSUME ParInv, [Next]_vars
  PROVE  ParInv'
<1>1. ASSUME NEW index \in Index, NEW item \in Item, Insert(index, item) PROVE ParInv'
  BY <1>1, InsertKeepsInv DEF Insert, SeqInsert
<1>2. ASSUME NEW index \in Index, Delete(index) PROVE ParInv'
  BY <1>2, InsertKeepsInv DEF Delete, SeqDelete, SeqInsert
<1>3. ASSUME ReadRoot PROVE ParInv'
  BY <1>3, ReadKeepsInv
<1>4. ASSUME UNCHANGED vars PROVE ParInv'
  <2>1. nodes' = nodes /\ written' = written /\ items' = items /\ cache' = cache
    BY <1>4 DEF vars
  <2>2. CacheFits' <=> CachedOnLinks(nodes', DOMAIN cache') /\ WholeLinks(nodes', DOMAIN cache')
    BY DEF CacheFits
  <2> QED
    BY <2>1, <2>2 DEF ParInv, CacheFits
<1> QED
  BY <1>1, <1>2, <1>3, <1>4 DEF Next

\* The nodes of the parallel tree are, whatever was written in whatever order,
\* the compressed tree over the leaves that were written, and its cache holds
\* hashes of the present tree only, for whole links or for nothing of a link.
THEOREM ParallelTree == Spec => []ParInv
<1>1. Init => ParInv
  BY InitInv
<1>2. ParInv /\ [Next]_vars => ParInv'
  BY InvStays
<1> QED
  BY <1>1, <1>2, PTL DEF Spec

LEMMA InvCacheExact == ParInv => CacheExact
<1> SUFFICES ASSUME ParInv, NEW i \in DOMAIN cache
             PROVE  cache[i] = Reference(DepthOf(i), i - 2^DepthOf(i))
  BY DEF CacheExact
<1>1. cache[i] = RefOf(HashedOf(written), i)
  BY DEF ParInv, KeptExact
<1>2. HashedOf(written) = HashedItems
  BY HashedItemsAre DEF ParInv
<1> QED
  BY <1>1, <1>2 DEF RefOf, Reference

\* An insert removes from the cache every hash it makes stale, wherever its
\* walk ends: no hash of the cache is ever that of an earlier tree.
THEOREM CacheSafe == Spec => []CacheExact
BY ParallelTree, InvCacheExact, PTL

LEMMA InvRootsEqual == ParInv /\ StoredHashesExact => RootsEqual
<1> SUFFICES ASSUME ParInv, StoredHashesExact PROVE Computed.hash = RootHash
  BY DEF RootsEqual
<1>1. NodeSound(1, Computed)
  BY ComputedIsSound DEF ParInv
<1>2. nodes[1].index = 1
  BY DEF ParInv, TreeOfNodes, NodesTyped
<1>3. Computed.hash = RefOf(HashedOf(written), 1)
  BY <1>1, <1>2 DEF NodeSound, Sound, Hashed
<1>4. HashedOf(written) = HashedItems
  BY HashedItemsAre DEF ParInv
<1>5. DepthOf(1) = 0 /\ Depth - 0 = Depth /\ 1 - 2^0 = 0
  <2>1. 2^0 = 1
    BY PowerOfZero
  <2> QED
    BY <2>1, RootIndex, DepthPositive
<1>6. RefOf(HashedItems, 1) = Root(HashedItems)
  BY <1>5 DEF RefOf, Root
<1> QED
  BY <1>3, <1>4, <1>6, ExactRoot

\* The two implementations agree: after any writes, and any earlier
\* computations with what they left in the cache, the root hash the parallel
\* tree computes is that of the sequential one.
THEOREM RootsSafe == Spec => []RootsEqual
BY ParallelTree, StoredHashesSafe, InvRootsEqual, PTL

HashesTyped == DOMAIN hashes \subseteq (0 .. Depth) \X (0 .. 2^Depth - 1)

LEMMA StoredTyped ==
  ASSUME NEW index \in Positions(0), NEW item
  PROVE  DOMAIN StoredHashes(index, item) \subseteq (0 .. Depth) \X (0 .. 2^Depth - 1)
<1> SUFFICES ASSUME NEW level \in 0 .. Depth
             PROVE  index \div 2^(Depth - level) \in 0 .. 2^Depth - 1
  BY DEF StoredHashes
<1>1. Depth - level \in 0 .. Depth /\ Depth - level \in Nat /\ Depth - (Depth - level) = level
      /\ level \in Nat /\ Depth \in Nat /\ level <= Depth
  BY DepthPositive
<1>2. index \div 2^(Depth - level) \in Positions(Depth - level)
  BY <1>1, AboveLeaf DEF Above
<1>3. index \div 2^(Depth - level) \in 0 .. 2^level - 1
  BY <1>1, <1>2 DEF Positions
<1>4. 2^level <= 2^Depth /\ 2^level \in Nat /\ 2^Depth \in Nat
  BY <1>1, PowersGrow, PowerIsNat
<1> QED
  BY <1>3, <1>4

LEMMA HashesStayTyped ==
  ASSUME HashesTyped, [Next]_vars
  PROVE  HashesTyped'
<1>1. ASSUME NEW index \in Index, NEW item, SeqInsert(index, item) PROVE HashesTyped'
  <2>1. hashes' = With(hashes, StoredHashes(index, item))
    BY <1>1 DEF SeqInsert
  <2>2. DOMAIN hashes' = DOMAIN hashes \cup DOMAIN StoredHashes(index, item)
    BY <2>1, WithAt
  <2>3. DOMAIN StoredHashes(index, item) \subseteq (0 .. Depth) \X (0 .. 2^Depth - 1)
    BY IndexLeaf, StoredTyped
  <2> QED
    BY <2>2, <2>3 DEF HashesTyped
<1>2. ASSUME UNCHANGED hashes PROVE HashesTyped'
  BY <1>2 DEF HashesTyped
<1> QED
  BY <1>1, <1>2 DEF Next, Insert, Delete, SeqDelete, ReadRoot, vars

LEMMA InvTypeOK == ParInv /\ HashesTyped => TypeOK
<1> SUFFICES ASSUME ParInv, HashesTyped PROVE TypeOK
  OBVIOUS
<1>1. TreeOfNodes(nodes) /\ LeavesWritten(nodes, written) /\ CacheFits /\ written = items
  BY DEF ParInv
<1>2. DOMAIN items = DOMAIN written /\ DOMAIN items \subseteq Index
  BY <1>1 DEF LeavesWritten
<1>3. DOMAIN cache \subseteq 1 .. 2^(Depth + 1) - 1
  BY <1>1 DEF CacheFits, CachedOnLinks, Indices
<1>4. ASSUME NEW ref \in DOMAIN nodes
      PROVE  /\ nodes[ref].depth = DepthOf(nodes[ref].index)
             /\ \A dir \in {0, 1} : nodes[ref].child[dir] = NoRef => IsLeaf(ref) \/ ref = 1
             /\ \A dir \in {0, 1} : nodes[ref].child[dir] # NoRef => Below(ref, dir)
  <2>1. nodes[ref].depth = DepthOf(nodes[ref].index) /\ nodes[ref].index \in Indices
    BY <1>1, NodeFacts DEF TreeOfNodes
  <2>2. \A dir \in {0, 1} : nodes[ref].child[dir] = NoRef => IsLeaf(ref) \/ ref = 1
    BY <1>1 DEF TreeOfNodes, InnerSplit, IsLeaf
  <2>3. ASSUME NEW dir \in {0, 1}, nodes[ref].child[dir] # NoRef PROVE Below(ref, dir)
    <3> DEFINE child == nodes[nodes[ref].child[dir]]
    <3>1. /\ nodes[ref].depth < child.depth /\ nodes[ref].depth < Depth
          /\ IsAbove(2 * nodes[ref].index + dir, child.index)
      BY <1>1, <2>3, LinkFacts
    <3>2. DepthOf(2 * nodes[ref].index + dir) = nodes[ref].depth + 1
      BY <2>1, <3>1, SidesOf
    <3>3. Up(child.index, nodes[ref].depth + 1) = 2 * nodes[ref].index + dir
      BY <3>1, <3>2 DEF IsAbove
    <3>4. nodes[ref].depth \in Nat /\ child.depth \in Nat
      BY <1>1, <2>3, LinkFacts, NodeFacts, DepthPositive DEF TreeOfNodes
    <3> QED
      BY <3>1, <3>3, <3>4 DEF Below
  <2> QED
    BY <2>1, <2>2, <2>3
<1>5. ASSUME NEW i \in DOMAIN written
      PROVE  Cardinality({ref \in DOMAIN nodes : nodes[ref].index = LeafIndex(i)}) = 1
  <2> PICK ref \in DOMAIN nodes : nodes[ref].index = LeafIndex(i)
    BY <1>1 DEF LeavesWritten
  <2>1. {s \in DOMAIN nodes : nodes[s].index = LeafIndex(i)} = {ref}
    BY <1>1 DEF TreeOfNodes, OneNodePerIndex
  <2> QED
    BY <2>1, FS_Singleton
<1> QED
  BY <1>2, <1>3, <1>4, <1>5 DEF TypeOK, HashesTyped

\* The types of the maps, and the form of the compressed tree: its inner nodes
\* but the root have two children, each below its side of its parent, and each
\* item that was written has one leaf.
THEOREM TreesTypeSafe == Spec => []TypeOK
<1>1. Init => HashesTyped
  <2>1. DOMAIN <<>> = {}
    OBVIOUS
  <2> QED
    BY <2>1 DEF Init, SeqInit, HashesTyped
<1>2. HashesTyped /\ [Next]_vars => HashesTyped'
  BY HashesStayTyped
<1>3. Spec => []HashesTyped
  BY <1>1, <1>2, PTL DEF Spec
<1> QED
  BY <1>3, ParallelTree, InvTypeOK, PTL

=============================================================================
