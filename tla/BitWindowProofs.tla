-------------------------- MODULE BitWindowProofs --------------------------
(***************************************************************************)
(* Proofs about the window of cheque numbers, of any width: that of        *)
(* NumberWindow, as a set of places, and the one the circuit BitSet        *)
(* computes with field elements, which implements it as long as elements   *)
(* are decomposed below the order, as synthesis does.                      *)
(*                                                                         *)
(* The first parts are about numbers: division, sums and powers, the bits  *)
(* of a number, the part of it below a bit, and the field.  They give what *)
(* each constraint computes, so that a step of the circuit is one of the   *)
(* window.  The invariants of both say what the register stands for: the   *)
(* numbers redeemed that are not below the start.                          *)
(*                                                                         *)
(* Of LedgerLemmas only those on division, powers and induction are used.  *)
(***************************************************************************)
EXTENDS BitWindow, LedgerLemmas

VARIABLE register    \* that of module NumberWindow

\* Any window, of which Window is the one the circuit keeps.
Abstract == INSTANCE NumberWindow

----------------------------------------------------------------------------
\* Division and powers

\* A quotient and a remainder.
LEMMA RemainderOf ==
  ASSUME NEW k \in Nat, NEW b \in Nat \ {0}
  PROVE  k % b \in 0 .. b - 1 /\ k = b * (k \div b) + (k % b)
OBVIOUS

LEMMA RemainderUnique ==
  ASSUME NEW k \in Nat, NEW b \in Nat \ {0}, NEW q \in Nat, NEW r \in 0 .. b - 1, k = b * q + r
  PROVE  k % b = r /\ k \div b = q
OBVIOUS

\* A number below the modulus, and one that has passed it once.
LEMMA WrapsOnce ==
  ASSUME NEW m \in Nat \ {0}, NEW a \in 0 .. m - 1
  PROVE  a % m = a /\ (a + m) % m = a
<1>1. a = m * 0 + a /\ a + m = m * 1 + a /\ a \in Nat /\ a + m \in Nat
  OBVIOUS
<1> QED
  BY <1>1, RemainderUnique

\* Dividing twice is dividing by the product.
LEMMA DividedTwice ==
  ASSUME NEW k \in Nat, NEW b \in Nat \ {0}, NEW c \in Nat \ {0}
  PROVE  (k \div b) \div c = k \div (b * c)
<1> PICK x \in Nat : x = k \div b /\ b * x <= k /\ k < b * x + b
  BY DivisionOf
<1> PICK q \in Nat : q = x \div c /\ c * q <= x /\ x < c * q + c
  BY DivisionOf
<1>1. b * c \in Nat \ {0} /\ (b * c) * q = b * (c * q)
  OBVIOUS
<1>2. b * (c * q) <= b * x
  OBVIOUS
<1>3. b * (x + 1) <= b * (c * q + c)
  OBVIOUS
<1>4. b * (x + 1) = b * x + b /\ b * (c * q + c) = b * (c * q) + b * c
  OBVIOUS
<1>6. b * x \in Nat /\ b * (c * q) \in Nat /\ b * c \in Nat
  OBVIOUS
<1>5. (b * c) * q <= k /\ k < (b * c) * q + b * c
  BY <1>1, <1>2, <1>3, <1>4, <1>6
<1> QED
  BY <1>1, <1>5, DivisionUnique

LEMMA DividedHalf ==
  ASSUME NEW k \in Nat, NEW b \in Nat \ {0}
  PROVE  (k \div b) \div 2 = k \div (b * 2)
<1>1. 2 \in Nat \ {0}
  OBVIOUS
<1> QED
  BY <1>1, DividedTwice

LEMMA PowerOfSum ==
  ASSUME NEW m \in Nat, NEW n \in Nat
  PROVE  2^(m + n) = 2^m * 2^n
<1> DEFINE T == {k \in Nat : 2^(m + k) = 2^m * 2^k}
<1>1. 0 \in T
  <2>1. m + 0 = m /\ 2^m \in Nat
    BY PowerIsNat
  <2> QED
    BY <2>1, PowerOfZero
<1>2. ASSUME NEW k \in Nat, k \in T PROVE k + 1 \in T
  <2>1. m + k \in Nat /\ m + (k + 1) = (m + k) + 1
    OBVIOUS
  <2>2. 2^(m + (k + 1)) = 2 * 2^(m + k) /\ 2^(k + 1) = 2 * 2^k
    BY <2>1, PowerOfNext
  <2>3. 2^m \in Nat /\ 2^k \in Nat /\ 2^(m + k) = 2^m * 2^k
    BY <1>2, PowerIsNat
  <2>4. 2 * (2^m * 2^k) = 2^m * (2 * 2^k)
    BY <2>3
  <2> QED
    BY <2>2, <2>3, <2>4
<1> HIDE DEF T
<1>3. Nat \subseteq T
  BY <1>1, <1>2, NatSetInduction
<1> QED
  BY <1>3 DEF T

\* A higher place is worth more.
LEMMA PowersGrow ==
  ASSUME NEW m \in Nat, NEW n \in Nat, m <= n
  PROVE  2^m <= 2^n
<1> PICK k \in Nat : n = m + k
  <2>1. n - m \in Nat /\ n = m + (n - m)
    OBVIOUS
  <2> QED
    BY <2>1
<1>1. 2^n = 2^m * 2^k /\ 2^m \in Nat /\ 2^k \in Nat \ {0}
  BY PowerOfSum, PowerIsPositive
<1> QED
  BY <1>1

----------------------------------------------------------------------------
\* The bits of a number

Shift(a, i) == a \div 2^i

Bit(a, i) == Shift(a, i) % 2

LEMMA BitsAre ==
  ASSUME NEW a, NEW i
  PROVE  i \in Bits(a) <=> i \in 0 .. FieldBits - 1 /\ Bit(a, i) = 1
BY DEF Bits, Bit, Shift

\* What is left of a number shifted right by i places.
LEMMA ShiftIs ==
  ASSUME NEW a \in Nat, NEW i \in Nat
  PROVE  Shift(a, i) \in Nat /\ 2^i * Shift(a, i) <= a /\ a < 2^i * Shift(a, i) + 2^i
<1>1. 2^i \in Nat \ {0}
  BY PowerIsPositive
<1> QED
  BY <1>1, DivisionOf DEF Shift

LEMMA ShiftUnique ==
  ASSUME NEW a \in Nat, NEW i \in Nat, NEW q \in Nat, 2^i * q <= a, a < 2^i * q + 2^i
  PROVE  Shift(a, i) = q
<1>1. 2^i \in Nat \ {0}
  BY PowerIsPositive
<1> QED
  BY <1>1, DivisionUnique DEF Shift

\* Shifting twice.
LEMMA ShiftedTwice ==
  ASSUME NEW a \in Nat, NEW i \in Nat, NEW j \in Nat
  PROVE  Shift(Shift(a, i), j) = Shift(a, i + j)
<1>1. 2^i \in Nat \ {0} /\ 2^j \in Nat \ {0}
  BY PowerIsPositive
<1>2. (a \div 2^i) \div 2^j = a \div (2^i * 2^j)
  BY <1>1, DividedTwice
<1> QED
  BY <1>2, PowerOfSum DEF Shift

LEMMA ShiftedOnce ==
  ASSUME NEW a \in Nat, NEW i \in Nat
  PROVE  Shift(a, i) \div 2 = Shift(a, i + 1)
<1>1. 2^i \in Nat \ {0} /\ 2^(i + 1) = 2^i * 2
  BY PowerIsPositive, PowerOfNext
<1>2. (a \div 2^i) \div 2 = a \div (2^i * 2)
  BY <1>1, DividedHalf
<1> QED
  BY <1>1, <1>2 DEF Shift

\* Numbers that agree from a place on agree from every higher one on.
LEMMA ShiftedAlike ==
  ASSUME NEW a \in Nat, NEW b \in Nat, NEW m \in Nat, Shift(a, m) = Shift(b, m), NEW i \in Nat, m <= i
  PROVE  Shift(a, i) = Shift(b, i)
<1> DEFINE j == i - m
<1>1. j \in Nat /\ i = m + j
  OBVIOUS
<1> HIDE DEF j
<1>2. Shift(Shift(a, m), j) = Shift(a, m + j)
  BY <1>1, ShiftedTwice
<1>3. Shift(Shift(b, m), j) = Shift(b, m + j)
  BY <1>1, ShiftedTwice
<1> QED
  BY <1>1, <1>2, <1>3

\* All bits of a number below 2^n are below place n.
LEMMA ShiftedOut ==
  ASSUME NEW a \in Nat, NEW n \in Nat, a < 2^n, NEW i \in Nat, n <= i
  PROVE  Shift(a, i) = 0
<1>1. 2^n <= 2^i /\ 2^i \in Nat \ {0} /\ 2^n \in Nat
  BY PowersGrow, PowerIsPositive
<1>2. 2^i * 0 <= a /\ a < 2^i * 0 + 2^i
  BY <1>1
<1> QED
  BY <1>2, ShiftUnique

LEMMA ShiftedIn ==
  ASSUME NEW a \in Nat, NEW n \in Nat, Shift(a, n) = 0
  PROVE  a < 2^n
<1>1. 2^n \in Nat /\ a < 2^n * 0 + 2^n
  BY PowerIsNat, ShiftIs
<1> QED
  BY <1>1

\* A shift by one place more drops one bit.
LEMMA BitIsBit ==
  ASSUME NEW a \in Nat, NEW i \in Nat
  PROVE  Bit(a, i) \in {0, 1} /\ Shift(a, i) = 2 * Shift(a, i + 1) + Bit(a, i)
<1>1. Shift(a, i) \in Nat
  BY ShiftIs
<1> QED
  BY <1>1, ShiftedOnce, HalvesOf DEF Bit

LEMMA BitsBelow ==
  ASSUME NEW a \in Nat, NEW n \in Nat, a < 2^n
  PROVE  Bits(a) \subseteq 0 .. n - 1
<1>1. ASSUME NEW i \in Bits(a) PROVE i < n
  <2>1. i \in Nat /\ Bit(a, i) = 1
    BY BitsAre, CircuitConstants
  <2>2. ASSUME n <= i PROVE FALSE
    <3>1. Shift(a, i) = 0
      BY <2>1, <2>2, ShiftedOut
    <3>2. 0 % 2 = 0
      OBVIOUS
    <3> QED
      BY <2>1, <3>1, <3>2 DEF Bit
  <2> QED
    BY <2>1, <2>2
<1> QED
  BY <1>1, BitsAre

\* A number shifted by k places has the bits moved by k.
LEMMA BitShifted ==
  ASSUME NEW a \in Nat, NEW k \in Nat, NEW i \in Nat
  PROVE  Bit(Shift(a, k), i) = Bit(a, k + i)
BY ShiftedTwice DEF Bit

\* What adding a power of two does to the number above a place, at the place
\* and below it, if the bit is free.
LEMMA PowerAddedHere ==
  ASSUME NEW b \in Nat, NEW p \in Nat
  PROVE  Shift(b + 2^p, p) = Shift(b, p) + 1
<1>1. 2^p \in Nat /\ Shift(b, p) \in Nat /\ 2^p * Shift(b, p) <= b /\ b < 2^p * Shift(b, p) + 2^p
  BY PowerIsNat, ShiftIs
<1> DEFINE x == Shift(b, p)
           k == b + 2^p
<1>2. x \in Nat /\ x + 1 \in Nat /\ k \in Nat
  BY <1>1
<1>3. 2^p * (x + 1) <= k /\ k < 2^p * (x + 1) + 2^p
  BY <1>1
<1> HIDE DEF x, k
<1>4. Shift(k, p) = x + 1
  BY <1>2, <1>3, ShiftUnique
<1> QED
  BY <1>4 DEF x, k

\* Setting a bit that is 0 carries nothing: the bit is set, those above and
\* below it stay.
LEMMA PowerAddedAt ==
  ASSUME NEW b \in Nat, NEW p \in Nat, Bit(b, p) = 0
  PROVE  Bit(b + 2^p, p) = 1
<1>1. Shift(b, p) \in Nat
  BY ShiftIs
<1>2. Shift(b, p) % 2 = 0 => (Shift(b, p) + 1) % 2 = 1
  BY <1>1
<1> QED
  BY <1>2, PowerAddedHere DEF Bit

LEMMA PowerAddedAbove ==
  ASSUME NEW b \in Nat, NEW p \in Nat, Bit(b, p) = 0, NEW i \in Nat, p < i
  PROVE  Shift(b + 2^p, i) = Shift(b, i)
<1> DEFINE k == b + 2^p
           n == p + 1
<1>1. n \in Nat /\ n <= i /\ k \in Nat
  BY PowerIsNat
<1>2. Shift(b, p) = 2 * Shift(b, n) /\ Shift(b, n) \in Nat
  <2>1. Shift(b, p) = 2 * Shift(b, p + 1) + Bit(b, p)
    BY BitIsBit
  <2>2. Shift(b, n) \in Nat
    BY <1>1, ShiftIs
  <2> QED
    BY <2>1, <2>2
<1>3. Shift(k, p) = 2 * Shift(b, n) + 1
  BY <1>2, PowerAddedHere
<1>4. Shift(k, p) \div 2 = Shift(k, n)
  BY <1>1, ShiftedOnce
<1>5. \A c \in Nat : (2 * c + 1) \div 2 = c
  OBVIOUS
<1> HIDE DEF k, n
<1>6. Shift(k, n) = Shift(b, n)
  BY <1>2, <1>3, <1>4, <1>5
<1>7. Shift(k, i) = Shift(b, i)
  BY <1>1, <1>6, ShiftedAlike
<1> QED
  BY <1>7 DEF k

LEMMA PowerAddedBelow ==
  ASSUME NEW b \in Nat, NEW p \in Nat, NEW i \in Nat, i < p
  PROVE  Bit(b + 2^p, i) = Bit(b, i)
<1> DEFINE j == p - (i + 1)
           k == b + 2^p
           x == Shift(b, i)
           y == 2^j
           m == 2^i
<1>0. j \in Nat /\ j + 1 \in Nat /\ p = i + (j + 1)
  OBVIOUS
<1> HIDE DEF j
<1>1. 2^p = m * (2 * y)
  BY <1>0, PowerOfSum, PowerOfNext
<1>2. m \in Nat /\ y \in Nat /\ x \in Nat /\ m * x <= b /\ b < m * x + m
  BY <1>0, PowerIsNat, ShiftIs
<1>3. k = b + m * (2 * y)
  BY <1>1
<1>8. m * (x + 2 * y) = m * x + m * (2 * y) /\ m * x \in Nat /\ m * (2 * y) \in Nat
  BY <1>2
<1>4. x + 2 * y \in Nat /\ k \in Nat
  BY <1>2, <1>3, <1>8
<1> HIDE DEF x, y, k
<1>5. 2^i * (x + 2 * y) <= k /\ k < 2^i * (x + 2 * y) + 2^i
  BY <1>2, <1>3, <1>8
<1>6. Shift(k, i) = x + 2 * y
  BY <1>4, <1>5, ShiftUnique
<1>7. (x + 2 * y) % 2 = x % 2
  BY <1>2
<1> QED
  BY <1>6, <1>7 DEF Bit, x, k

\* Adding a free bit.
LEMMA BitAdded ==
  ASSUME NEW b \in Nat, NEW p \in 0 .. FieldBits - 1, p \notin Bits(b)
  PROVE  Bits(b + 2^p) = Bits(b) \cup {p}
<1>0. p \in Nat
  BY CircuitConstants
<1>1. p \in Nat /\ Bit(b, p) = 0
  BY <1>0, BitIsBit, BitsAre
<1>2. ASSUME NEW i \in 0 .. FieldBits - 1 PROVE i \in Bits(b + 2^p) <=> i \in Bits(b) \cup {p}
  <2>1. i \in Nat
    BY CircuitConstants
  <2>2. CASE i = p
    BY <1>1, <2>2, PowerAddedAt, BitsAre
  <2>3. CASE i < p
    BY <1>1, <2>1, <2>3, PowerAddedBelow, BitsAre
  <2>4. CASE p < i
    <3>1. Bit(b + 2^p, i) = Bit(b, i)
      BY <1>1, <2>1, <2>4, PowerAddedAbove DEF Bit
    <3> QED
      BY <2>4, <3>1, BitsAre, <1>1, <2>1
  <2> QED
    BY <1>1, <2>1, <2>2, <2>3, <2>4
<1> QED
  BY <1>2, BitsAre

\* Setting a bit of a register keeps it a register.
LEMMA SumBelow ==
  ASSUME NEW b \in Nat, NEW n \in Nat, b < 2^n, n <= FieldBits, NEW p \in 0 .. n - 1, p \notin Bits(b)
  PROVE  b + 2^p < 2^n
<1>1. p \in 0 .. FieldBits - 1 /\ p \in Nat /\ p < n
  BY CircuitConstants
<1>2. Bit(b, p) = 0
  BY <1>1, BitIsBit, BitsAre
<1>3. Shift(b, n) = 0
  BY ShiftedOut
<1>4. Shift(b + 2^p, n) = 0
  BY <1>1, <1>2, <1>3, PowerAddedAbove
<1>5. b + 2^p \in Nat
  BY <1>1, PowerIsNat
<1> QED
  BY <1>4, <1>5, ShiftedIn

----------------------------------------------------------------------------
\* The remainder that is taken away, and the halving

LEMMA NoBits == Bits(0) = {}
<1>1. 0 < 2^0 /\ 0 \in Nat
  BY PowerOfZero
<1>2. Bits(0) \subseteq 0 .. 0 - 1
  BY <1>1, BitsBelow
<1> QED
  BY <1>2

\* The mask of k ones has the first k places.
LEMMA BitsOfMask ==
  ASSUME NEW k \in 0 .. FieldBits
  PROVE  Bits(2^k - 1) = 0 .. k - 1
<1> DEFINE T == {n \in Nat : n <= FieldBits => Bits(2^n - 1) = 0 .. n - 1}
<1>1. 0 \in T
  <2>1. 2^0 - 1 = 0 /\ 0 .. 0 - 1 = {}
    BY PowerOfZero
  <2> QED
    BY <2>1, NoBits
<1>2. ASSUME NEW n \in Nat, n \in T PROVE n + 1 \in T
  <2>1. SUFFICES ASSUME n + 1 <= FieldBits PROVE Bits(2^(n + 1) - 1) = 0 .. (n + 1) - 1
    OBVIOUS
  <2> DEFINE b == 2^n - 1
  <2>2. 2^n \in Nat \ {0} /\ b \in Nat /\ b < 2^n /\ 2^(n + 1) - 1 = b + 2^n
    BY PowerIsPositive, PowerOfNext
  <2>3. n <= FieldBits /\ n \in 0 .. FieldBits - 1
    BY <2>1, CircuitConstants
  <2>4. Bits(b) = 0 .. n - 1
    BY <1>2, <2>3
  <2> HIDE DEF b
  <2>5. n \notin Bits(b)
    BY <2>4
  <2>6. Bits(b + 2^n) = Bits(b) \cup {n}
    BY <2>2, <2>3, <2>5, BitAdded
  <2>7. (0 .. n - 1) \cup {n} = 0 .. (n + 1) - 1
    OBVIOUS
  <2>8. Bits(2^(n + 1) - 1) = Bits(b + 2^n)
    BY <2>2
  <2> QED
    BY <2>4, <2>6, <2>7, <2>8
<1> HIDE DEF T
<1>3. Nat \subseteq T
  BY <1>1, <1>2, NatSetInduction
<1> QED
  BY <1>3, CircuitConstants DEF T

\* The last i bits of a number.
Low(a, i) == a % 2^i

\* A number is its higher places and what is below them.
LEMMA LowIs ==
  ASSUME NEW a \in Nat, NEW i \in Nat
  PROVE  Low(a, i) \in 0 .. 2^i - 1 /\ a = 2^i * Shift(a, i) + Low(a, i) /\ Low(a, i) <= a
<1>1. 2^i \in Nat \ {0}
  BY PowerIsPositive
<1>2. Low(a, i) \in 0 .. 2^i - 1 /\ a = 2^i * Shift(a, i) + Low(a, i)
  BY <1>1, RemainderOf DEF Low, Shift
<1>3. 2^i * Shift(a, i) \in Nat
  BY <1>1, ShiftIs
<1> QED
  BY <1>1, <1>2, <1>3

\* One place more of the lower part.
LEMMA LowGrows ==
  ASSUME NEW a \in Nat, NEW i \in Nat
  PROVE  Low(a, i + 1) = Low(a, i) + (IF Bit(a, i) = 1 THEN 2^i ELSE 0)
<1> DEFINE m == 2^i
           s == Shift(a, i + 1)
           r == Low(a, i)
           e == IF Bit(a, i) = 1 THEN m ELSE 0
<1>1. m \in Nat \ {0} /\ 2^(i + 1) = 2 * m
  BY PowerIsPositive, PowerOfNext
<1>2. r \in 0 .. m - 1 /\ a = m * Shift(a, i) + r
  BY LowIs
<1>3. Shift(a, i) = 2 * s + Bit(a, i) /\ Bit(a, i) \in {0, 1}
  BY BitIsBit
<1>4. s \in Nat
  BY ShiftIs
<1>5. m * Shift(a, i) = (2 * m) * s + e
  <2>1. CASE Bit(a, i) = 1
    <3>1. m * (2 * s + 1) = (2 * m) * s + m
      BY <1>1, <1>4
    <3> QED
      BY <2>1, <1>3, <3>1
  <2>2. CASE Bit(a, i) = 0
    <3>1. m * (2 * s + 0) = (2 * m) * s + 0
      BY <1>1, <1>4
    <3> QED
      BY <2>2, <1>3, <3>1
  <2> QED
    BY <1>3, <2>1, <2>2
<1>6. e \in {0, m}
  OBVIOUS
<1> HIDE DEF m, s, r, e
<1> DEFINE b == 2 * m
           q == e + r
<1>7. b \in Nat \ {0} /\ q \in 0 .. b - 1 /\ (2 * m) * s \in Nat
  BY <1>1, <1>2, <1>4, <1>6
<1>8. a = b * s + q
  BY <1>1, <1>2, <1>4, <1>5, <1>6, <1>7
<1>9. q = r + e
  BY <1>1, <1>2, <1>6
<1> HIDE DEF b, q
<1>10. a % b = q
  BY <1>4, <1>7, <1>8, RemainderUnique
<1>11. Low(a, i + 1) = a % b
  BY <1>1 DEF Low, b
<1> QED
  BY <1>9, <1>10, <1>11 DEF r, e, m

\* Sums below the order of the field are sums.
LEMMA PlusIsSum ==
  ASSUME NEW a \in Nat, NEW b \in Nat, a + b < Prime
  PROVE  Plus(a, b) = a + b
<1> DEFINE c == a + b
<1>1. Prime \in Nat \ {0} /\ c \in 0 .. Prime - 1
  BY CircuitConstants
<1> HIDE DEF c
<1>2. c % Prime = c
  BY <1>1, WrapsOnce
<1> QED
  BY <1>2 DEF Plus, c

\* A difference wraps around when it would be negative.
LEMMA MinusIsDifference ==
  ASSUME NEW a \in 0 .. Prime - 1, NEW b \in 0 .. Prime - 1
  PROVE  Minus(a, b) = IF b <= a THEN a - b ELSE a + Prime - b
<1>1. Prime \in Nat \ {0}
  BY CircuitConstants
<1>2. CASE b <= a
  <2> DEFINE c == a - b
  <2>1. c \in 0 .. Prime - 1 /\ a + Prime - b = c + Prime
    BY <1>1, <1>2
  <2> HIDE DEF c
  <2>2. (c + Prime) % Prime = c
    BY <1>1, <2>1, WrapsOnce
  <2> QED
    BY <1>2, <2>1, <2>2 DEF Minus, c
<1>3. CASE a < b
  <2> DEFINE c == a + Prime - b
  <2>1. c \in 0 .. Prime - 1
    BY <1>1, <1>3
  <2> HIDE DEF c
  <2>2. c % Prime = c
    BY <1>1, <2>1, WrapsOnce
  <2>3. ~(b <= a)
    BY <1>1, <1>3
  <2> QED
    BY <2>2, <2>3 DEF Minus, c
<1> QED
  BY <1>1, <1>2, <1>3

\* Times the inverse of 2, an even number is halved exactly.
LEMMA HalfOfTwice ==
  ASSUME NEW b \in Nat, 2 * b < Prime
  PROVE  Times(2 * b, HalfOfOne) = b
<1> DEFINE h == HalfOfOne
<1>1. Prime \in Nat \ {0} /\ Prime % 2 = 1
  BY CircuitConstants
<1>2. h \in Nat /\ 2 * h = Prime + 1
  BY <1>1 DEF HalfOfOne
<1> HIDE DEF h
<1>3. (2 * b) * h = b * (2 * h)
  BY <1>2
<1>4. b * (Prime + 1) = Prime * b + b
  BY <1>1
<1> DEFINE c == (2 * b) * h
<1>5. c \in Nat /\ c = Prime * b + b /\ b \in 0 .. Prime - 1
  BY <1>1, <1>2, <1>3, <1>4
<1> HIDE DEF c
<1>6. c % Prime = b
  BY <1>1, <1>5, RemainderUnique
<1> QED
  BY <1>6 DEF Times, c, h

PackedStep(f, i, places) == IF i = 0 THEN 0 ELSE Plus(f[i - 1], IF i - 1 \in places THEN 2^(i - 1) ELSE 0)

IsPacking(f, places) == f = [i \in 0 .. FieldBits |-> PackedStep(f, i, places)]

\* The recursive functions of the circuit, so that they can be unfolded.
LEMMA PackedUnfold ==
  ASSUME NEW places
  PROVE  Packed(places) = (CHOOSE f : IsPacking(f, places))[FieldBits]
BY DEF Packed, IsPacking, PackedStep

\* The bits below a place, packed again, are the remainder.
LEMMA PackedLow ==
  ASSUME NEW a \in 0 .. Prime - 1, NEW k \in 0 .. FieldBits, NEW places, places = Bits(a) \cap (0 .. k - 1)
  PROVE  Packed(places) = Low(a, k)
<1> DEFINE upTo(i) == IF i < k THEN i ELSE k
           g == [i \in 0 .. FieldBits |-> Low(a, upTo(i))]
<1>1. a \in Nat /\ FieldBits \in Nat /\ k \in Nat /\ Prime \in Nat
  BY CircuitConstants
<1>2. ASSUME NEW f, NEW i \in 0 .. FieldBits, i > 0 => f[i - 1] = Low(a, upTo(i - 1))
      PROVE  PackedStep(f, i, places) = Low(a, upTo(i))
  <2>1. CASE i = 0
    <3>1. upTo(i) = 0
      BY <1>1, <2>1
    <3>2. Low(a, 0) \in 0 .. 2^0 - 1
      BY <1>1, LowIs
    <3>3. Low(a, 0) = 0
      BY <3>2, PowerOfZero
    <3> QED
      BY <2>1, <3>1, <3>3 DEF PackedStep
  <2>2. CASE i # 0
    <3> DEFINE j == i - 1
    <3>1. j \in Nat /\ i = j + 1 /\ j < FieldBits /\ j \in 0 .. FieldBits - 1 /\ i > 0
      BY <1>1, <2>2
    <3>2. PackedStep(f, i, places) = Plus(Low(a, upTo(j)), IF j \in places THEN 2^j ELSE 0)
      BY <1>2, <2>2, <3>1 DEF PackedStep
    <3> HIDE DEF j
    <3>3. CASE j < k
      <4>1. upTo(j) = j /\ upTo(i) = j + 1
        BY <1>1, <3>1, <3>3
      <4>2. j \in places <=> Bit(a, j) = 1
        BY <3>1, <3>3, BitsAre
      <4>3. Low(a, j + 1) = Low(a, j) + (IF j \in places THEN 2^j ELSE 0)
        BY <1>1, <3>1, <4>2, LowGrows
      <4> DEFINE x == Low(a, j)
                 y == IF j \in places THEN 2^j ELSE 0
                 z == Low(a, j + 1)
      <4>4. x \in Nat /\ y \in Nat
        BY <1>1, <3>1, LowIs, PowerIsNat
      <4>5. z <= a /\ z = x + y
        <5>1. j + 1 \in Nat
          BY <3>1
        <5> QED
          BY <1>1, <4>3, <5>1, LowIs
      <4> HIDE DEF x, y, z
      <4>6. Plus(x, y) = z
        <5>1. x + y < Prime
          BY <1>1, <4>4, <4>5
        <5> QED
          BY <4>4, <4>5, <5>1, PlusIsSum
      <4> QED
        BY <3>2, <4>1, <4>6 DEF x, y, z
    <3>4. CASE k <= j
      <4>1. upTo(j) = k /\ upTo(i) = k
        BY <1>1, <3>1, <3>4
      <4>2. j \notin places
        BY <1>1, <3>1, <3>4
      <4> DEFINE x == Low(a, k)
      <4>3. x \in Nat /\ x <= a
        BY <1>1, LowIs, PowerIsNat
      <4> HIDE DEF x
      <4>4. Plus(x, 0) = x
        <5>1. x + 0 < Prime /\ x + 0 = x
          BY <1>1, <4>3
        <5> QED
          BY <4>3, <5>1, PlusIsSum
      <4> QED
        BY <3>2, <4>1, <4>2, <4>4 DEF x
    <3> QED
      BY <1>1, <3>1, <3>3, <3>4
  <2> QED
    BY <2>1, <2>2
<1>3. IsPacking(g, places)
  <2>1. g = [i \in 0 .. FieldBits |-> g[i]] /\ \A i \in 0 .. FieldBits : g[i] = Low(a, upTo(i))
    OBVIOUS
  <2> HIDE DEF g, upTo
  <2>2. ASSUME NEW i \in 0 .. FieldBits PROVE g[i] = PackedStep(g, i, places)
    <3>1. i > 0 => i - 1 \in 0 .. FieldBits
      BY <1>1
    <3> QED
      BY <1>2, <2>1, <3>1
  <2>3. g = [i \in 0 .. FieldBits |-> PackedStep(g, i, places)]
    BY <2>1, <2>2
  <2> QED
    BY <2>3 DEF IsPacking
<1> HIDE DEF g
<1> DEFINE f == CHOOSE h : IsPacking(h, places)
<1>4. IsPacking(f, places)
  BY <1>3
<1> HIDE DEF f
<1>5. \A i \in 0 .. FieldBits : f[i] = PackedStep(f, i, places)
  BY <1>4 DEF IsPacking
<1> DEFINE T == {n \in Nat : n <= FieldBits => f[n] = Low(a, upTo(n))}
<1>6. 0 \in T
  <2>1. 0 \in 0 .. FieldBits /\ ~(0 > 0)
    BY <1>1
  <2>2. PackedStep(f, 0, places) = Low(a, upTo(0))
    BY <1>2, <2>1
  <2> QED
    BY <1>5, <2>1, <2>2
<1>7. ASSUME NEW n \in Nat, n \in T PROVE n + 1 \in T
  <2>1. SUFFICES ASSUME n + 1 <= FieldBits PROVE f[n + 1] = Low(a, upTo(n + 1))
    OBVIOUS
  <2> DEFINE i == n + 1
  <2>2. i \in 0 .. FieldBits /\ i - 1 = n /\ n <= FieldBits
    BY <1>1, <2>1
  <2>3. f[n] = Low(a, upTo(n))
    BY <1>7, <2>2
  <2> HIDE DEF i, upTo
  <2>4. PackedStep(f, i, places) = Low(a, upTo(i))
    BY <1>2, <2>2, <2>3
  <2> QED
    BY <1>5, <2>2, <2>4 DEF i
<1> HIDE DEF T
<1>8. Nat \subseteq T
  BY <1>6, <1>7, NatSetInduction
<1>9. f[FieldBits] = Low(a, upTo(FieldBits))
  BY <1>1, <1>8 DEF T
<1>10. upTo(FieldBits) = k
  BY <1>1
<1> QED
  BY <1>9, <1>10, PackedUnfold DEF f

HalvedStep(f, i, a) == IF i = 0 THEN a ELSE Times(f[i - 1], HalfOfOne)

IsHalving(f, a, times) == f = [i \in 0 .. times |-> HalvedStep(f, i, a)]

LEMMA HalvedUnfold ==
  ASSUME NEW a, NEW times
  PROVE  Halved(a, times) = (CHOOSE f : IsHalving(f, a, times))[times]
BY DEF Halved, IsHalving, HalvedStep

\* Halving in the field is halving as long as nothing is left over.
LEMMA HalvedExactly ==
  ASSUME NEW q \in Nat, NEW k \in Nat, NEW a, a = 2^k * q, a < Prime
  PROVE  Halved(a, k) = q
<1> DEFINE v(i) == 2^(k - i) * q
           g == [i \in 0 .. k |-> v(i)]
<1>1. Prime \in Nat
  BY CircuitConstants
<1>2. ASSUME NEW f, NEW i \in 0 .. k, i > 0 => f[i - 1] = v(i - 1)
      PROVE  HalvedStep(f, i, a) = v(i)
  <2>1. CASE i = 0
    <3>1. k - i = k
      BY <2>1
    <3> QED
      BY <2>1, <3>1 DEF HalvedStep
  <2>2. CASE i # 0
    <3> DEFINE j == k - i
    <3>1. j \in Nat /\ k - (i - 1) = j + 1 /\ i > 0 /\ j + 1 \in Nat /\ j + 1 <= k
      BY <2>2
    <3> HIDE DEF j
    <3>2. 2^(j + 1) = 2 * 2^j /\ 2^j \in Nat
      BY <3>1, PowerOfNext, PowerIsNat
    <3> DEFINE b == 2^j * q
    <3>3. b \in Nat /\ 2^(j + 1) * q = 2 * b
      BY <3>2
    <3>4. 2^(j + 1) * q <= 2^k * q
      <4>1. 2^(j + 1) <= 2^k /\ 2^(j + 1) \in Nat /\ 2^k \in Nat
        BY <3>1, PowersGrow, PowerIsNat
      <4> QED
        BY <4>1
    <3>6. f[i - 1] = 2^(j + 1) * q
      BY <1>2, <3>1
    <3>7. 2^k * q \in Nat
      BY PowerIsNat
    <3> HIDE DEF b
    <3>5. 2 * b < Prime
      BY <1>1, <3>3, <3>4, <3>7
    <3>8. Times(2 * b, HalfOfOne) = b
      BY <3>3, <3>5, HalfOfTwice
    <3>9. HalvedStep(f, i, a) = Times(2 * b, HalfOfOne)
      BY <2>2, <3>3, <3>6 DEF HalvedStep
    <3> QED
      BY <3>8, <3>9 DEF b, j
  <2> QED
    BY <2>1, <2>2
<1>3. IsHalving(g, a, k)
  <2>1. g = [i \in 0 .. k |-> g[i]] /\ \A i \in 0 .. k : g[i] = v(i)
    OBVIOUS
  <2> HIDE DEF g, v
  <2>2. ASSUME NEW i \in 0 .. k PROVE g[i] = HalvedStep(g, i, a)
    <3>1. i > 0 => i - 1 \in 0 .. k
      OBVIOUS
    <3> QED
      BY <1>2, <2>1, <3>1
  <2>3. g = [i \in 0 .. k |-> HalvedStep(g, i, a)]
    BY <2>1, <2>2
  <2> QED
    BY <2>3 DEF IsHalving
<1> HIDE DEF g
<1> DEFINE f == CHOOSE h : IsHalving(h, a, k)
<1>4. IsHalving(f, a, k)
  BY <1>3
<1> HIDE DEF f
<1>5. \A i \in 0 .. k : f[i] = HalvedStep(f, i, a)
  BY <1>4 DEF IsHalving
<1> DEFINE T == {n \in Nat : n <= k => f[n] = v(n)}
<1>6. 0 \in T
  <2>1. 0 \in 0 .. k /\ ~(0 > 0)
    OBVIOUS
  <2>2. HalvedStep(f, 0, a) = v(0)
    BY <1>2, <2>1
  <2> QED
    BY <1>5, <2>1, <2>2
<1>7. ASSUME NEW n \in Nat, n \in T PROVE n + 1 \in T
  <2>1. SUFFICES ASSUME n + 1 <= k PROVE f[n + 1] = v(n + 1)
    OBVIOUS
  <2> DEFINE i == n + 1
  <2>2. i \in 0 .. k /\ i - 1 = n /\ n <= k
    BY <2>1
  <2>3. f[n] = v(n)
    BY <1>7, <2>2
  <2> HIDE DEF i, v
  <2>4. HalvedStep(f, i, a) = v(i)
    BY <1>2, <2>2, <2>3
  <2> QED
    BY <1>5, <2>2, <2>4 DEF i
<1> HIDE DEF T
<1>8. Nat \subseteq T
  BY <1>6, <1>7, NatSetInduction
<1> HIDE DEF v
<1>9. f[k] = v(k)
  BY <1>8 DEF T
<1> USE DEF v
<1>10. v(k) = q
  <2>1. k - k = 0 /\ 1 * q = q
    OBVIOUS
  <2> QED
    BY <2>1, PowerOfZero
<1> QED
  BY <1>9, <1>10, HalvedUnfold DEF f

\* As many halvings as the mask has ones.
LEMMA PlacesOfMask ==
  ASSUME NEW k \in Nat
  PROVE  Cardinality(0 .. k - 1) = k
<1>1. 0 \in Int /\ k - 1 \in Int
  OBVIOUS
<1>2. Cardinality(0 .. k - 1) = IF 0 > k - 1 THEN 0 ELSE (k - 1) - 0 + 1
  BY <1>1, FS_Interval
<1> QED
  BY <1>2

----------------------------------------------------------------------------
\* The constraints, in the numbers of the window

\* What the assumptions say of the sizes.
LEMMA Sizes ==
  /\ Width \in Nat \ {0} /\ Stride \in Nat /\ Stride <= Width /\ Width < FieldBits /\ FieldBits \in Nat
  /\ StartLimit \in Nat \ {0} /\ StartLimit = 2^StartBits /\ 2^DistanceBits = 2 * Width
  /\ StartLimit + 2 * Width < Prime /\ Prime \in Nat \ {0} /\ 2^Width < Prime
<1>1. 2^Width \in Nat \ {0} /\ 2^FieldBits \in Nat \ {0}
  BY WindowConstants, CircuitConstants, PowerIsPositive
<1>2. Width < FieldBits
  <2>1. ASSUME FieldBits <= Width PROVE FALSE
    <3>1. 2^FieldBits <= 2^Width
      BY <2>1, WindowConstants, CircuitConstants, PowersGrow
    <3> QED
      BY <1>1, <3>1, CircuitConstants
  <2> QED
    BY <2>1, WindowConstants, CircuitConstants
<1> QED
  BY <1>1, <1>2, WindowConstants, CircuitConstants

\* Only numbers within reach have a distance that the constraints admit: for
\* those below the start the difference wraps around to the end of the field.
LEMMA DistanceIs ==
  ASSUME TypeOK, NEW number \in Field
  PROVE  /\ number \in Nat /\ start \in Nat /\ start < StartLimit
         /\ (FitsBits(Distance(number), DistanceBits) /\ ValidDistance(Distance(number)))
            <=> number - start \in 0 .. Width + Stride - 1
         /\ number - start \in 0 .. Width + Stride - 1 => Distance(number) = number - start
<1>1. number \in 0 .. Prime - 1 /\ start \in 0 .. Prime - 1 /\ start \in 0 .. StartLimit - 1
  BY Sizes DEF TypeOK, Field
<1>2. Distance(number) = IF start <= number THEN number - start ELSE number + Prime - start
  BY <1>1, MinusIsDifference DEF Distance
<1>3. number \in Nat /\ start \in Nat /\ start < StartLimit
  BY <1>1, Sizes
<1>4. CASE start <= number
  <2>1. Distance(number) = number - start /\ number - start \in Nat
    BY <1>2, <1>3, <1>4
  <2> QED
    BY <1>3, <2>1, Sizes DEF FitsBits, ValidDistance
<1>5. CASE number < start
  <2>1. Distance(number) = number + Prime - start
    BY <1>2, <1>3, <1>5
  <2>2. number + Prime - start > 2 * Width
    BY <1>3, Sizes
  <2>3. ~(number - start \in 0 .. Width + Stride - 1)
    BY <1>3, <1>5, Sizes
  <2>4. ~FitsBits(Distance(number), DistanceBits)
    BY <1>3, <2>1, <2>2, Sizes DEF FitsBits
  <2> QED
    BY <1>3, <2>3, <2>4
<1> QED
  BY <1>3, <1>4, <1>5

\* The lookups are what the window moves by, the mask of what drops out and
\* the bit of the number's place.
LEMMA LookupsAre ==
  ASSUME NEW d \in 0 .. Width + Stride - 1, NEW k, k = Window!Advance(d)
  PROVE  /\ k \in 0 .. Width /\ d - k \in 0 .. Width - 1
         /\ StartAdjustment(d) = k /\ ShiftMask(d) = 2^k - 1 /\ BitPosition(d) = 2^(d - k)
<1>1. d \in Nat /\ Width \in Nat \ {0} /\ Stride \in Nat /\ Stride <= Width /\ d < Width + Stride
  BY Sizes
<1>2. CASE d < Width
  <2>1. k = 0 /\ d - k = d
    BY <1>1, <1>2 DEF Window!Advance
  <2>2. 2^k - 1 = 0
    BY <2>1, PowerOfZero
  <2> QED
    BY <1>1, <1>2, <2>1, <2>2 DEF StartAdjustment, ShiftMask, BitPosition
<1>3. CASE Width <= d
  <2>1. k = d + 1 - Width /\ ~(d < Width)
    BY <1>1, <1>3 DEF Window!Advance
  <2>2. d - k = Width - 1
    BY <1>1, <2>1
  <2>3. k \in 0 .. Width
    BY <1>1, <1>3, <2>1
  <2>4. BitPosition(d) = 2^(d - k)
    BY <2>1, <2>2 DEF BitPosition
  <2>5. ShiftMask(d) = 2^k - 1 /\ StartAdjustment(d) = k
    BY <2>1 DEF StartAdjustment, ShiftMask
  <2> QED
    BY <1>1, <2>2, <2>3, <2>4, <2>5
<1> QED
  BY <1>1, <1>2, <1>3

\* The bits of what is left are the places that are left.
LEMMA BitsMoved ==
  ASSUME NEW a \in Nat, a < 2^FieldBits, NEW k \in Nat
  PROVE  Bits(Shift(a, k)) = Window!Moved(Bits(a), k)
<1>0. FieldBits \in Nat
  BY Sizes
<1>1. ASSUME NEW p \in Bits(Shift(a, k)) PROVE p \in Window!Moved(Bits(a), k)
  <2>1. p \in Nat /\ Bit(a, k + p) = 1
    BY <1>0, BitsAre, BitShifted
  <2> DEFINE q == k + p
  <2>2. q \in Nat /\ q >= k /\ p = q - k
    BY <2>1
  <2>3. Bit(a, q) = 1
    BY <2>1
  <2> HIDE DEF q
  <2>4. q < FieldBits
    <3>1. ASSUME FieldBits <= q PROVE FALSE
      <4>1. Shift(a, q) = 0
        BY <1>0, <2>2, <3>1, ShiftedOut
      <4>2. 0 % 2 = 0
        OBVIOUS
      <4> QED
        BY <2>3, <4>1, <4>2 DEF Bit
    <3> QED
      BY <1>0, <2>2, <3>1
  <2>5. q \in Bits(a)
    BY <1>0, <2>2, <2>3, <2>4, BitsAre
  <2> QED
    BY <2>2, <2>5 DEF Window!Moved
<1>2. ASSUME NEW p \in Window!Moved(Bits(a), k) PROVE p \in Bits(Shift(a, k))
  <2>1. PICK q \in Bits(a) : q >= k /\ p = q - k
    BY DEF Window!Moved
  <2>2. q \in 0 .. FieldBits - 1 /\ Bit(a, q) = 1
    BY BitsAre
  <2>3. p \in 0 .. FieldBits - 1 /\ p \in Nat /\ q = k + p
    BY <1>0, <2>1, <2>2
  <2>4. Bit(Shift(a, k), p) = 1
    BY <2>2, <2>3, BitShifted
  <2> QED
    BY <2>3, <2>4, BitsAre
<1> QED
  BY <1>1, <1>2

\* Without its remainder the register is halved to the bits that stay.
LEMMA RegisterShifted ==
  ASSUME TypeOK, NEW number \in Field, number - start \in 0 .. Width + Stride - 1,
         NEW k, k = Window!Advance(number - start)
  PROVE  ShiftedRegister(bits, ShiftMask(Distance(number))) = Shift(bits, k)
<1> DEFINE d == number - start
<1>1. Distance(number) = d
  BY DistanceIs
<1>2. k \in 0 .. Width /\ ShiftMask(d) = 2^k - 1
  BY LookupsAre
<1> HIDE DEF d
<1>3. k \in Nat /\ k \in 0 .. FieldBits
  BY <1>2, Sizes
<1> PICK mask : mask = ShiftMask(Distance(number))
  OBVIOUS
<1>4. Bits(mask) = 0 .. k - 1
  BY <1>1, <1>2, <1>3, BitsOfMask
<1>5. Cardinality(Bits(mask)) = k
  BY <1>3, <1>4, PlacesOfMask
<1>6. bits \in Nat /\ bits \in 0 .. Prime - 1
  BY Sizes DEF TypeOK
<1>7. Packed(Bits(bits) \cap Bits(mask)) = Low(bits, k)
  BY <1>3, <1>4, <1>6, PackedLow
<1>8. Low(bits, k) \in 0 .. Prime - 1 /\ Low(bits, k) <= bits
  <2>1. Low(bits, k) \in 0 .. 2^k - 1 /\ Low(bits, k) <= bits
    BY <1>3, <1>6, LowIs
  <2>2. 2^k \in Nat
    BY <1>3, PowerIsNat
  <2> QED
    BY <1>6, <2>1, <2>2, Sizes
<1> PICK a : a = Minus(bits, Packed(Bits(bits) \cap Bits(mask)))
  OBVIOUS
<1>9. a = bits - Low(bits, k)
  BY <1>6, <1>7, <1>8, MinusIsDifference
<1>10. bits = 2^k * Shift(bits, k) + Low(bits, k) /\ Shift(bits, k) \in Nat /\ 2^k \in Nat
  BY <1>3, <1>6, LowIs, ShiftIs, PowerIsNat
<1> DEFINE q == Shift(bits, k)
<1>11. 2^k * q \in Nat
  BY <1>10
<1>12. a = 2^k * q /\ a < Prime /\ q \in Nat
  BY <1>6, <1>8, <1>9, <1>10, <1>11, Sizes
<1> HIDE DEF q
<1>13. Halved(a, k) = q
  BY <1>3, <1>12, HalvedExactly
<1> QED
  BY <1>5, <1>13 DEF ShiftedRegister, q

\* What the constraints ask besides the bit that is looked up: they are about
\* numbers, not about their bits.
LEMMA SatisfiedParts ==
  ASSUME TypeOK, NEW number \in Field, NEW w,
         NEW d, d = number - start, NEW k, k = Window!Advance(d)
  PROVE  Satisfied(number, w) <=>
           d \in 0 .. Width + Stride - 1 /\ BitNotSet(w) /\ start + k < StartLimit
<1>1. FitsBits(bits, Width) /\ FitsBits(start, StartBits)
  <2>1. 2^Width \in Nat
    BY Sizes, PowerIsNat
  <2> QED
    BY <2>1, Sizes DEF TypeOK, FitsBits
<1>2. Satisfied(number, w) => d \in 0 .. Width + Stride - 1
  BY DistanceIs DEF Satisfied
<1>3. ASSUME d \in 0 .. Width + Stride - 1
      PROVE  Satisfied(number, w) <=> BitNotSet(w) /\ start + k < StartLimit
  <2>1. /\ Distance(number) = d /\ FitsBits(d, DistanceBits) /\ ValidDistance(d)
        /\ start \in Nat /\ start < StartLimit
    BY <1>3, DistanceIs
  <2>2. /\ k \in 0 .. Width /\ d - k \in 0 .. Width - 1
        /\ StartAdjustment(d) = k /\ BitPosition(d) = 2^(d - k)
    BY <1>3, LookupsAre
  <2>3. NewStart(number) = start + k
    <3>1. k \in Nat /\ start + k < Prime
      BY <2>1, <2>2, Sizes
    <3>2. Plus(start, k) = start + k
      BY <2>1, <3>1, PlusIsSum
    <3> QED
      BY <2>1, <2>2, <3>2 DEF NewStart
  <2>4. FitsBits(NewStart(number), StartBits) <=> start + k < StartLimit
    BY <2>3, Sizes DEF FitsBits
  <2> QED
    BY <1>1, <2>1, <2>4 DEF Satisfied
<1> QED
  BY <1>2, <1>3

\* In the assignment of synthesis it is the bit of the number's place.
LEMMA BitSynthesised ==
  ASSUME TypeOK, NEW number \in Field, NEW d, d = number - start, NEW k, k = Window!Advance(d),
         d \in 0 .. Width + Stride - 1
  PROVE  BitNotSet(Synthesised(number)) <=> d - k \notin Window!Moved(Bits(bits), k)
<1> PICK w : w = Synthesised(number)
  OBVIOUS
<1>1. /\ w.shifted = ShiftedRegister(bits, ShiftMask(Distance(number)))
      /\ w.position = BitPosition(Distance(number))
  BY DEF Synthesised
<1>2. Distance(number) = d
  BY DistanceIs
<1>3. k \in 0 .. Width /\ d - k \in 0 .. Width - 1 /\ BitPosition(d) = 2^(d - k)
  BY LookupsAre
<1>4. Bits(w.shifted) = Window!Moved(Bits(bits), k)
  <2>1. bits \in Nat /\ bits < 2^FieldBits /\ k \in Nat
    BY <1>3, Sizes, CircuitConstants DEF TypeOK
  <2>2. w.shifted = Shift(bits, k)
    BY <1>1, RegisterShifted
  <2> QED
    BY <2>1, <2>2, BitsMoved
<1>5. Bits(w.position) = {d - k}
  <2> DEFINE p == d - k
  <2>1. p \in 0 .. FieldBits - 1 /\ p \in Nat
    BY <1>3, Sizes
  <2>2. Bits(0 + 2^p) = Bits(0) \cup {p}
    BY <2>1, NoBits, BitAdded
  <2>3. 0 + 2^p = 2^p
    BY <2>1, PowerIsNat
  <2> QED
    BY <1>1, <1>2, <1>3, <2>2, <2>3, NoBits
<1> QED
  BY <1>4, <1>5 DEF BitNotSet

\* With it the constraints hold for exactly what the window takes.
LEMMA SatisfiedIs ==
  ASSUME TypeOK, NEW number \in Field, NEW d, d = number - start, NEW k, k = Window!Advance(d)
  PROVE  Satisfied(number, Synthesised(number)) <=>
           /\ d \in 0 .. Width + Stride - 1
           /\ d - k \notin Window!Moved(Bits(bits), k)
           /\ start + k < StartLimit
BY SatisfiedParts, BitSynthesised

\* Below the order an element has one decomposition.
LEMMA OneBelowOrder ==
  ASSUME NEW a, NEW n \in Decompositions(a), n \in Field
  PROVE  n = a
<1>1. n \in 0 .. Prime - 1 /\ n % Prime = a /\ Prime \in Nat \ {0}
  BY Sizes DEF Decompositions, Field
<1> QED
  BY <1>1, WrapsOnce

LEMMA SynthesisBelowOrder ==
  ASSUME NEW number, NEW w \in Witnesses(number), BelowOrder(w)
  PROVE  w = Synthesised(number)
<1> PICK mask : mask = ShiftMask(Distance(number))
  OBVIOUS
<1>1. /\ w = [register |-> w.register, mask |-> w.mask, shifted |-> w.shifted, position |-> w.position]
      /\ w.register \in Decompositions(bits) /\ w.mask \in Decompositions(mask)
      /\ w.position \in Decompositions(BitPosition(Distance(number)))
      /\ w.shifted \in Decompositions(ShiftedRegister(w.register, w.mask))
  BY DEF Witnesses
<1>2. w.register \in Field /\ w.mask \in Field /\ w.shifted \in Field /\ w.position \in Field
  BY DEF BelowOrder
<1>3. w.register = bits /\ w.mask = mask /\ w.position = BitPosition(Distance(number))
  BY <1>1, <1>2, OneBelowOrder
<1>4. w.shifted = ShiftedRegister(bits, mask)
  BY <1>1, <1>2, <1>3, OneBelowOrder
<1> QED
  BY <1>1, <1>3, <1>4 DEF Synthesised

\* A step of the circuit, as it is synthesised, is a step of the window.
LEMMA RedeemsInWindow ==
  ASSUME TypeOK, NEW number \in Field, BitSet(number)
  PROVE  TypeOK' /\ number \in Window!Numbers /\ Window!Redeem(number)
<1> DEFINE d == number - start
           k == Window!Advance(d)
           p == d - k
           b == Shift(bits, k)
<1>1. /\ d \in 0 .. Width + Stride - 1 /\ p \notin Window!Moved(Bits(bits), k)
      /\ start + k < StartLimit
  BY SatisfiedIs DEF BitSet
<1>2. Distance(number) = d /\ number \in Nat /\ start \in Nat
  BY <1>1, DistanceIs
<1>3. /\ k \in 0 .. Width /\ p \in 0 .. Width - 1
      /\ StartAdjustment(d) = k /\ BitPosition(d) = 2^p
  BY <1>1, LookupsAre
<1>4. number = start + d /\ start \in 0 .. StartLimit - 1
  BY <1>2, Sizes DEF TypeOK
<1>5. ShiftedRegister(bits, ShiftMask(Distance(number))) = b
  BY <1>1, RegisterShifted
<1>6. bits \in Nat /\ bits < 2^Width /\ bits < 2^FieldBits /\ k \in Nat
  <2>1. 2^Width \in Nat
    BY Sizes, PowerIsNat
  <2> QED
    BY <1>3, <2>1, Sizes, CircuitConstants DEF TypeOK
<1>7. Bits(b) = Window!Moved(Bits(bits), k)
  BY <1>6, BitsMoved
<1>8. b \in Nat /\ b < 2^Width
  <2>1. b \in Nat
    BY <1>6, ShiftIs
  <2>2. Shift(b, Width) = Shift(bits, k + Width)
    BY <1>6, Sizes, ShiftedTwice
  <2>3. Shift(bits, k + Width) = 0
    <3>1. k + Width \in Nat /\ Width <= k + Width /\ Width \in Nat
      BY <1>6, Sizes
    <3> QED
      BY <1>6, <3>1, ShiftedOut
  <2> QED
    BY <2>1, <2>2, <2>3, Sizes, ShiftedIn
<1>9. NewStart(number) = start + k
  <2>1. start + k < Prime
    BY <1>1, <1>2, <1>6, Sizes
  <2>2. Plus(start, k) = start + k
    BY <1>2, <1>6, <2>1, PlusIsSum
  <2> QED
    BY <1>2, <1>3, <2>2 DEF NewStart
<1> HIDE DEF b, p, k, d
<1>10. b + 2^p < 2^Width /\ b + 2^p \in Nat /\ 2^p \in Nat
  BY <1>1, <1>3, <1>7, <1>8, Sizes, SumBelow, PowerIsNat
<1>11. NewRegister(number, Synthesised(number)) = b + 2^p
  <2>1. b + 2^p < Prime
    BY <1>10, Sizes, PowerIsNat
  <2>2. Plus(b, 2^p) = b + 2^p
    BY <1>8, <1>10, <2>1, PlusIsSum
  <2> QED
    BY <1>2, <1>3, <1>5, <2>2 DEF NewRegister, Synthesised
<1>12. Bits(b + 2^p) = Bits(b) \cup {p}
  <2>1. p \in 0 .. FieldBits - 1
    BY <1>3, Sizes
  <2> QED
    BY <1>1, <1>7, <1>8, <2>1, BitAdded
<1>13. bits' = b + 2^p /\ start' = start + k /\ redeemed' = redeemed \cup {number}
  BY <1>9, <1>11 DEF BitSet
<1>14. TypeOK'
  BY <1>1, <1>2, <1>6, <1>10, <1>13, Sizes, PowerIsNat DEF TypeOK
<1>15. number \in Window!Numbers
  BY <1>1, <1>2, <1>4, Sizes DEF Window!Numbers
<1>16. Bits(bits)' = Window!Moved(Bits(bits), k) \cup {p}
  BY <1>7, <1>12, <1>13
<1> QED
  BY <1>1, <1>13, <1>14, <1>15, <1>16 DEF Window!Redeem, d, k, p

----------------------------------------------------------------------------
\* What the register stands for

\* The places are those of the numbers taken from the first on, and none was
\* taken beyond the window.
StandsFor(places, first, taken) ==
  /\ places = {n - first : n \in {m \in taken : m >= first}}
  /\ \A n \in taken : n < first + Width

\* Moving the places keeps those of the numbers from the new start on.
LEMMA MovedStandFor ==
  ASSUME NEW first \in Nat, NEW taken \in SUBSET Nat, NEW by \in Nat,
         NEW places, places = {n - first : n \in {m \in taken : m >= first}}
  PROVE  Window!Moved(places, by) = {n - (first + by) : n \in {m \in taken : m >= first + by}}
<1> DEFINE rest == {n - (first + by) : n \in {m \in taken : m >= first + by}}
<1>1. ASSUME NEW p \in Window!Moved(places, by) PROVE p \in rest
  <2>1. PICK q \in places : q >= by /\ p = q - by
    BY DEF Window!Moved
  <2>2. PICK n \in taken : n >= first /\ q = n - first
    BY <2>1
  <2>3. n \in Nat /\ n >= first + by /\ p = n - (first + by)
    BY <2>1, <2>2
  <2> QED
    BY <2>3
<1>2. ASSUME NEW p \in rest PROVE p \in Window!Moved(places, by)
  <2>1. PICK n \in taken : n >= first + by /\ p = n - (first + by)
    OBVIOUS
  <2>2. n \in Nat /\ n >= first /\ n - first >= by /\ p = (n - first) - by
    BY <2>1
  <2>3. n - first \in places
    BY <2>2
  <2> QED
    BY <2>2, <2>3 DEF Window!Moved
<1> QED
  BY <1>1, <1>2

\* How far a number moves the window: far enough to have a place, and not
\* beyond the number.
LEMMA AdvanceBounds ==
  ASSUME NEW distance \in 0 .. Width + Stride - 1
  PROVE  Window!Advance(distance) \in Nat /\ distance - Window!Advance(distance) \in 0 .. Width - 1
BY WindowConstants DEF Window!Advance

\* The place of a number is free if and only if the number is new.
LEMMA PlaceIsFree ==
  ASSUME NEW first \in Nat, NEW taken \in SUBSET Nat, NEW places, StandsFor(places, first, taken),
         NEW number \in Nat, NEW d, d = number - first, d \in 0 .. Width + Stride - 1,
         NEW by, by = Window!Advance(d)
  PROVE  d - by \in Window!Moved(places, by) <=> number \in taken
<1>1. by \in Nat /\ d - by \in 0 .. Width - 1
  BY AdvanceBounds
<1>2. Window!Moved(places, by) = {n - (first + by) : n \in {m \in taken : m >= first + by}}
  <2>1. places = {n - first : n \in {m \in taken : m >= first}}
    BY DEF StandsFor
  <2>2. by \in Nat
    BY <1>1
  <2> QED
    BY <2>1, <2>2, MovedStandFor
<1>3. number >= first + by /\ number - (first + by) = d - by
  BY <1>1
<1>4. \A n \in taken : n >= first + by /\ n - (first + by) = d - by => n = number
  BY <1>1, <1>3
<1> QED
  BY <1>2, <1>3, <1>4

\* Redeeming a number keeps the register exact.
LEMMA StandsForNext ==
  ASSUME NEW first \in Nat, NEW taken \in SUBSET Nat, NEW places, StandsFor(places, first, taken),
         NEW number \in Nat, NEW d, d = number - first, d \in 0 .. Width + Stride - 1,
         NEW by, by = Window!Advance(d)
  PROVE  StandsFor(Window!Moved(places, by) \cup {d - by}, first + by, taken \cup {number})
<1>1. by \in Nat /\ d - by \in 0 .. Width - 1
  BY AdvanceBounds
<1>2. Window!Moved(places, by) = {n - (first + by) : n \in {m \in taken : m >= first + by}}
  <2>1. places = {n - first : n \in {m \in taken : m >= first}}
    BY DEF StandsFor
  <2>2. by \in Nat
    BY <1>1
  <2> QED
    BY <2>1, <2>2, MovedStandFor
<1>3. number >= first + by /\ number - (first + by) = d - by
  BY <1>1
<1>4. \A n \in taken : n < (first + by) + Width
  <2>1. ASSUME NEW n \in taken PROVE n < (first + by) + Width
    <3>1. n \in Nat /\ n < first + Width
      BY DEF StandsFor
    <3> QED
      BY <1>1, <3>1, WindowConstants
  <2> QED
    BY <2>1
<1>5. number < (first + by) + Width
  BY <1>1, <1>3, WindowConstants
<1>6. Window!Moved(places, by) \cup {d - by}
      = {n - (first + by) : n \in {m \in taken \cup {number} : m >= first + by}}
  BY <1>2, <1>3
<1> QED
  BY <1>4, <1>5, <1>6 DEF StandsFor

----------------------------------------------------------------------------
\* The abstract window

\* The inductive invariant: the types, and what the register stands for.
AbstractInv == Abstract!TypeOK /\ StandsFor(register, start, redeemed)

\* Moving depends on the sizes only, so it is the same in both windows.
LEMMA SameWindow ==
  ASSUME NEW places, NEW by
  PROVE  Abstract!Moved(places, by) = Window!Moved(places, by) /\ Abstract!Advance(by) = Window!Advance(by)
BY DEF Abstract!Moved, Window!Moved, Abstract!Advance, Window!Advance

LEMMA MovedBelow ==
  ASSUME NEW places \in SUBSET (0 .. Width - 1), NEW by \in Nat
  PROVE  Window!Moved(places, by) \subseteq 0 .. Width - 1
BY WindowConstants DEF Window!Moved

\* A step takes a new number, keeps the invariant and moves forwards.
LEMMA RedeemKeeps ==
  ASSUME AbstractInv, NEW number \in Abstract!Numbers, Abstract!Redeem(number)
  PROVE  AbstractInv' /\ number \notin redeemed /\ start' >= start
<1> DEFINE d == number - start
           by == Window!Advance(d)
<1>1. /\ start \in Nat /\ number \in Nat /\ d \in 0 .. Width + Stride - 1
      /\ redeemed \in SUBSET Nat /\ register \subseteq 0 .. Width - 1
      /\ StandsFor(register, start, redeemed)
  BY WindowConstants DEF AbstractInv, Abstract!TypeOK, Abstract!Numbers, Abstract!Redeem
<1>2. by \in Nat /\ d - by \in 0 .. Width - 1
  BY <1>1, AdvanceBounds
<1>3. /\ d - by \notin Window!Moved(register, by)
      /\ register' = Window!Moved(register, by) \cup {d - by}
      /\ start' = start + by /\ start + by < StartLimit
      /\ redeemed' = redeemed \cup {number}
  BY SameWindow DEF Abstract!Redeem
<1>4. Window!Moved(register, by) \subseteq 0 .. Width - 1
  BY <1>1, <1>2, MovedBelow
<1>5. Abstract!TypeOK'
  BY <1>1, <1>2, <1>3, <1>4, WindowConstants DEF AbstractInv, Abstract!TypeOK, Abstract!Numbers
<1> HIDE DEF by, d
<1>6. d = number - start /\ by = Window!Advance(d)
  BY DEF by, d
<1>7. StandsFor(register', start', redeemed')
  BY <1>1, <1>3, <1>6, StandsForNext
<1>8. number \notin redeemed
  BY <1>1, <1>3, <1>6, PlaceIsFree
<1>9. start' >= start
  BY <1>1, <1>2, <1>3
<1> QED
  BY <1>5, <1>7, <1>8, <1>9 DEF AbstractInv

\* The invariant of every window.
LEMMA AbstractInvariant == Abstract!Spec => []AbstractInv
<1>1. Abstract!Init => AbstractInv
  BY WindowConstants DEF Abstract!Init, AbstractInv, Abstract!TypeOK, StandsFor
<1>2. AbstractInv /\ [Abstract!Next]_Abstract!vars => AbstractInv'
  <2>1. ASSUME AbstractInv, Abstract!Next PROVE AbstractInv'
    BY <2>1, RedeemKeeps DEF Abstract!Next
  <2>2. ASSUME AbstractInv, UNCHANGED Abstract!vars PROVE AbstractInv'
    BY <2>2 DEF Abstract!vars, AbstractInv, Abstract!TypeOK, Abstract!Numbers, StandsFor
  <2> QED
    BY <2>1, <2>2
<1> QED
  BY <1>1, <1>2, PTL DEF Abstract!Spec

\* The register and the start of every window keep their sizes.
THEOREM WindowTyped == Abstract!Spec => []Abstract!TypeOK
<1>1. AbstractInv => Abstract!TypeOK
  BY DEF AbstractInv
<1> QED
  BY <1>1, AbstractInvariant, PTL

\* The register of every window holds exactly the numbers redeemed in it, and
\* nothing was redeemed beyond it.
THEOREM RegisterIsExact == Abstract!Spec => []Abstract!RegisterExact
<1>1. AbstractInv => Abstract!RegisterExact
  BY DEF AbstractInv, StandsFor, Abstract!RegisterExact
<1> QED
  BY <1>1, AbstractInvariant, PTL

\* No number is redeemed twice, for every width and stride and however far
\* the window has moved in between.
THEOREM NumbersRedeemedOnce == Abstract!Spec => Abstract!RedeemedOnce
<1>1. AbstractInv /\ [Abstract!Next]_Abstract!vars =>
        [\E number \in Abstract!Numbers \ redeemed : redeemed' = redeemed \cup {number}]_Abstract!vars
  <2>1. ASSUME AbstractInv, NEW number \in Abstract!Numbers, Abstract!Redeem(number)
        PROVE  \E n \in Abstract!Numbers \ redeemed : redeemed' = redeemed \cup {n}
    <3>1. number \notin redeemed
      BY <2>1, RedeemKeeps
    <3>2. redeemed' = redeemed \cup {number}
      BY <2>1 DEF Abstract!Redeem
    <3> QED
      BY <3>1, <3>2
  <2> QED
    BY <2>1 DEF Abstract!Next
<1> QED
  BY <1>1, AbstractInvariant, PTL DEF Abstract!Spec, Abstract!RedeemedOnce

\* The window never moves back to numbers it has forgotten.
THEOREM WindowMovesOn == Abstract!Spec => Abstract!NeverBack
<1>1. AbstractInv /\ [Abstract!Next]_Abstract!vars => [start' >= start]_Abstract!vars
  BY RedeemKeeps DEF Abstract!Next
<1> QED
  BY <1>1, AbstractInvariant, PTL DEF Abstract!Spec, Abstract!NeverBack

----------------------------------------------------------------------------
\* The circuit

\* The inductive invariant: the bits are the places of the window.
CircuitWindowInv == TypeOK /\ StandsFor(Bits(bits), start, redeemed)

\* A step of the circuit takes a new number and keeps the invariant.
LEMMA BitSetKeeps ==
  ASSUME CircuitWindowInv, NEW number \in Field, BitSet(number)
  PROVE  CircuitWindowInv' /\ number \notin redeemed
<1> DEFINE d == number - start
           by == Window!Advance(d)
<1>1. TypeOK' /\ number \in Window!Numbers /\ Window!Redeem(number)
  BY RedeemsInWindow DEF CircuitWindowInv
<1>2. /\ start \in Nat /\ number \in Nat /\ d \in 0 .. Width + Stride - 1
      /\ redeemed \in SUBSET Nat /\ StandsFor(Bits(bits), start, redeemed)
  BY <1>1, Sizes DEF CircuitWindowInv, TypeOK, Field, Window!Redeem
<1>3. /\ d - by \notin Window!Moved(Bits(bits), by)
      /\ Bits(bits)' = Window!Moved(Bits(bits), by) \cup {d - by}
      /\ start' = start + by /\ redeemed' = redeemed \cup {number}
  BY <1>1 DEF Window!Redeem
<1> HIDE DEF by, d
<1>4. d = number - start /\ by = Window!Advance(d)
  BY DEF by, d
<1>5. StandsFor(Bits(bits), start, redeemed)'
  BY <1>2, <1>3, <1>4, StandsForNext
<1>6. number \notin redeemed
  BY <1>2, <1>3, <1>4, PlaceIsFree
<1> QED
  BY <1>1, <1>5, <1>6 DEF CircuitWindowInv

LEMMA CircuitInit == Init => CircuitWindowInv /\ Window!Init
<1> SUFFICES ASSUME Init PROVE CircuitWindowInv /\ Window!Init
  OBVIOUS
<1>1. bits = 0 /\ Bits(bits) = {} /\ redeemed = {} /\ start \in 0 .. StartLimit - 1
  BY NoBits, Sizes DEF Init
<1>2. TypeOK
  <2>1. 0 \in 0 .. 2^Width - 1
    BY Sizes, PowerIsPositive
  <2> QED
    BY <1>1, <2>1, Sizes DEF TypeOK
<1> QED
  BY <1>1, <1>2 DEF CircuitWindowInv, StandsFor, Window!Init

\* A step of the circuit is one of the window.
LEMMA CircuitNext ==
  CircuitWindowInv /\ [Next]_vars => CircuitWindowInv' /\ [Window!Next]_Window!vars
<1>1. ASSUME CircuitWindowInv, Next PROVE CircuitWindowInv' /\ Window!Next
  <2> PICK number \in Field : BitSet(number)
    BY <1>1 DEF Next
  <2>1. CircuitWindowInv'
    BY <1>1, BitSetKeeps
  <2>2. Window!Next
    BY <1>1, RedeemsInWindow DEF CircuitWindowInv, Window!Next
  <2> QED
    BY <2>1, <2>2
<1>2. ASSUME CircuitWindowInv, UNCHANGED vars PROVE CircuitWindowInv' /\ UNCHANGED Window!vars
  BY <1>2 DEF vars, CircuitWindowInv, TypeOK, StandsFor, Window!vars
<1> QED
  BY <1>1, <1>2

LEMMA CircuitInvariant == Spec => []CircuitWindowInv
BY CircuitInit, CircuitNext, PTL DEF Spec

\* The register synthesis computes is one the circuit takes again, for
\* registers of every size in a field that is large enough: with the elements
\* decomposed below the order, nothing is carried or left over by the field
\* arithmetic.
THEOREM RegisterTyped == Spec => []TypeOK
<1>1. CircuitWindowInv => TypeOK
  BY DEF CircuitWindowInv
<1> QED
  BY <1>1, CircuitInvariant, PTL

\* By the invariant a free place is a number not redeemed.
LEMMA AcceptsNewOnes ==
  ASSUME CircuitWindowInv
  PROVE  AcceptsExactly
<1>1. ASSUME NEW number \in Field
      PROVE  /\ Satisfied(number, Synthesised(number)) <=>
                  WithinReach(number) /\ number \notin redeemed
             /\ \A w : Satisfied(number, w) => WithinReach(number)
  <2> DEFINE d == number - start
             k == Window!Advance(d)
  <2>0. TypeOK
    BY DEF CircuitWindowInv
  <2>1. /\ Satisfied(number, Synthesised(number)) <=>
             /\ d \in 0 .. Width + Stride - 1
             /\ d - k \notin Window!Moved(Bits(bits), k)
             /\ start + k < StartLimit
        /\ \A w : Satisfied(number, w) => d \in 0 .. Width + Stride - 1 /\ start + k < StartLimit
    BY <2>0, SatisfiedIs, SatisfiedParts
  <2>2. /\ number \in Nat /\ start \in Nat /\ start < StartLimit /\ redeemed \in SUBSET Nat
        /\ StandsFor(Bits(bits), start, redeemed)
    BY Sizes DEF CircuitWindowInv, TypeOK, Field
  <2>3. ASSUME d \in 0 .. Width + Stride - 1
        PROVE  d - k \in Window!Moved(Bits(bits), k) <=> number \in redeemed
    <3> HIDE DEF k, d
    <3>1. d = number - start /\ k = Window!Advance(d)
      BY DEF k, d
    <3> QED
      BY <2>2, <2>3, <3>1, PlaceIsFree
  <2>4. WithinReach(number) <=> d \in 0 .. Width + Stride - 1 /\ start + k < StartLimit
    <3>1. d \in 0 .. Width + Stride - 1 <=> start <= number /\ number < start + Width + Stride
      BY <2>2, Sizes
    <3>2. k = IF d < Width THEN 0 ELSE d + 1 - Width
      BY DEF Window!Advance
    <3>3. start + k < StartLimit <=> (number - start >= Width => number + 1 - Width < 2^StartBits)
      <4>1. CASE d < Width
        BY <2>2, <3>2, <4>1, Sizes
      <4>2. CASE Width <= d
        <5>1. k = d + 1 - Width
          BY <2>2, <3>2, <4>2, Sizes
        <5>2. start + k = number + 1 - Width
          BY <2>2, <5>1, Sizes
        <5> QED
          BY <2>2, <4>2, <5>2, Sizes
      <4> QED
        BY <2>2, <4>1, <4>2, Sizes
    <3> QED
      BY <3>1, <3>3 DEF WithinReach
  <2> QED
    BY <2>1, <2>3, <2>4
<1>2. ASSUME NEW number \in Field, NEW w \in Witnesses(number), Satisfied(number, w), BelowOrder(w)
      PROVE  number \notin redeemed
  <2>1. w = Synthesised(number)
    BY <1>2, SynthesisBelowOrder
  <2> QED
    BY <1>1, <1>2, <2>1
<1> QED
  BY <1>1, <1>2 DEF AcceptsExactly

\* AcceptsExactly, for every window and field: whatever into_bits_le decomposes
\* the elements to, the constraints accept numbers within reach only, and with
\* the decompositions below the order exactly those not redeemed before.  Of
\* others, which into_bits_le lets pass, the second is not so.
THEOREM NewNumbersAccepted == Spec => []AcceptsExactly
BY CircuitInvariant, AcceptsNewOnes, PTL

\* With the assignment of synthesis the circuit implements the window:
\* differences, lookups, remainders and halvings in the field do to the bits
\* what the window does to its places.
THEOREM ImplementsTheWindow == Spec => ImplementsWindow
BY CircuitInit, CircuitNext, CircuitInvariant, PTL DEF Spec, ImplementsWindow, Window!Spec

\* So no number is redeemed twice by the assignments of synthesis; the
\* constraints alone do not see to that (AcceptsExactly).
THEOREM CircuitRedeemsOnce == Spec => Window!RedeemedOnce
<1>1. CircuitWindowInv /\ [Next]_vars =>
        [\E number \in Window!Numbers \ redeemed : redeemed' = redeemed \cup {number}]_Window!vars
  <2>1. ASSUME CircuitWindowInv, NEW number \in Field, BitSet(number)
        PROVE  \E n \in Window!Numbers \ redeemed : redeemed' = redeemed \cup {n}
    <3>1. number \notin redeemed
      BY <2>1, BitSetKeeps
    <3>2. number \in Window!Numbers /\ redeemed' = redeemed \cup {number}
      BY <2>1, RedeemsInWindow DEF CircuitWindowInv, BitSet
    <3> QED
      BY <3>1, <3>2
  <2>2. ASSUME UNCHANGED vars PROVE UNCHANGED Window!vars
    BY <2>2 DEF vars, Window!vars
  <2> QED
    BY <2>1, <2>2 DEF Next
<1> QED
  BY <1>1, CircuitInvariant, PTL DEF Spec, Window!RedeemedOnce

=============================================================================
