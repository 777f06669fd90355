---------------------------- MODULE LedgerLemmas ----------------------------
(***************************************************************************)
(* Lemmas about ledgers and about the tree over their leaves, for every    *)
(* set of accounts and every depth: induction over numbers and finite      *)
(* sets; the sums over accounts that rest on it; what the requests make of *)
(* a ledger; powers of two and positions in the tree; and the hashes of    *)
(* nodes and authentication paths.                                         *)
(***************************************************************************)
EXTENDS PlasmaState, MerkleTree, Functions, Sequences, FiniteSetTheorems,
        FunctionTheorems, WellFoundedInduction, TLAPS

----------------------------------------------------------------------------
\* Induction without an operator parameter.  The induction theorems of the
\* library range over predicates P(_); here the predicate is a set, which
\* every prover can instantiate: the basis is that < is well founded on the
\* naturals.

\* A set that holds 0 and with each number its successor holds all of them.
LEMMA NatSetInduction ==
  ASSUME NEW T, 0 \in T, \A n \in Nat : n \in T => n + 1 \in T
  PROVE  Nat \subseteq T
<1>1. SUFFICES ASSUME Nat \ T # {} PROVE FALSE
  OBVIOUS
<1>2. PICK x \in Nat \ T : \A y \in Nat \ T : ~(<<y, x>> \in OpToRel(<, Nat))
  <2>1. IsWellFoundedOn(OpToRel(<, Nat), Nat)
    BY NatLessThanWellFounded
  <2> QED
    BY <1>1, <2>1, WFMin
<1>3. x \in Nat /\ x \notin T /\ x # 0
  BY <1>2
<1>4. x - 1 \in Nat /\ (x - 1) + 1 = x
  BY <1>3
<1>5. x - 1 \in Nat \ T
  BY <1>3, <1>4
<1>6. <<x - 1, x>> \in OpToRel(<, Nat)
  <2>1. x - 1 < x
    BY <1>3
  <2> QED
    BY <1>3, <1>4, <2>1 DEF OpToRel
<1> QED
  BY <1>2, <1>5, <1>6

\* A family that holds a part of S whenever it holds every part with one
\* element less holds S itself, if S is finite.
LEMMA FiniteSetInduction ==
  ASSUME NEW S, IsFiniteSet(S), NEW F,
         \A A \in SUBSET S : (\A x \in A : A \ {x} \in F) => A \in F
  PROVE  S \in F
<1> DEFINE T == {n \in Nat : \A A \in SUBSET S : Cardinality(A) = n => A \in F}
<1>1. \A A \in SUBSET S : IsFiniteSet(A) /\ Cardinality(A) \in Nat
  BY FS_Subset, FS_CardinalityType
<1>2. 0 \in T
  <2>1. ASSUME NEW A \in SUBSET S, Cardinality(A) = 0 PROVE A \in F
    <3>1. A = {}
      BY <1>1, <2>1, FS_EmptySet
    <3> QED
      BY <3>1
  <2> QED
    BY <2>1
<1>3. ASSUME NEW n \in Nat, n \in T PROVE n + 1 \in T
  <2> SUFFICES ASSUME NEW A \in SUBSET S, Cardinality(A) = n + 1 PROVE A \in F
    BY DEF T
  <2>1. IsFiniteSet(A) /\ (n + 1) - 1 = n
    BY <1>1, <1>3
  <2>2. ASSUME NEW x \in A PROVE A \ {x} \in F
    <3>1. Cardinality(A \ {x}) = Cardinality(A) - 1
      BY <2>1, FS_RemoveElement
    <3>2. Cardinality(A \ {x}) = n
      BY <2>1, <3>1
    <3> QED
      BY <1>3, <3>2
  <2> QED
    BY <2>2
<1> HIDE DEF T
<1>4. Cardinality(S) \in T
  BY <1>1, <1>2, <1>3, NatSetInduction
<1> QED
  BY <1>4 DEF T

----------------------------------------------------------------------------
\* Sums over finite sets

Picked(s) == CHOOSE x \in s : TRUE

\* One turn of the fold behind SumFunctionOnSet.
SumStep(iter, f, s) ==
  IF s = {} THEN 0 ELSE f[Picked(s)] + iter[s \ {Picked(s)}]

IsSum(iter, f, S) == iter = [s \in SUBSET S |-> SumStep(iter, f, s)]

LEMMA SumUnfolds ==
  ASSUME NEW f, NEW S
  PROVE  SumFunctionOnSet(f, S) = (CHOOSE iter : IsSum(iter, f, S))[S]
  BY DEF SumFunctionOnSet, FoldFunctionOnSet, MapThenFoldSet, IsSum, SumStep, Picked

LEMMA PickedIn ==
  ASSUME NEW s, s # {}
  PROVE  Picked(s) \in s
  BY DEF Picked

\* The fold exists: it is built for ever larger parts of S.
LEMMA SumExists ==
  ASSUME NEW f, NEW S, IsFiniteSet(S)
  PROVE  \E iter : IsSum(iter, f, S)
<1> DEFINE T == {n \in Nat : \E g : \A s \in SUBSET S :
                               Cardinality(s) <= n => g[s] = SumStep(g, f, s)}
<1>1. \A s \in SUBSET S : IsFiniteSet(s) /\ Cardinality(s) \in Nat
  BY FS_Subset, FS_CardinalityType
<1>2. 0 \in T
  <2> DEFINE g == [s \in SUBSET S |-> 0]
  <2>1. ASSUME NEW s \in SUBSET S, Cardinality(s) <= 0 PROVE g[s] = SumStep(g, f, s)
    <3>1. Cardinality(s) = 0
      BY <1>1, <2>1
    <3>2. s = {}
      BY <1>1, <3>1, FS_EmptySet
    <3> QED
      BY <3>2 DEF SumStep
  <2> QED
    BY <2>1
<1>3. ASSUME NEW n \in Nat, n \in T PROVE n + 1 \in T
  <2>1. PICK g : \A s \in SUBSET S : Cardinality(s) <= n => g[s] = SumStep(g, f, s)
    BY <1>3
  <2> DEFINE h == [s \in SUBSET S |-> SumStep(g, f, s)]
  <2>2. ASSUME NEW s \in SUBSET S, Cardinality(s) <= n + 1 PROVE h[s] = SumStep(h, f, s)
    <3>1. CASE s = {}
      BY <3>1 DEF SumStep
    <3>2. CASE s # {}
      <4>1. Picked(s) \in s
        BY <3>2, PickedIn
      <4>2. s \ {Picked(s)} \in SUBSET S
        OBVIOUS
      <4>3. Cardinality(s \ {Picked(s)}) <= n
        <5>1. Cardinality(s \ {Picked(s)}) = Cardinality(s) - 1
          BY <1>1, <4>1, FS_RemoveElement
        <5>2. Cardinality(s) \in Nat
          BY <1>1
        <5> QED
          BY <1>3, <2>2, <5>1, <5>2
      <4>4. g[s \ {Picked(s)}] = h[s \ {Picked(s)}]
        BY <2>1, <4>2, <4>3
      <4> QED
        BY <4>4, <3>2 DEF SumStep
    <3> QED
      BY <3>1, <3>2
  <2> HIDE DEF h
  <2> QED
    BY <2>2
<1> HIDE DEF T
<1>4. Cardinality(S) \in T
  BY <1>1, <1>2, <1>3, NatSetInduction
<1>5. PICK g : \A s \in SUBSET S : Cardinality(s) <= Cardinality(S) => g[s] = SumStep(g, f, s)
  BY <1>4 DEF T
<1>6. \A s \in SUBSET S : Cardinality(s) <= Cardinality(S)
  BY FS_Subset
<1> DEFINE h == [s \in SUBSET S |-> g[s]]
<1>7. \A s \in SUBSET S : SumStep(g, f, s) = SumStep(h, f, s)
  BY DEF SumStep
<1>8. h = [s \in SUBSET S |-> SumStep(h, f, s)]
  BY <1>5, <1>6, <1>7
<1> HIDE DEF h
<1> QED
  BY <1>8 DEF IsSum

\* Two folds of the same function agree where both are defined.
LEMMA SumsAgree ==
  ASSUME NEW f, NEW S, NEW R \in SUBSET S, IsFiniteSet(S),
         NEW g, IsSum(g, f, S), NEW h, IsSum(h, f, R)
  PROVE  g[R] = h[R]
<1> DEFINE F == {s \in SUBSET R : g[s] = h[s]}
<1>1. \A s \in SUBSET R : g[s] = SumStep(g, f, s) /\ h[s] = SumStep(h, f, s)
  BY DEF IsSum
<1>2. ASSUME NEW s \in SUBSET R, \A x \in s : s \ {x} \in F PROVE s \in F
  <2>1. CASE s = {}
    BY <1>1, <2>1 DEF SumStep
  <2>2. CASE s # {}
    <3>1. g[s \ {Picked(s)}] = h[s \ {Picked(s)}]
      BY <1>2, <2>2, PickedIn
    <3> QED
      BY <1>1, <2>2, <3>1 DEF SumStep
  <2> QED
    BY <2>1, <2>2
<1>3. IsFiniteSet(R)
  BY FS_Subset
<1> HIDE DEF F
<1>4. R \in F
  BY <1>2, <1>3, FiniteSetInduction
<1> QED
  BY <1>4 DEF F

LEMMA SumOfEmpty ==
  ASSUME NEW f
  PROVE  SumFunctionOnSet(f, {}) = 0
<1>1. \E iter : IsSum(iter, f, {})
  BY FS_EmptySet, SumExists
<1>2. PICK g : /\ IsSum(g, f, {}) 
               /\ SumFunctionOnSet(f, {}) = g[{}]
  BY <1>1, SumUnfolds
<1> QED
  BY <1>2 DEF IsSum, SumStep

LEMMA SumPicks ==
  ASSUME NEW f, NEW S, IsFiniteSet(S), S # {}
  PROVE  SumFunctionOnSet(f, S) = f[Picked(S)] + SumFunctionOnSet(f, S \ {Picked(S)})
<1> DEFINE R == S \ {Picked(S)}
<1>1. IsFiniteSet(R)
  BY FS_RemoveElement
<1>2. PICK g : IsSum(g, f, S) /\ SumFunctionOnSet(f, S) = g[S]
  BY SumExists, SumUnfolds
<1>3. PICK h : IsSum(h, f, R) /\ SumFunctionOnSet(f, R) = h[R]
  BY <1>1, SumExists, SumUnfolds
<1>4. g[R] = h[R]
  BY <1>2, <1>3, SumsAgree
<1>5. g[S] = f[Picked(S)] + g[R]
  BY <1>2 DEF IsSum, SumStep
<1> QED
  BY <1>2, <1>3, <1>4, <1>5

\* A sum of integers is an integer.
LEMMA SumIsInt ==
  ASSUME NEW f, NEW S, IsFiniteSet(S), \A x \in S : f[x] \in Int
  PROVE  SumFunctionOnSet(f, S) \in Int
<1> DEFINE F == {A \in SUBSET S : SumFunctionOnSet(f, A) \in Int}
<1>1. ASSUME NEW A \in SUBSET S, \A x \in A : A \ {x} \in F PROVE A \in F
  <2>1. CASE A = {}
    BY <2>1, SumOfEmpty
  <2>2. CASE A # {}
    <3>1. Picked(A) \in A /\ IsFiniteSet(A)
      BY <2>2, PickedIn, FS_Subset
    <3>2. f[Picked(A)] \in Int /\ SumFunctionOnSet(f, A \ {Picked(A)}) \in Int
      BY <1>1, <3>1
    <3>3. SumFunctionOnSet(f, A) = f[Picked(A)] + SumFunctionOnSet(f, A \ {Picked(A)})
      BY <2>2, <3>1, SumPicks
    <3> QED
      BY <3>2, <3>3
  <2> QED
    BY <2>1, <2>2
<1> HIDE DEF F
<1>2. S \in F
  BY <1>1, FiniteSetInduction
<1> QED
  BY <1>2 DEF F

\* Functions that agree on a finite set have the same sum over it.
LEMMA SumsEqual ==
  ASSUME NEW f, NEW g, NEW S, IsFiniteSet(S), \A x \in S : f[x] = g[x]
  PROVE  SumFunctionOnSet(f, S) = SumFunctionOnSet(g, S)
<1> DEFINE F == {A \in SUBSET S : SumFunctionOnSet(f, A) = SumFunctionOnSet(g, A)}
<1>1. ASSUME NEW A \in SUBSET S, \A x \in A : A \ {x} \in F PROVE A \in F
  <2>1. CASE A = {}
    BY <2>1, SumOfEmpty
  <2>2. CASE A # {}
    <3>1. Picked(A) \in A /\ IsFiniteSet(A)
      BY <2>2, PickedIn, FS_Subset
    <3>2. /\ f[Picked(A)] = g[Picked(A)]
          /\ SumFunctionOnSet(f, A \ {Picked(A)}) = SumFunctionOnSet(g, A \ {Picked(A)})
      BY <1>1, <3>1
    <3>3. /\ SumFunctionOnSet(f, A) = f[Picked(A)] + SumFunctionOnSet(f, A \ {Picked(A)})
          /\ SumFunctionOnSet(g, A) = g[Picked(A)] + SumFunctionOnSet(g, A \ {Picked(A)})
      BY <2>2, <3>1, SumPicks
    <3> QED
      BY <3>2, <3>3
  <2> QED
    BY <2>1, <2>2
<1> HIDE DEF F
<1>2. S \in F
  BY <1>1, FiniteSetInduction
<1> QED
  BY <1>2 DEF F

\* Any element may be taken out first, whichever the fold picks.
LEMMA SumRemoves ==
  ASSUME NEW f, NEW S, IsFiniteSet(S), \A y \in S : f[y] \in Int, NEW x \in S
  PROVE  SumFunctionOnSet(f, S) = SumFunctionOnSet(f, S \ {x}) + f[x]
<1> DEFINE F == {A \in SUBSET S : \A z \in A :
                   SumFunctionOnSet(f, A) = SumFunctionOnSet(f, A \ {z}) + f[z]}
<1>1. ASSUME NEW A \in SUBSET S, \A z \in A : A \ {z} \in F PROVE A \in F
  <2> SUFFICES ASSUME NEW z \in A
               PROVE  SumFunctionOnSet(f, A) = SumFunctionOnSet(f, A \ {z}) + f[z]
    BY DEF F
  <2>1. PICK p \in A : SumFunctionOnSet(f, A) = f[p] + SumFunctionOnSet(f, A \ {p})
    <3>1. A # {} /\ Picked(A) \in A /\ IsFiniteSet(A)
      BY PickedIn, FS_Subset
    <3> QED
      BY <3>1, SumPicks
  <2>2. /\ f[p] \in Int /\ f[z] \in Int
        /\ SumFunctionOnSet(f, A \ {p}) \in Int
        /\ SumFunctionOnSet(f, (A \ {z}) \ {p}) \in Int
    <3>1. \A B \in SUBSET S : IsFiniteSet(B) /\ SumFunctionOnSet(f, B) \in Int
      BY FS_Subset, SumIsInt
    <3> QED
      BY <3>1
  <2>3. CASE z = p
    BY <2>1, <2>2, <2>3
  <2>4. CASE z # p
    <3>1. SumFunctionOnSet(f, A \ {z}) = SumFunctionOnSet(f, (A \ {z}) \ {p}) + f[p]
      BY <1>1, <2>4
    <3>2. SumFunctionOnSet(f, A \ {p}) = SumFunctionOnSet(f, (A \ {p}) \ {z}) + f[z]
      BY <1>1, <2>4
    <3>3. (A \ {p}) \ {z} = (A \ {z}) \ {p}
      OBVIOUS
    <3>4. SumFunctionOnSet(f, A \ {p}) = SumFunctionOnSet(f, (A \ {z}) \ {p}) + f[z]
      BY <3>2, <3>3
    <3> QED
      BY <2>1, <2>2, <3>1, <3>4
  <2> QED
    BY <2>3, <2>4
<1> HIDE DEF F
<1>2. S \in F
  BY <1>1, FiniteSetInduction
<1> QED
  BY <1>2 DEF F

\* The sum over a function changed at one place.
LEMMA SumOfChanged ==
  ASSUME NEW f, NEW g, NEW S, IsFiniteSet(S), NEW x \in S,
         \A y \in S : f[y] \in Int /\ g[y] \in Int,
         \A y \in S \ {x} : f[y] = g[y]
  PROVE  SumFunctionOnSet(g, S) = SumFunctionOnSet(f, S) + (g[x] - f[x])
<1>1. IsFiniteSet(S \ {x})
  BY FS_RemoveElement
<1>2. SumFunctionOnSet(f, S \ {x}) = SumFunctionOnSet(g, S \ {x})
  BY <1>1, SumsEqual
<1>3. SumFunctionOnSet(f, S \ {x}) \in Int
  BY <1>1, SumIsInt
<1>4. /\ SumFunctionOnSet(f, S) = SumFunctionOnSet(f, S \ {x}) + f[x]
      /\ SumFunctionOnSet(g, S) = SumFunctionOnSet(g, S \ {x}) + g[x]
  BY SumRemoves
<1> QED
  BY <1>2, <1>3, <1>4

\* The sum of a list grows by what is appended.
LEMMA SumOfAppended ==
  ASSUME NEW n \in Nat, NEW f, NEW g, DOMAIN f = 1 .. n, DOMAIN g = 1 .. n + 1,
         \A i \in 1 .. n + 1 : g[i] \in Int, \A i \in 1 .. n : f[i] = g[i]
  PROVE  SumFunction(g) = SumFunction(f) + g[n + 1]
<1>1. IsFiniteSet(1 .. n + 1) /\ IsFiniteSet(1 .. n)
  BY FS_Interval
<1>2. n + 1 \in 1 .. n + 1 /\ (1 .. n + 1) \ {n + 1} = 1 .. n
  OBVIOUS
<1>3. SumFunctionOnSet(g, 1 .. n + 1) = SumFunctionOnSet(g, 1 .. n) + g[n + 1]
  BY <1>1, <1>2, SumRemoves
<1>4. SumFunctionOnSet(f, 1 .. n) = SumFunctionOnSet(g, 1 .. n)
  BY <1>1, SumsEqual
<1> QED
  BY <1>3, <1>4 DEF SumFunction

\* What is zero adds nothing.
LEMMA SumIgnoresZeros ==
  ASSUME NEW f, NEW S, NEW Z, IsFiniteSet(S), IsFiniteSet(Z), S \cap Z = {},
         \A x \in S : f[x] \in Int, \A x \in Z : f[x] = 0
  PROVE  SumFunctionOnSet(f, S \cup Z) = SumFunctionOnSet(f, S)
<1> DEFINE F == {A \in SUBSET Z : SumFunctionOnSet(f, S \cup A) = SumFunctionOnSet(f, S)}
<1>1. ASSUME NEW A \in SUBSET Z, \A x \in A : A \ {x} \in F PROVE A \in F
  <2>1. CASE A = {}
    <3>1. S \cup A = S
      BY <2>1
    <3> QED
      BY <3>1
  <2>2. CASE A # {}
    <3>1. PICK x : x \in A
      BY <2>2
    <3>2. IsFiniteSet(A) /\ IsFiniteSet(S \cup A)
      BY FS_Subset, FS_Union
    <3>3. \A y \in S \cup A : f[y] \in Int
      OBVIOUS
    <3>4. SumFunctionOnSet(f, S \cup A) = SumFunctionOnSet(f, (S \cup A) \ {x}) + f[x]
      BY <3>1, <3>2, <3>3, SumRemoves
    <3>5. (S \cup A) \ {x} = S \cup (A \ {x}) /\ f[x] = 0
      BY <3>1
    <3>6. SumFunctionOnSet(f, S \cup (A \ {x})) = SumFunctionOnSet(f, S)
      BY <1>1, <3>1
    <3>7. SumFunctionOnSet(f, S) \in Int
      BY SumIsInt
    <3>8. SumFunctionOnSet(f, S \cup A) = SumFunctionOnSet(f, S \cup (A \ {x})) + 0
      BY <3>4, <3>5
    <3>9. SumFunctionOnSet(f, S \cup A) = SumFunctionOnSet(f, S)
      BY <3>6, <3>7, <3>8
    <3> QED
      BY <3>9
  <2> QED
    BY <2>1, <2>2
<1> HIDE DEF F
<1>2. Z \in F
  BY <1>1, FiniteSetInduction
<1> QED
  BY <1>2 DEF F

----------------------------------------------------------------------------
\* What the operators of the ledger make of a ledger is a ledger, no item ever
\* disappears, and the accounts a request does not mention stay as they are.

LEMMA AbsentIsNoAccount == Absent \notin Account
BY LedgerConstants DEF Account

LEMMA LeafType ==
  ASSUME NEW l \in Ledgers, NEW id \in AccountId
  PROVE  Leaf(l, id) \in Account
BY LedgerConstants DEF Leaf, Ledgers, Account, DefaultAccount

LEMMA LeavesType ==
  ASSUME NEW l \in Ledgers
  PROVE  Leaves(l) \in LeafMaps
BY LeafType DEF Leaves, LeafMaps

\* A ledger with some of its items replaced by accounts.
LEMMA ItemsStay ==
  ASSUME NEW l \in Ledgers, NEW m \in Ledgers, NEW changed \in SUBSET AccountId,
         \A id \in changed : m[id] \in Account,
         \A id \in AccountId \ changed : m[id] = l[id]
  PROVE  \A id \in AccountId : l[id] # Absent \/ id \in changed => m[id] # Absent
BY AbsentIsNoAccount

LEMMA ApplyTransferType ==
  ASSUME NEW l \in Ledgers, NEW tx \in TransferTx, NEW n, TransferValid(l, tx, n)
  PROVE  /\ ApplyTransfer(l, tx) \in Ledgers
         /\ \A id \in AccountId :
              l[id] # Absent \/ id \in {tx.from, tx.to} => ApplyTransfer(l, tx)[id] # Absent
         /\ \A id \in AccountId \ {tx.from, tx.to} : ApplyTransfer(l, tx)[id] = l[id]
<1>1. l[tx.from] \in Account /\ tx.from \in AccountId /\ tx.to \in AccountId
  BY DEF TransferValid, Ledgers, TransferTx
<1>2. [l[tx.from] EXCEPT !.balance = @ - (tx.amount + tx.fee), !.nonce = @ + 1] \in Account
  <2>1. l[tx.from].balance \in Nat /\ l[tx.from].nonce + 1 \in Nat /\ tx.amount + tx.fee \in Nat
    BY <1>1 DEF Account, TransferTx
  <2>2. l[tx.from].balance >= tx.amount + tx.fee
    BY DEF TransferValid
  <2>3. l[tx.from].balance - (tx.amount + tx.fee) \in Nat
    BY <2>1, <2>2
  <2> QED
    BY <1>1, <2>1, <2>3 DEF Account
<1>3. Leaf(l, tx.to) \in Account
  BY <1>1, LeafType
<1>4. [Leaf(l, tx.to) EXCEPT !.balance = @ + tx.amount] \in Account
  BY <1>3 DEF Account, TransferTx
<1>5. ApplyTransfer(l, tx) \in Ledgers
  BY <1>1, <1>2, <1>3, <1>4 DEF ApplyTransfer, Ledgers
<1>6. \A id \in {tx.from, tx.to} : ApplyTransfer(l, tx)[id] \in Account
  BY <1>1, <1>2, <1>3, <1>4 DEF ApplyTransfer, Ledgers
<1>7. \A id \in AccountId \ {tx.from, tx.to} : ApplyTransfer(l, tx)[id] = l[id]
  BY <1>1 DEF ApplyTransfer, Ledgers
<1>8. {tx.from, tx.to} \in SUBSET AccountId
  BY <1>1
<1>9. \A id \in AccountId :
        l[id] # Absent \/ id \in {tx.from, tx.to} => ApplyTransfer(l, tx)[id] # Absent
  BY <1>5, <1>6, <1>7, <1>8, ItemsStay
<1> QED
  BY <1>5, <1>7, <1>9

LEMMA ApplyDepositType ==
  ASSUME NEW l \in Ledgers, NEW tx \in DepositTx
  PROVE  /\ ApplyDeposit(l, tx) \in Ledgers
         /\ \A id \in AccountId :
              l[id] # Absent \/ id = tx.account => ApplyDeposit(l, tx)[id] # Absent
         /\ \A id \in AccountId \ {tx.account} : ApplyDeposit(l, tx)[id] = l[id]
<1>1. tx.account \in AccountId /\ tx.amount \in Nat /\ tx.key \in Key \cup {NoKey}
  BY DEF DepositTx
<1>2. /\ ApplyDeposit(l, tx) \in Ledgers
      /\ ApplyDeposit(l, tx)[tx.account] \in Account
      /\ \A id \in AccountId \ {tx.account} : ApplyDeposit(l, tx)[id] = l[id]
  <2>1. CASE Leaf(l, tx.account).balance = 0
    BY <1>1, <2>1 DEF ApplyDeposit, Ledgers, Account
  <2>2. CASE Leaf(l, tx.account).balance # 0
    <3>1. l[tx.account] # Absent
      BY <2>2 DEF Leaf, DefaultAccount
    <3>2. l[tx.account] \in Account
      BY <1>1, <3>1 DEF Ledgers
    <3>3. [l[tx.account] EXCEPT !.balance = @ + tx.amount] \in Account
      BY <1>1, <3>2 DEF Account
    <3> QED
      BY <1>1, <2>2, <3>3 DEF ApplyDeposit, Ledgers
  <2> QED
    BY <2>1, <2>2
<1> QED
  BY <1>1, <1>2, ItemsStay

LEMMA ApplyExitType ==
  ASSUME NEW l \in Ledgers, NEW account \in AccountId
  PROVE  /\ ApplyExit(l, account) \in Ledgers
         /\ \A id \in AccountId :
              l[id] # Absent \/ id = account => ApplyExit(l, account)[id] # Absent
         /\ \A id \in AccountId \ {account} : ApplyExit(l, account)[id] = l[id]
<1>1. ApplyExit(l, account) \in Ledgers /\ ApplyExit(l, account)[account] \in Account
  BY DEF ApplyExit, Ledgers, Account, DefaultAccount
<1>2. \A id \in AccountId \ {account} : ApplyExit(l, account)[id] = l[id]
  BY DEF ApplyExit, Ledgers
<1> QED
  BY <1>1, <1>2, ItemsStay

----------------------------------------------------------------------------
\* What a request makes of the leaves does not depend on which accounts have
\* an item in the tree.

LEMMA LeavesOfLeaves ==
  ASSUME NEW l \in Ledgers
  PROVE  /\ Leaves(l) \in Ledgers
         /\ \A id \in AccountId : /\ Leaves(l)[id] = Leaf(l, id)
                                 /\ Leaf(Leaves(l), id) = Leaf(l, id)
<1>1. \A id \in AccountId : Leaves(l)[id] = Leaf(l, id) /\ Leaf(l, id) \in Account
  BY LeafType DEF Leaves
<1>2. \A id \in AccountId : Leaf(Leaves(l), id) = Leaf(l, id)
  BY <1>1, AbsentIsNoAccount DEF Leaf
<1>3. Leaves(l) \in Ledgers
  BY LeavesType DEF LeafMaps, Ledgers
<1> QED
  BY <1>1, <1>2, <1>3

LEMMA LeavesOfTransfer ==
  ASSUME NEW l \in Ledgers, NEW tx \in TransferTx, NEW n, TransferValid(l, tx, n)
  PROVE  /\ TransferValid(Leaves(l), tx, n)
         /\ ApplyTransfer(Leaves(l), tx) = Leaves(ApplyTransfer(l, tx))
<1> DEFINE m == ApplyTransfer(l, tx)
           k == ApplyTransfer(Leaves(l), tx)
<1>1. tx.from \in AccountId /\ tx.to \in AccountId
  BY DEF TransferTx
<1>2. Leaves(l)[tx.from] = l[tx.from] /\ l[tx.from] # Absent
  BY <1>1 DEF TransferValid, Leaves, Leaf
<1>3. TransferValid(Leaves(l), tx, n)
  BY <1>2 DEF TransferValid
<1>4. m \in Ledgers /\ k \in Ledgers /\ \A id \in {tx.from, tx.to} : m[id] # Absent
  BY <1>1, <1>3, ApplyTransferType, LeavesOfLeaves
<1>5. Leaf(Leaves(l), tx.to) = Leaf(l, tx.to)
  BY <1>1, LeavesOfLeaves
<1>6. k[tx.from] = m[tx.from]
  BY <1>1, <1>2, LeavesOfLeaves DEF ApplyTransfer, Ledgers
<1>7. k[tx.to] = m[tx.to]
  BY <1>1, <1>2, <1>5, LeavesOfLeaves DEF ApplyTransfer, Ledgers
<1>8. \A id \in AccountId \ {tx.from, tx.to} : k[id] = Leaf(l, id) /\ m[id] = l[id]
  BY <1>1, <1>3, ApplyTransferType, LeavesOfLeaves
<1> HIDE DEF m, k
<1>9. \A id \in AccountId : k[id] = Leaf(m, id)
  BY <1>4, <1>6, <1>7, <1>8 DEF Leaf
<1>10. k = Leaves(m)
  BY <1>4, <1>9 DEF Ledgers, Leaves
<1> QED
  BY <1>3, <1>10 DEF m, k

LEMMA LeavesOfDeposit ==
  ASSUME NEW l \in Ledgers, NEW tx \in DepositTx
  PROVE  ApplyDeposit(Leaves(l), tx) = Leaves(ApplyDeposit(l, tx))
<1> DEFINE m == ApplyDeposit(l, tx)
           k == ApplyDeposit(Leaves(l), tx)
<1>1. tx.account \in AccountId
  BY DEF DepositTx
<1>2. /\ m \in Ledgers /\ k \in Ledgers /\ m[tx.account] # Absent
      /\ \A id \in AccountId \ {tx.account} : k[id] = Leaf(l, id) /\ m[id] = l[id]
  BY <1>1, ApplyDepositType, LeavesOfLeaves
<1>3. Leaf(Leaves(l), tx.account) = Leaf(l, tx.account) /\ Leaves(l)[tx.account] = Leaf(l, tx.account)
  BY <1>1, LeavesOfLeaves
<1>4. k[tx.account] = m[tx.account]
  <2>1. CASE Leaf(l, tx.account).balance = 0
    BY <1>1, <1>3, <2>1, LeavesOfLeaves DEF ApplyDeposit, Ledgers
  <2>2. CASE Leaf(l, tx.account).balance # 0
    <3>1. Leaf(l, tx.account) = l[tx.account]
      BY <2>2 DEF Leaf, DefaultAccount
    <3> QED
      BY <1>1, <1>3, <2>2, <3>1, LeavesOfLeaves DEF ApplyDeposit, Ledgers
  <2> QED
    BY <2>1, <2>2
<1> HIDE DEF m, k
<1>5. \A id \in AccountId : k[id] = Leaf(m, id)
  BY <1>2, <1>4 DEF Leaf
<1>6. k = Leaves(m)
  BY <1>2, <1>5 DEF Ledgers, Leaves
<1> QED
  BY <1>6 DEF m, k

LEMMA LeavesOfExit ==
  ASSUME NEW l \in Ledgers, NEW account \in AccountId
  PROVE  ApplyExit(Leaves(l), account) = Leaves(ApplyExit(l, account))
<1>1. ApplyExit(l, account) \in Ledgers /\ ApplyExit(Leaves(l), account) \in Ledgers
  BY ApplyExitType, LeavesOfLeaves
<1>2. \A id \in AccountId : ApplyExit(Leaves(l), account)[id] = Leaf(ApplyExit(l, account), id)
  <2>1. DefaultAccount # Absent
    BY AbsentIsNoAccount DEF DefaultAccount, Account
  <2> QED
    BY <2>1, LeavesOfLeaves DEF ApplyExit, Leaf, Ledgers
<1> QED
  BY <1>1, <1>2 DEF Ledgers, Leaves

----------------------------------------------------------------------------
\* Powers of two

LEMMA PowerOfCardinality ==
  ASSUME NEW n \in Nat
  PROVE  2^n = Cardinality(SUBSET (1 .. n)) /\ IsFiniteSet(SUBSET (1 .. n))
<1>1. IsFiniteSet(1 .. n) /\ Cardinality(1 .. n) = n
  <2>1. 1 \in Int /\ n \in Int
    OBVIOUS
  <2>2. IsFiniteSet(1 .. n) /\ Cardinality(1 .. n) = IF 1 > n THEN 0 ELSE n - 1 + 1
    BY <2>1, FS_Interval
  <2> QED
    BY <2>2
<1> QED
  BY <1>1, FS_SUBSET

LEMMA PowerIsNat ==
  ASSUME NEW n \in Nat
  PROVE  2^n \in Nat
BY PowerOfCardinality, FS_CardinalityType

LEMMA PowerOfZero == 2^0 = 1
<1>1. SUBSET (1 .. 0) = {{}}
  OBVIOUS
<1>2. Cardinality({{}}) = 1
  BY FS_Singleton
<1> QED
  BY <1>1, <1>2, PowerOfCardinality

\* The subsets of 1 .. n + 1 are those of 1 .. n, without and with n + 1.
LEMMA PowerOfNext ==
  ASSUME NEW n \in Nat
  PROVE  2^(n + 1) = 2 * 2^n
<1> DEFINE S == SUBSET (1 .. n)
           T == {A \cup {n + 1} : A \in S}
<1>1. IsFiniteSet(S) /\ Cardinality(S) \in Nat
  BY PowerOfCardinality, FS_CardinalityType
<1>2. SUBSET (1 .. n + 1) = S \cup T
  <2>1. ASSUME NEW A \in SUBSET (1 .. n + 1) PROVE A \in S \cup T
    <3>1. CASE n + 1 \in A
      <4>1. A \ {n + 1} \in S /\ A = (A \ {n + 1}) \cup {n + 1}
        BY <3>1
      <4> QED
        BY <4>1
    <3>2. CASE n + 1 \notin A
      <4>1. A \in S
        BY <3>2
      <4> QED
        BY <4>1
    <3> QED
      BY <3>1, <3>2
  <2>2. \A A \in S \cup T : A \in SUBSET (1 .. n + 1)
    OBVIOUS
  <2> QED
    BY <2>1, <2>2
<1>3. S \cap T = {}
  OBVIOUS
<1>4. IsFiniteSet(T) /\ Cardinality(T) = Cardinality(S)
  <2> DEFINE f == [A \in S |-> A \cup {n + 1}]
  <2>1. f \in Bijection(S, T)
    <3>1. f \in [S -> T]
      OBVIOUS
    <3>2. \A A, B \in S : f[A] = f[B] => A = B
      <4>1. ASSUME NEW A \in S, NEW B \in S, A \cup {n + 1} = B \cup {n + 1} PROVE A = B
        <5>1. n + 1 \notin A /\ n + 1 \notin B
          OBVIOUS
        <5> QED
          BY <4>1, <5>1
      <4> QED
        BY <4>1
    <3>3. \A t \in T : \E A \in S : f[A] = t
      OBVIOUS
    <3> QED
      BY <3>1, <3>2, <3>3, Fun_IsBij
  <2> HIDE DEF f
  <2>2. ExistsBijection(S, T)
    BY <2>1 DEF ExistsBijection
  <2> QED
    BY <1>1, <2>2, FS_Bijection
<1>5. Cardinality(S \cup T) = Cardinality(S) + Cardinality(T)
  <2>1. Cardinality(S \cup T) = Cardinality(S) + Cardinality(T) - Cardinality(S \cap T)
    BY <1>1, <1>4, FS_Union
  <2>2. Cardinality(S \cap T) = 0
    BY <1>3, FS_EmptySet
  <2> QED
    BY <1>1, <1>4, <2>1, <2>2
<1>6. n + 1 \in Nat
  OBVIOUS
<1>7. 2^n = Cardinality(S)
  BY PowerOfCardinality
<1>8. 2^(n + 1) = Cardinality(S \cup T)
  BY <1>2, <1>6, PowerOfCardinality
<1> HIDE DEF S, T
<1> QED
  BY <1>1, <1>4, <1>5, <1>7, <1>8

LEMMA PowerIsPositive ==
  ASSUME NEW n \in Nat
  PROVE  2^n \in Nat \ {0}
<1>1. IsFiniteSet(SUBSET (1 .. n)) /\ {} \in SUBSET (1 .. n)
  BY PowerOfCardinality
<1>2. Cardinality(SUBSET (1 .. n)) # 0
  BY <1>1, FS_EmptySet
<1> QED
  BY <1>2, PowerOfCardinality, PowerIsNat

----------------------------------------------------------------------------
\* Positions in the tree

LEMMA HalvesOf ==
  ASSUME NEW k \in Nat
  PROVE  /\ k \div 2 \in Nat
         /\ k % 2 \in {0, 1}
         /\ k = 2 * (k \div 2) + (k % 2)
<1>1. k = 2 * (k \div 2) + (k % 2)
  OBVIOUS
<1>2. k % 2 \in {0, 1}
  OBVIOUS
<1>3. k \div 2 \in Nat
  OBVIOUS
<1> QED
  BY <1>1, <1>2, <1>3

LEMMA DivisionOf ==
  ASSUME NEW k \in Nat, NEW b \in Nat \ {0}
  PROVE  /\ k \div b \in Nat
         /\ b * (k \div b) <= k
         /\ k < b * (k \div b) + b
OBVIOUS

LEMMA DivisionUnique ==
  ASSUME NEW k \in Nat, NEW b \in Nat \ {0}, NEW q \in Nat, b * q <= k, k < b * q + b
  PROVE  k \div b = q
OBVIOUS

LEMMA DivisionTwice ==
  ASSUME NEW k \in Nat, NEW b \in Nat \ {0}
  PROVE  (k \div b) \div 2 = k \div (2 * b)
OBVIOUS

\* A product of naturals is at most another when its factor is.
LEMMA DivisionBelow ==
  ASSUME NEW b \in Nat \ {0}, NEW c \in Nat, NEW k \in Nat, k < b * c
  PROVE  k \div b < c
<1>1. PICK q \in Nat : q = k \div b
  BY DivisionOf
<1>2. b * q <= k
  BY <1>1, DivisionOf
<1>3. SUFFICES ASSUME c <= q PROVE FALSE
  BY <1>1
<1>4. PICK d \in Nat : q = c + d
  <2>1. q - c \in Nat /\ q = c + (q - c)
    BY <1>3
  <2> QED
    BY <2>1
<1>5. b * q = b * c + b * d /\ b * d \in Nat /\ b * c \in Nat
  BY <1>4
<1> QED
  BY <1>2, <1>5

\* The positions double from level to level.
LEMMA LevelWidths ==
  ASSUME NEW level \in 0 .. Depth - 1
  PROVE  /\ level \in Nat /\ level + 1 \in 0 .. Depth
         /\ 2^(Depth - level) = 2 * 2^(Depth - (level + 1))
         /\ 2^(Depth - level) \in Nat /\ 2^(Depth - (level + 1)) \in Nat
<1>1. /\ level \in Nat /\ level + 1 \in 0 .. Depth
      /\ Depth - (level + 1) \in Nat /\ Depth - level \in Nat
      /\ (Depth - (level + 1)) + 1 = Depth - level
  BY DepthPositive
<1> PICK n \in Nat : n = Depth - (level + 1)
  BY <1>1
<1>2. 2^(n + 1) = 2 * 2^n
  BY PowerOfNext
<1> QED
  BY <1>1, <1>2, PowerIsNat

LEMMA ChildPositions ==
  ASSUME NEW level \in 0 .. Depth - 1, NEW k \in Positions(level + 1)
  PROVE  k \in Nat /\ 2 * k \in Positions(level) /\ 2 * k + 1 \in Positions(level)
<1> PICK w \in Nat : w = 2^(Depth - (level + 1))
  BY LevelWidths
<1>1. 2^(Depth - level) = 2 * w
  BY LevelWidths
<1> QED
  BY <1>1 DEF Positions

LEMMA ParentPosition ==
  ASSUME NEW level \in 0 .. Depth - 1, NEW k \in Positions(level)
  PROVE  k \in Nat /\ k \div 2 \in Positions(level + 1) /\ Sibling(k) \in Positions(level)
<1> PICK w \in Nat : w = 2^(Depth - (level + 1))
  BY LevelWidths
<1>1. 2^(Depth - level) = 2 * w
  BY LevelWidths
<1>2. k \in Nat /\ k < 2 * w
  BY <1>1 DEF Positions
<1>3. k = 2 * (k \div 2) + (k % 2) /\ k \div 2 \in Nat /\ k % 2 \in {0, 1}
  BY <1>2, HalvesOf
<1>4. k \div 2 < w
  BY <1>2, <1>3
<1>5. PICK q \in Nat, bit \in {0, 1} : q = k \div 2 /\ bit = k % 2
  BY <1>3
<1>6. Sibling(k) = IF bit = 0 THEN k + 1 ELSE k - 1
  BY <1>5 DEF Sibling
<1>7. k = 2 * q + bit /\ q < w
  BY <1>3, <1>4, <1>5
<1>8. Sibling(k) \in Nat /\ Sibling(k) < 2 * w
  BY <1>2, <1>6, <1>7
<1> QED
  BY <1>1, <1>2, <1>3, <1>4, <1>8 DEF Positions

\* Above a leaf.
Above(index, level) == index \div 2^level

LEMMA LeafPositions ==
  Positions(0) = 0 .. 2^Depth - 1 /\ Positions(Depth) = {0} /\ Positions(0) \subseteq Nat
<1>1. Depth - 0 = Depth /\ Depth - Depth = 0
  BY DepthPositive
<1>2. Positions(0) = 0 .. 2^Depth - 1
  BY <1>1 DEF Positions
<1>3. Positions(Depth) = 0 .. 2^0 - 1
  BY <1>1 DEF Positions
<1>4. 2^Depth \in Nat
  BY DepthPositive, PowerIsNat
<1> QED
  BY <1>2, <1>3, <1>4, PowerOfZero

LEMMA AboveLeaf ==
  ASSUME NEW index \in Positions(0)
  PROVE  /\ Above(index, 0) = index
         /\ \A level \in 0 .. Depth - 1 : Above(index, level + 1) = Above(index, level) \div 2
         /\ \A level \in 0 .. Depth : Above(index, level) \in Positions(level)
         /\ Above(index, Depth) = 0
<1>1. index \in Nat
  BY LeafPositions
<1>2. Above(index, 0) = index
  BY <1>1, PowerOfZero DEF Above
<1>3. ASSUME NEW level \in 0 .. Depth - 1 PROVE Above(index, level + 1) = Above(index, level) \div 2
  <2>1. level \in Nat
    BY DepthPositive
  <2>2. PICK b \in Nat \ {0} : b = 2^level
    BY <2>1, PowerIsPositive
  <2>3. 2^(level + 1) = 2 * b
    BY <2>1, <2>2, PowerOfNext
  <2> QED
    BY <1>1, <2>2, <2>3, DivisionTwice DEF Above
<1> DEFINE T == {level \in Nat : level <= Depth => Above(index, level) \in Positions(level)}
<1>4. 0 \in T
  BY <1>2, LeafPositions
<1>5. ASSUME NEW level \in Nat, level \in T PROVE level + 1 \in T
  <2>1. SUFFICES ASSUME level + 1 <= Depth PROVE Above(index, level + 1) \in Positions(level + 1)
    OBVIOUS
  <2>2. level \in 0 .. Depth - 1
    BY <2>1, DepthPositive
  <2>3. Above(index, level) \in Positions(level)
    BY <1>5, <2>2, DepthPositive
  <2> QED
    BY <1>3, <2>2, <2>3, ParentPosition
<1> HIDE DEF T
<1>6. Nat \subseteq T
  BY <1>4, <1>5, NatSetInduction
<1>7. \A level \in 0 .. Depth : Above(index, level) \in Positions(level)
  BY <1>6, DepthPositive DEF T
<1>8. Above(index, Depth) = 0
  BY <1>7, LeafPositions, DepthPositive
<1> QED
  BY <1>2, <1>3, <1>7, <1>8

----------------------------------------------------------------------------
\* The hashes of a tree

\* One level of the tree, from the level below.
HashLevel(at, level, h) ==
  [k \in Positions(level) |->
     IF level = 0 THEN h[k]
     ELSE Compress(level - 1, at[level - 1][2 * k], at[level - 1][2 * k + 1])]

AreHashes(at, h) == at = [level \in 0 .. Depth |-> HashLevel(at, level, h)]

LEMMA HashesUnfold ==
  ASSUME NEW h
  PROVE  Hashes(h) = CHOOSE at : AreHashes(at, h)
BY DEF Hashes, AreHashes, HashLevel

LEMMA HashesExist ==
  ASSUME NEW h
  PROVE  \E at : AreHashes(at, h)
<1> DEFINE T == {n \in Nat : \E at : \A level \in 0 .. n : at[level] = HashLevel(at, level, h)}
<1>1. 0 \in T
  <2> DEFINE at == [level \in {0} |-> HashLevel([i \in {} |-> 0], 0, h)]
  <2>1. at[0] = HashLevel(at, 0, h)
    BY DEF HashLevel
  <2> HIDE DEF at
  <2>2. \A level \in 0 .. 0 : at[level] = HashLevel(at, level, h)
    BY <2>1
  <2> QED
    BY <2>2
<1>2. ASSUME NEW n \in Nat, n \in T PROVE n + 1 \in T
  <2>1. PICK at : \A level \in 0 .. n : at[level] = HashLevel(at, level, h)
    BY <1>2
  <2> DEFINE up == [level \in 0 .. n + 1 |-> IF level = n + 1 THEN HashLevel(at, n + 1, h) ELSE at[level]]
  <2>2. /\ \A level \in 0 .. n : up[level] = at[level]
        /\ up[n + 1] = HashLevel(at, n + 1, h)
    OBVIOUS
  <2> HIDE DEF up
  <2>3. ASSUME NEW level \in 0 .. n + 1 PROVE HashLevel(up, level, h) = HashLevel(at, level, h)
    <3>1. CASE level = 0
      BY <3>1 DEF HashLevel
    <3>2. CASE level # 0
      <4>1. level - 1 \in 0 .. n
        BY <3>2
      <4>2. up[level - 1] = at[level - 1]
        BY <2>2, <4>1
      <4> QED
        BY <4>2 DEF HashLevel
    <3> QED
      BY <3>1, <3>2
  <2>4. \A level \in 0 .. n + 1 : up[level] = HashLevel(up, level, h)
    <3> SUFFICES ASSUME NEW level \in 0 .. n + 1 PROVE up[level] = HashLevel(up, level, h)
      OBVIOUS
    <3>1. level \in 0 .. n \/ level = n + 1
      OBVIOUS
    <3> QED
      BY <2>1, <2>2, <2>3, <3>1
  <2> QED
    BY <2>4
<1> HIDE DEF T
<1>3. Depth \in T
  BY <1>1, <1>2, NatSetInduction, DepthPositive
<1>4. PICK at : \A level \in 0 .. Depth : at[level] = HashLevel(at, level, h)
  BY <1>3 DEF T
<1> DEFINE up == [level \in 0 .. Depth |-> at[level]]
<1>5. \A level \in 0 .. Depth : up[level] = at[level]
  OBVIOUS
<1>6. \A level \in 0 .. Depth : HashLevel(up, level, h) = HashLevel(at, level, h)
  <2> SUFFICES ASSUME NEW level \in 0 .. Depth PROVE HashLevel(up, level, h) = HashLevel(at, level, h)
    OBVIOUS
  <2> HIDE DEF up
  <2>1. CASE level = 0
    BY <2>1 DEF HashLevel
  <2>2. CASE level # 0
    <3>1. level - 1 \in 0 .. Depth
      BY <2>2, DepthPositive
    <3>2. up[level - 1] = at[level - 1]
      BY <1>5, <3>1
    <3> QED
      BY <3>2 DEF HashLevel
  <2> QED
    BY <2>1, <2>2
<1>7. up = [level \in 0 .. Depth |-> HashLevel(up, level, h)]
  <2>1. up = [level \in 0 .. Depth |-> up[level]]
    OBVIOUS
  <2>2. \A level \in 0 .. Depth : up[level] = HashLevel(up, level, h)
    BY <1>4, <1>5, <1>6
  <2> HIDE DEF up
  <2> QED
    BY <2>1, <2>2
<1> HIDE DEF up
<1> QED
  BY <1>7 DEF AreHashes

\* The nodes of a tree: leaves, and of two nodes the one above.
LEMMA HashesAt ==
  ASSUME NEW h
  PROVE  /\ \A k \in Positions(0) : Hashes(h)[0][k] = h[k]
         /\ \A level \in 0 .. Depth - 1 : \A k \in Positions(level + 1) :
              Hashes(h)[level + 1][k] = Compress(level, Hashes(h)[level][2 * k], Hashes(h)[level][2 * k + 1])
<1>1. PICK at : at = Hashes(h)
  OBVIOUS
<1>2. at = [level \in 0 .. Depth |-> HashLevel(at, level, h)]
  BY <1>1, HashesExist, HashesUnfold DEF AreHashes
<1>3. \A level \in 0 .. Depth : at[level] = HashLevel(at, level, h)
  BY <1>2
<1>4. \A k \in Positions(0) : at[0][k] = h[k]
  <2>1. at[0] = HashLevel(at, 0, h)
    BY <1>3, DepthPositive
  <2> QED
    BY <2>1, LeafPositions DEF HashLevel
<1>5. ASSUME NEW level \in 0 .. Depth - 1, NEW k \in Positions(level + 1)
      PROVE  at[level + 1][k] = Compress(level, at[level][2 * k], at[level][2 * k + 1])
  <2>1. level + 1 \in 0 .. Depth /\ (level + 1) - 1 = level /\ level + 1 # 0
    BY DepthPositive
  <2>2. at[level + 1] = HashLevel(at, level + 1, h)
    BY <1>3, <2>1
  <2> QED
    BY <2>1, <2>2 DEF HashLevel
<1> QED
  BY <1>1, <1>4, <1>5

LEMMA CompressInjective ==
  ASSUME NEW level, NEW l1, NEW r1, NEW l2, NEW r2, Compress(level, l1, r1) = Compress(level, l2, r2)
  PROVE  l1 = l2 /\ r1 = r2
BY DEF Compress

\* The node above a node of the tree, seen from it.
LEMMA ParentInTree ==
  ASSUME NEW h, NEW level \in 0 .. Depth - 1, NEW k \in Positions(level)
  PROVE  Hashes(h)[level + 1][k \div 2]
           = Parent(level, k % 2, Hashes(h)[level][k], Hashes(h)[level][Sibling(k)])
<1>1. k \in Nat /\ k \div 2 \in Positions(level + 1)
  BY ParentPosition
<1>2. Hashes(h)[level + 1][k \div 2]
        = Compress(level, Hashes(h)[level][2 * (k \div 2)], Hashes(h)[level][2 * (k \div 2) + 1])
  BY <1>1, HashesAt
<1>3. k = 2 * (k \div 2) + (k % 2) /\ k % 2 \in {0, 1} /\ k \div 2 \in Nat
  BY <1>1, HalvesOf
<1>4. CASE k % 2 = 0
  <2>1. 2 * (k \div 2) = k /\ 2 * (k \div 2) + 1 = Sibling(k)
    BY <1>1, <1>3, <1>4 DEF Sibling
  <2> QED
    BY <1>2, <1>4, <2>1 DEF Parent
<1>5. CASE k % 2 = 1
  <2>1. 2 * (k \div 2) = Sibling(k) /\ 2 * (k \div 2) + 1 = k
    BY <1>1, <1>3, <1>5 DEF Sibling
  <2> QED
    BY <1>2, <1>5, <2>1 DEF Parent
<1> QED
  BY <1>3, <1>4, <1>5

LEMMA ParentInjective ==
  ASSUME NEW level, NEW bit, NEW c1, NEW o1, NEW c2, NEW o2,
         Parent(level, bit, c1, o1) = Parent(level, bit, c2, o2)
  PROVE  c1 = c2 /\ o1 = o2
BY CompressInjective DEF Parent

----------------------------------------------------------------------------
\* Authentication paths

AscentStep(up, level, hash, index, path) ==
  IF level = 0 THEN hash
  ELSE Parent(level - 1, (index \div 2^(level - 1)) % 2, up[level - 1], path[level - 1])

IsAscent(up, hash, index, path) ==
  up = [level \in 0 .. Depth |-> AscentStep(up, level, hash, index, path)]

LEMMA AscentUnfold ==
  ASSUME NEW hash, NEW index, NEW path
  PROVE  Ascended(hash, index, path) = (CHOOSE up : IsAscent(up, hash, index, path))[Depth]
BY DEF Ascended, IsAscent, AscentStep

LEMMA AscentExists ==
  ASSUME NEW hash, NEW index, NEW path
  PROVE  \E up : IsAscent(up, hash, index, path)
<1> DEFINE Step(up, level) == AscentStep(up, level, hash, index, path)
           T == {n \in Nat : \E up : \A level \in 0 .. n : up[level] = Step(up, level)}
<1>0. ASSUME NEW f, NEW g, NEW n \in Nat, \A level \in 0 .. n - 1 : f[level] = g[level]
      PROVE  \A level \in 0 .. n : Step(f, level) = Step(g, level)
  <2> SUFFICES ASSUME NEW level \in 0 .. n PROVE Step(f, level) = Step(g, level)
    OBVIOUS
  <2>1. CASE level = 0
    BY <2>1 DEF AscentStep
  <2>2. CASE level # 0
    <3>1. level - 1 \in 0 .. n - 1
      BY <2>2
    <3>2. f[level - 1] = g[level - 1]
      BY <1>0, <3>1
    <3> QED
      BY <3>2 DEF AscentStep
  <2> QED
    BY <2>1, <2>2
<1>1. 0 \in T
  <2> DEFINE up == [level \in {0} |-> Step([i \in {} |-> 0], 0)]
  <2>1. up[0] = Step(up, 0)
    BY DEF AscentStep
  <2> HIDE DEF up, Step
  <2>2. \A level \in 0 .. 0 : up[level] = Step(up, level)
    BY <2>1
  <2> QED
    BY <2>2
<1> HIDE DEF Step
<1>2. ASSUME NEW n \in Nat, n \in T PROVE n + 1 \in T
  <2>1. PICK f : \A level \in 0 .. n : f[level] = Step(f, level)
    BY <1>2
  <2> DEFINE up == [level \in 0 .. n + 1 |-> IF level = n + 1 THEN Step(f, n + 1) ELSE f[level]]
  <2>2. /\ \A level \in 0 .. n : up[level] = f[level]
        /\ up[n + 1] = Step(f, n + 1)
    OBVIOUS
  <2> HIDE DEF up
  <2>3. \A level \in 0 .. n + 1 : Step(up, level) = Step(f, level)
    <3>1. n + 1 \in Nat /\ (n + 1) - 1 = n
      OBVIOUS
    <3> QED
      BY <1>0, <2>2, <3>1
  <2>4. \A level \in 0 .. n + 1 : up[level] = Step(up, level)
    <3> SUFFICES ASSUME NEW level \in 0 .. n + 1 PROVE up[level] = Step(up, level)
      OBVIOUS
    <3>1. level \in 0 .. n \/ level = n + 1
      OBVIOUS
    <3> QED
      BY <2>1, <2>2, <2>3, <3>1
  <2> QED
    BY <2>4
<1> HIDE DEF T
<1>3. Depth \in T /\ Depth \in Nat
  BY <1>1, <1>2, NatSetInduction, DepthPositive
<1>4. PICK f : \A level \in 0 .. Depth : f[level] = Step(f, level)
  BY <1>3 DEF T
<1> DEFINE up == [level \in 0 .. Depth |-> f[level]]
<1>5. \A level \in 0 .. Depth : up[level] = f[level]
  OBVIOUS
<1>6. up = [level \in 0 .. Depth |-> up[level]]
  OBVIOUS
<1> HIDE DEF up
<1>7. \A level \in 0 .. Depth - 1 : up[level] = f[level]
  BY <1>3, <1>5
<1>8. \A level \in 0 .. Depth : up[level] = Step(up, level)
  BY <1>0, <1>3, <1>4, <1>5, <1>7
<1>9. up = [level \in 0 .. Depth |-> Step(up, level)]
  BY <1>6, <1>8
<1> QED
  BY <1>9 DEF IsAscent, Step

\* The nodes one passes on the way from a leaf to the root.
LEMMA AscentAt ==
  ASSUME NEW hash, NEW index, NEW path
  PROVE  \E up : /\ up[0] = hash
                 /\ \A level \in 0 .. Depth - 1 :
                      up[level + 1] = Parent(level, Above(index, level) % 2, up[level], path[level])
                 /\ Ascended(hash, index, path) = up[Depth]
<1>1. PICK up : up = CHOOSE u : IsAscent(u, hash, index, path)
  OBVIOUS
<1>2. up = [level \in 0 .. Depth |-> AscentStep(up, level, hash, index, path)]
  <2>1. IsAscent(up, hash, index, path)
    BY <1>1, AscentExists
  <2> QED
    BY <2>1 DEF IsAscent
<1>3. \A level \in 0 .. Depth : up[level] = AscentStep(up, level, hash, index, path)
  BY <1>2
<1>4. up[0] = hash
  BY <1>3, DepthPositive DEF AscentStep
<1>5. ASSUME NEW level \in 0 .. Depth - 1
      PROVE  up[level + 1] = Parent(level, Above(index, level) % 2, up[level], path[level])
  <2>1. level + 1 \in 0 .. Depth /\ (level + 1) - 1 = level /\ level + 1 # 0
    BY DepthPositive
  <2>2. up[level + 1] = AscentStep(up, level + 1, hash, index, path)
    BY <1>3, <2>1
  <2> QED
    BY <2>1, <2>2 DEF AscentStep, Above
<1> QED
  BY <1>1, <1>4, <1>5, AscentUnfold

\* Away from a path the hashes do not depend on its leaf.
LEMMA OffPathStays ==
  ASSUME NEW h, NEW g, NEW index \in Positions(0), \A k \in Positions(0) \ {index} : g[k] = h[k]
  PROVE  \A level \in 0 .. Depth : \A k \in Positions(level) \ {Above(index, level)} :
           Hashes(g)[level][k] = Hashes(h)[level][k]
<1> PICK a, b : a = Hashes(g) /\ b = Hashes(h)
  OBVIOUS
<1> DEFINE T == {level \in Nat : level <= Depth =>
                   \A k \in Positions(level) \ {Above(index, level)} : a[level][k] = b[level][k]}
<1>1. 0 \in T
  BY HashesAt, AboveLeaf, LeafPositions
<1>2. ASSUME NEW level \in Nat, level \in T PROVE level + 1 \in T
  <2>1. SUFFICES ASSUME level + 1 <= Depth, NEW k \in Positions(level + 1), k # Above(index, level + 1)
                 PROVE  a[level + 1][k] = b[level + 1][k]
    OBVIOUS
  <2>2. level \in 0 .. Depth - 1 /\ level <= Depth
    BY <2>1, DepthPositive
  <2>3. \A j \in Positions(level) : j # Above(index, level) => a[level][j] = b[level][j]
    BY <1>2, <2>2
  <2>4. k \in Nat /\ 2 * k \in Positions(level) /\ 2 * k + 1 \in Positions(level)
    BY <2>2, ChildPositions
  <2>5. (2 * k) \div 2 = k /\ (2 * k + 1) \div 2 = k
    BY <2>4
  <2>6. 2 * k # Above(index, level) /\ 2 * k + 1 # Above(index, level)
    BY <2>1, <2>2, <2>5, AboveLeaf
  <2>7. a[level][2 * k] = b[level][2 * k] /\ a[level][2 * k + 1] = b[level][2 * k + 1]
    BY <2>3, <2>4, <2>6
  <2> QED
    BY <2>1, <2>2, <2>7, HashesAt
<1> HIDE DEF T
<1>3. Nat \subseteq T
  BY <1>1, <1>2, NatSetInduction
<1>4. ASSUME NEW level \in 0 .. Depth
      PROVE  \A k \in Positions(level) \ {Above(index, level)} : a[level][k] = b[level][k]
  <2>1. level \in T /\ level <= Depth
    BY <1>3, DepthPositive
  <2> QED
    BY <2>1 DEF T
<1> QED
  BY <1>4

LEMMA SiblingOffPath ==
  ASSUME NEW level \in 0 .. Depth - 1, NEW k \in Positions(level)
  PROVE  Sibling(k) \in Positions(level) \ {k}
<1>1. k \in Nat /\ Sibling(k) \in Positions(level)
  BY ParentPosition
<1> QED
  BY <1>1 DEF Sibling

LEMMA PathAt ==
  ASSUME NEW h, NEW index
  PROVE  /\ Path(h, index) = [level \in 0 .. Depth - 1 |-> Path(h, index)[level]]
         /\ \A level \in 0 .. Depth - 1 :
              Path(h, index)[level] = Hashes(h)[level][Sibling(Above(index, level))]
BY DEF Path, Above

\* With the path of a leaf one ascends to the root of the tree, whatever the
\* leaf is changed to.
LEMMA PathOpens ==
  ASSUME NEW h, NEW g, NEW index \in Positions(0), \A k \in Positions(0) \ {index} : g[k] = h[k]
  PROVE  Ascended(g[index], index, Path(h, index)) = Root(g)
<1> PICK a, path : a = Hashes(g) /\ path = Path(h, index)
  OBVIOUS
<1>1. PICK up : /\ up[0] = g[index]
                /\ \A level \in 0 .. Depth - 1 :
                     up[level + 1] = Parent(level, Above(index, level) % 2, up[level], path[level])
                /\ Ascended(g[index], index, path) = up[Depth]
  BY AscentAt
<1>2. ASSUME NEW level \in 0 .. Depth - 1
      PROVE  /\ path[level] = a[level][Sibling(Above(index, level))]
             /\ a[level + 1][Above(index, level + 1)]
                  = Parent(level, Above(index, level) % 2, a[level][Above(index, level)], path[level])
  <2>1. level \in 0 .. Depth /\ Above(index, level) \in Positions(level)
    BY AboveLeaf, DepthPositive
  <2>2. Sibling(Above(index, level)) \in Positions(level) \ {Above(index, level)}
    BY <2>1, SiblingOffPath
  <2>3. path[level] = a[level][Sibling(Above(index, level))]
    BY <2>1, <2>2, PathAt, OffPathStays
  <2>4. Above(index, level + 1) = Above(index, level) \div 2
    BY AboveLeaf
  <2> QED
    BY <2>1, <2>3, <2>4, ParentInTree
<1> DEFINE T == {level \in Nat : level <= Depth => up[level] = a[level][Above(index, level)]}
<1>3. 0 \in T
  BY <1>1, HashesAt, AboveLeaf
<1>4. ASSUME NEW level \in Nat, level \in T PROVE level + 1 \in T
  <2>1. SUFFICES ASSUME level + 1 <= Depth PROVE up[level + 1] = a[level + 1][Above(index, level + 1)]
    OBVIOUS
  <2>2. level \in 0 .. Depth - 1 /\ level <= Depth
    BY <2>1, DepthPositive
  <2>3. up[level] = a[level][Above(index, level)]
    BY <1>4, <2>2
  <2> QED
    BY <1>1, <1>2, <2>2, <2>3
<1> HIDE DEF T
<1>5. up[Depth] = a[Depth][Above(index, Depth)]
  <2>1. Depth \in T /\ Depth <= Depth
    BY <1>3, <1>4, NatSetInduction, DepthPositive
  <2> QED
    BY <2>1 DEF T
<1> QED
  BY <1>1, <1>5, AboveLeaf DEF Root

\* An element for every level.
IsPath(path) == path = [level \in 0 .. Depth - 1 |-> path[level]]

\* A leaf and a path that open the root are those of the tree.
LEMMA OpeningUnique ==
  ASSUME NEW h, NEW index \in Positions(0), NEW hash, NEW path, IsPath(path),
         Ascended(hash, index, path) = Root(h)
  PROVE  hash = h[index] /\ path = Path(h, index)
<1> PICK a : a = Hashes(h)
  OBVIOUS
<1>1. PICK up : /\ up[0] = hash
                /\ \A level \in 0 .. Depth - 1 :
                     up[level + 1] = Parent(level, Above(index, level) % 2, up[level], path[level])
                /\ Ascended(hash, index, path) = up[Depth]
  BY AscentAt
<1>2. ASSUME NEW level \in 0 .. Depth - 1, up[level + 1] = a[level + 1][Above(index, level + 1)]
      PROVE  /\ up[level] = a[level][Above(index, level)]
             /\ path[level] = a[level][Sibling(Above(index, level))]
  <2>1. level \in 0 .. Depth /\ Above(index, level) \in Positions(level)
    BY AboveLeaf, DepthPositive
  <2>2. Above(index, level + 1) = Above(index, level) \div 2
    BY AboveLeaf
  <2>3. Parent(level, Above(index, level) % 2, up[level], path[level])
          = Parent(level, Above(index, level) % 2, a[level][Above(index, level)],
                   a[level][Sibling(Above(index, level))])
    BY <1>1, <1>2, <2>1, <2>2, ParentInTree
  <2> QED
    BY <2>3, ParentInjective
<1> DEFINE T == {n \in Nat : n <= Depth => up[Depth - n] = a[Depth - n][Above(index, Depth - n)]}
<1>3. 0 \in T
  <2>1. Depth - 0 = Depth
    BY DepthPositive
  <2> QED
    BY <1>1, <2>1, AboveLeaf DEF Root
<1>4. ASSUME NEW n \in Nat, n \in T PROVE n + 1 \in T
  <2>1. SUFFICES ASSUME n + 1 <= Depth
                 PROVE  up[Depth - (n + 1)] = a[Depth - (n + 1)][Above(index, Depth - (n + 1))]
    OBVIOUS
  <2>2. PICK level \in 0 .. Depth - 1 : level = Depth - (n + 1) /\ level + 1 = Depth - n
    BY <2>1, DepthPositive
  <2>3. up[level + 1] = a[level + 1][Above(index, level + 1)]
    BY <1>4, <2>1, <2>2, DepthPositive
  <2> QED
    BY <1>2, <2>2, <2>3
<1> HIDE DEF T
<1>5. ASSUME NEW level \in 0 .. Depth PROVE up[level] = a[level][Above(index, level)]
  <2>1. Depth - level \in Nat /\ Depth - level <= Depth /\ Depth - (Depth - level) = level
    BY DepthPositive
  <2>2. Depth - level \in T
    BY <1>3, <1>4, <2>1, NatSetInduction
  <2> QED
    BY <2>1, <2>2 DEF T
<1>6. hash = h[index]
  BY <1>1, <1>5, DepthPositive, HashesAt, AboveLeaf
<1>7. ASSUME NEW level \in 0 .. Depth - 1 PROVE path[level] = Path(h, index)[level]
  <2>1. level + 1 \in 0 .. Depth
    BY DepthPositive
  <2>2. path[level] = a[level][Sibling(Above(index, level))]
    BY <1>2, <1>5, <2>1
  <2> QED
    BY <2>2, PathAt
<1>8. path = Path(h, index)
  <2> PICK p : p = Path(h, index) /\ p = [level \in 0 .. Depth - 1 |-> p[level]]
    BY PathAt
  <2> QED
    BY <1>7 DEF IsPath
<1> QED
  BY <1>6, <1>8

=============================================================================
