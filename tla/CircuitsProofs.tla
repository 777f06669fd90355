--------------------------- MODULE CircuitsProofs ---------------------------
(***************************************************************************)
(* Proofs about module Circuits, for every depth of the tree, every set of *)
(* requests and all widths of numbers: the constraints of the transfer,    *)
(* deposit and exit circuits, with their numbers decomposed below the      *)
(* order, and the new roots they admit.  What they need of the tree is in  *)
(* LedgerLemmas: a path opens its root whatever the leaf is changed to     *)
(* (PathOpens), and nothing else opens it (OpeningUnique).  The parts:     *)
(*   - within the widths a leaf has its own hash, so equal roots are equal *)
(*     ledgers (LedgerRootInjective) and every account has one witness     *)
(*     (OneOpening);                                                       *)
(*   - exits, deposits, rounded amounts, and the joining of the two paths  *)
(*     of a transfer (JoinedRoot).                                         *)
(***************************************************************************)
EXTENDS Circuits, LedgerLemmas, FunctionTheorems

----------------------------------------------------------------------------
\* Leaves and their hashes

\* The accounts are the leaves of the tree.
LEMMA AccountsAreLeaves == AccountId = Positions(0) /\ AccountId \subseteq Nat
  BY LeafPositions, CircuitConstants

LEMMA RemainderBelow ==
  ASSUME NEW n \in Nat, NEW m \in Nat, n < m
  PROVE  n % m = n
OBVIOUS

InWidths(leaf) == leaf.balance < 2^BalanceBits /\ leaf.nonce < 2^NonceBits

LEMMA Widths == 2^BalanceBits \in Nat \ {0} /\ 2^NonceBits \in Nat \ {0} /\ 2^BlockBits \in Nat \ {0}
BY CircuitConstants, PowerIsPositive

LEMMA DefaultInWidths == DefaultAccount \in Account /\ InWidths(DefaultAccount)
<1>1. DefaultAccount \in Account
  BY DEF DefaultAccount, Account
<1>2. \A b, n \in Nat \ {0} : 0 < b /\ 0 < n
  OBVIOUS
<1> QED
  BY <1>1, <1>2, Widths DEF InWidths, DefaultAccount

\* Within the widths nothing is cut off.
LEMMA LeafHashInWidths ==
  ASSUME NEW leaf \in Account, InWidths(leaf)
  PROVE  LeafHash(leaf) = <<"leaf", leaf.balance, leaf.nonce, leaf.key>>
<1>1. leaf.balance \in Nat /\ leaf.nonce \in Nat
  BY DEF Account
<1>2. leaf.balance % 2^BalanceBits = leaf.balance /\ leaf.nonce % 2^NonceBits = leaf.nonce
  BY <1>1, Widths, RemainderBelow DEF InWidths
<1> QED
  BY <1>2 DEF LeafHash

LEMMA LeafHashInjective ==
  ASSUME NEW a \in Account, NEW b \in Account, InWidths(a), InWidths(b), LeafHash(a) = LeafHash(b)
  PROVE  a = b
<1>1. <<"leaf", a.balance, a.nonce, a.key>> = <<"leaf", b.balance, b.nonce, b.key>>
  BY LeafHashInWidths
<1>2. a.balance = b.balance /\ a.nonce = b.nonce /\ a.key = b.key
  BY <1>1
<1> QED
  BY <1>2 DEF Account

\* Equal roots, equal leaves.
LEMMA RootInjective ==
  ASSUME NEW g, NEW h, Root(g) = Root(h), NEW index \in AccountId
  PROVE  g[index] = h[index]
<1> PICK hash, path : hash = g[index] /\ path = Path(g, index)
  OBVIOUS
<1>1. Ascended(hash, index, path) = Root(h)
  BY AccountsAreLeaves, PathOpens
<1>2. IsPath(path)
  BY PathAt DEF IsPath
<1>3. hash = h[index]
  BY <1>1, <1>2, AccountsAreLeaves, OpeningUnique
<1> QED
  BY <1>3

LEMMA LedgerRootInjective ==
  ASSUME NEW f \in LeafMaps, NEW g \in LeafMaps,
         \A id \in AccountId : InWidths(f[id]) /\ InWidths(g[id]),
         LedgerRoot(f) = LedgerRoot(g)
  PROVE  f = g
<1>1. ASSUME NEW id \in AccountId PROVE f[id] = g[id]
  <2> PICK a, b : a = LeafHashes(f) /\ b = LeafHashes(g)
    OBVIOUS
  <2>1. Root(a) = Root(b)
    BY DEF LedgerRoot
  <2>2. a[id] = b[id]
    BY <2>1, RootInjective
  <2>3. a[id] = LeafHash(f[id]) /\ b[id] = LeafHash(g[id])
    BY DEF LeafHashes
  <2>4. f[id] \in Account /\ g[id] \in Account
    BY DEF LeafMaps
  <2> QED
    BY <2>2, <2>3, <2>4, LeafHashInjective
<1> QED
  BY <1>1 DEF LeafMaps

----------------------------------------------------------------------------
\* What a witness opens.

\* The invariant: the numbers in the tree have the widths of the circuits.
WidthsInv ==
  /\ \A id \in AccountId : InWidths(Leaf(ledger, id))
  /\ block \in 1 .. MaxBlock + 1

CircuitInv == TypeOK /\ WidthsInv

Opening(id) == [leaf |-> Leaf(ledger, id), path |-> Path(LeafHashes(Leaves(ledger)), id)]

LEMMA LeavesInv ==
  ASSUME CircuitInv
  PROVE  /\ Leaves(ledger) \in LeafMaps
         /\ \A id \in AccountId : /\ Leaves(ledger)[id] = Leaf(ledger, id)
                                 /\ Leaf(ledger, id) \in Account
                                 /\ InWidths(Leaf(ledger, id))
<1>1. ledger \in Ledgers
  BY DEF CircuitInv, TypeOK
<1>2. \A l \in Ledgers : /\ Leaves(l) \in LeafMaps
                         /\ \A id \in AccountId : Leaf(l, id) \in Account
  BY LeavesType, LeafType
<1> QED
  BY <1>1, <1>2 DEF Leaves, CircuitInv, WidthsInv

\* There is one witness that opens an account: its leaf and its path.
LEMMA OneOpening ==
  ASSUME CircuitInv, NEW id \in AccountId
  PROVE  Openings(id) = {Opening(id)}
<1> PICK h, leaf : h = LeafHashes(Leaves(ledger)) /\ leaf = Leaf(ledger, id)
  OBVIOUS
<1>1. h[id] = LeafHash(leaf) /\ LedgerRoot(Leaves(ledger)) = Root(h)
  BY LeavesInv DEF LeafHashes, LedgerRoot
<1>2. Opening(id) \in Openings(id)
  <2>1. Opening(id) \in Witnesses
    BY DEF Opening, Witnesses
  <2>2. Ascended(h[id], id, Path(h, id)) = Root(h)
    BY AccountsAreLeaves, PathOpens
  <2> QED
    BY <1>1, <2>1, <2>2 DEF Openings, Opening
<1>3. ASSUME NEW w \in Openings(id) PROVE w = Opening(id)
  <2>1. \E a \in Account, b \in AccountId : InWidths(a) /\ w = [leaf |-> a, path |-> Path(h, b)]
    <3>1. w \in Witnesses
      BY DEF Openings
    <3> QED
      BY <3>1, LeavesInv, DefaultInWidths DEF Witnesses
  <2>2. PICK a \in Account, b \in AccountId : InWidths(a) /\ w = [leaf |-> a, path |-> Path(h, b)]
    BY <2>1
  <2> PICK hash, path : hash = LeafHash(a) /\ path = Path(h, b)
    OBVIOUS
  <2>3. Ascended(hash, id, path) = Root(h)
    BY <1>1, <2>2 DEF Openings
  <2>4. IsPath(path)
    BY PathAt DEF IsPath
  <2>5. hash = h[id] /\ path = Path(h, id)
    BY <2>3, <2>4, AccountsAreLeaves, OpeningUnique
  <2>6. a = leaf
    BY <1>1, <2>2, <2>5, LeavesInv, LeafHashInjective
  <2> QED
    BY <2>2, <2>5, <2>6 DEF Opening
<1> QED
  BY <1>2, <1>3

\* Ascending from a changed leaf one gets the root of the changed tree.
LEMMA ChangedRoot ==
  ASSUME CircuitInv, NEW id \in AccountId, NEW leaf
  PROVE  Ascended(LeafHash(leaf), id, Path(LeafHashes(Leaves(ledger)), id))
           = LedgerRoot([Leaves(ledger) EXCEPT ![id] = leaf])
<1> PICK h, leaves : leaves = Leaves(ledger) /\ h = LeafHashes(leaves) /\ leaves \in LeafMaps
  BY LeavesInv
<1> PICK g : g = LeafHashes([leaves EXCEPT ![id] = leaf])
  OBVIOUS
<1>1. g[id] = LeafHash(leaf) /\ \A k \in AccountId \ {id} : g[k] = h[k]
  BY DEF LeafHashes, LeafMaps
<1>2. Ascended(g[id], id, Path(h, id)) = Root(g)
  BY <1>1, AccountsAreLeaves, PathOpens
<1> QED
  BY <1>1, <1>2 DEF LedgerRoot

----------------------------------------------------------------------------
\* The invariant

LEMMA InitInv ==
  ASSUME Init
  PROVE  CircuitInv
<1>1. TypeOK
  BY DEF Init, TypeOK, Ledgers
<1>2. \A id \in AccountId : Leaf(ledger, id) = DefaultAccount
  BY DEF Init, Leaf
<1>3. block \in 1 .. MaxBlock + 1
  BY CircuitConstants DEF Init
<1> QED
  BY <1>1, <1>2, <1>3, DefaultInWidths DEF CircuitInv, WidthsInv

LEMMA NextLedgerInv ==
  ASSUME CircuitInv, NEW new \in Ledgers, NextLedger(new)
  PROVE  CircuitInv'
<1>1. ledger' = new /\ block' = block + 1 /\ block <= MaxBlock
  BY DEF NextLedger
<1>2. \A id \in AccountId : InWidths(Leaf(new, id))
  BY DEF NextLedger, InWidths, FitsBits
<1>3. block' \in 1 .. MaxBlock + 1 /\ block' \in Nat
  BY <1>1, CircuitConstants DEF CircuitInv, WidthsInv
<1>4. TypeOK'
  BY <1>1, <1>3 DEF TypeOK
<1>5. WidthsInv'
  BY <1>1, <1>2, <1>3 DEF WidthsInv, Leaf, InWidths
<1> QED
  BY <1>4, <1>5 DEF CircuitInv

LEMMA NextInv ==
  ASSUME CircuitInv, [Next]_vars
  PROVE  CircuitInv'
<1>1. ledger \in Ledgers
  BY DEF CircuitInv, TypeOK
<1>2. ASSUME NEW tx \in Transfers, Transfer(tx) PROVE CircuitInv'
  <2>1. tx \in TransferTx
    BY CircuitConstants
  <2>2. \A l \in Ledgers : \A n : TransferValid(l, tx, n) => ApplyTransfer(l, tx) \in Ledgers
    BY <2>1, ApplyTransferType
  <2>3. ApplyTransfer(ledger, tx) \in Ledgers /\ NextLedger(ApplyTransfer(ledger, tx))
    BY <1>1, <1>2, <2>2 DEF Transfer
  <2> QED
    BY <2>3, NextLedgerInv
<1>3. ASSUME NEW tx \in Deposits, Deposit(tx) PROVE CircuitInv'
  <2>1. tx \in DepositTx
    BY CircuitConstants
  <2>2. \A l \in Ledgers : ApplyDeposit(l, tx) \in Ledgers
    BY <2>1, ApplyDepositType
  <2>3. ApplyDeposit(ledger, tx) \in Ledgers /\ NextLedger(ApplyDeposit(ledger, tx))
    BY <1>1, <1>3, <2>2 DEF Deposit
  <2> QED
    BY <2>3, NextLedgerInv
<1>4. ASSUME NEW id \in AccountId, Exit(id) PROVE CircuitInv'
  <2>1. \A l \in Ledgers : ApplyExit(l, id) \in Ledgers
    BY ApplyExitType
  <2>2. ApplyExit(ledger, id) \in Ledgers /\ NextLedger(ApplyExit(ledger, id))
    BY <1>1, <1>4, <2>1 DEF Exit
  <2> QED
    BY <2>2, NextLedgerInv
<1>5. CASE UNCHANGED vars
  BY <1>5 DEF vars, CircuitInv, TypeOK, WidthsInv, Leaf, InWidths
<1> QED
  BY <1>2, <1>3, <1>4, <1>5 DEF Next

\* TypeOK, for every set of requests: what the state keeper goes on with is a
\* ledger, and its numbers have the widths of the circuits.
THEOREM TypesHold == Spec => []CircuitInv
<1>1. Init => CircuitInv
  BY InitInv
<1>2. CircuitInv /\ [Next]_vars => CircuitInv'
  BY NextInv
<1> QED
  BY <1>1, <1>2, PTL DEF Spec

THEOREM TypeCorrect == Spec => []TypeOK
<1>1. CircuitInv => TypeOK
  BY DEF CircuitInv
<1> QED
  BY <1>1, TypesHold, PTL

----------------------------------------------------------------------------
\* Exits

LEMMA LeavesAfterExit ==
  ASSUME CircuitInv, NEW id \in AccountId
  PROVE  Leaves(ApplyExit(ledger, id)) = [Leaves(ledger) EXCEPT ![id] = DefaultAccount]
<1>1. ledger \in Ledgers
  BY DEF CircuitInv, TypeOK
<1>2. \A l \in Ledgers : ApplyExit(Leaves(l), id) = Leaves(ApplyExit(l, id))
  BY LeavesOfExit
<1>3. ApplyExit(Leaves(ledger), id) = Leaves(ApplyExit(ledger, id))
  BY <1>1, <1>2
<1> QED
  BY <1>3 DEF ApplyExit

LEMMA ExitProven ==
  ASSUME CircuitInv, NEW id \in AccountId
  PROVE  ProvenByExit(id) = {[root |-> LedgerRoot(Leaves(ApplyExit(ledger, id))),
                              paid |-> Leaf(ledger, id).balance]}
<1>1. Openings(id) = {Opening(id)}
  BY OneOpening
<1>2. Opening(id).leaf = Leaf(ledger, id)
      /\ Opening(id).path = Path(LeafHashes(Leaves(ledger)), id)
  BY DEF Opening
<1>3. Ascended(LeafHash(ExitedLeaf(Opening(id).leaf)), id, Opening(id).path)
        = LedgerRoot([Leaves(ledger) EXCEPT ![id] = DefaultAccount])
  BY <1>2, ChangedRoot DEF ExitedLeaf
<1>4. Opening(id).leaf.balance % 2^BalanceBits = Leaf(ledger, id).balance
  <2> PICK leaf \in Account : leaf = Leaf(ledger, id) /\ InWidths(leaf)
    BY LeavesInv
  <2>1. leaf.balance \in Nat /\ leaf.balance < 2^BalanceBits
    BY DEF Account, InWidths
  <2>2. leaf.balance % 2^BalanceBits = leaf.balance
    BY <2>1, Widths, RemainderBelow
  <2> QED
    BY <1>2, <2>2
<1>5. ProvenByExit(id) =
        {[root |-> Ascended(LeafHash(ExitedLeaf(Opening(id).leaf)), id, Opening(id).path),
          paid |-> Opening(id).leaf.balance % 2^BalanceBits]}
  BY <1>1 DEF ProvenByExit
<1> QED
  BY <1>3, <1>4, <1>5, LeavesAfterExit

\* ExitsMatch, for every tree and every ledger it can hold: an exit has one
\* proof, of the root the state keeper goes on with, that pays what the account
\* has.
THEOREM ExitsAreProven == Spec => []ExitsMatch
<1>1. CircuitInv => ExitsMatch
  BY ExitProven DEF ExitsMatch
<1> QED
  BY <1>1, TypesHold, PTL

----------------------------------------------------------------------------
\* Deposits

\* The leaf of a deposit in the ledger, and the one the circuit proves.
LedgerLeaf(tx, leaf) ==
  IF leaf.balance = 0 THEN [balance |-> tx.amount, nonce |-> 0, key |-> tx.key]
                      ELSE [leaf EXCEPT !.balance = @ + tx.amount]

CircuitLeaf(tx, leaf) == [leaf EXCEPT !.balance = @ + tx.amount, !.key = tx.key]

\* There is a witness for a leaf of zeroes and for one with the key.
Depositable(tx, leaf) ==
  /\ tx.key # NoKey
  /\ leaf = DefaultAccount \/ leaf.key = tx.key
  /\ FitsBits(leaf.balance + tx.amount, BalanceBits)

LEMMA DepositRequest ==
  ASSUME NEW tx \in Deposits
  PROVE  /\ tx \in DepositTx /\ tx.account \in AccountId
         /\ tx.amount \in Nat /\ tx.key \in Key \cup {NoKey}
         /\ Prime \in Nat /\ 2^BalanceBits + tx.amount < Prime
<1>1. tx \in DepositTx
  BY CircuitConstants
<1>2. Prime \in Nat /\ 2^BalanceBits + tx.amount < Prime
  BY CircuitConstants
<1> QED
  BY <1>1, <1>2 DEF DepositTx

LEMMA LeafParts ==
  ASSUME NEW leaf \in Account
  PROVE  /\ leaf.balance \in Nat /\ leaf.nonce \in Nat /\ leaf.key \in Key \cup {NoKey}
         /\ leaf = [balance |-> leaf.balance, nonce |-> leaf.nonce, key |-> leaf.key]
BY DEF Account

\* A sum that fits does not wrap.
LEMMA DepositPlus ==
  ASSUME NEW tx \in Deposits, NEW leaf \in Account, InWidths(leaf)
  PROVE  Plus(leaf.balance, tx.amount) = leaf.balance + tx.amount
<1>1. leaf.balance \in Nat /\ leaf.balance < 2^BalanceBits
  BY LeafParts DEF InWidths
<1>2. leaf.balance + tx.amount \in Nat /\ leaf.balance + tx.amount < Prime
  BY <1>1, DepositRequest, Widths
<1> QED
  BY <1>2, DepositRequest, RemainderBelow DEF Plus

LEMMA LeavesAfterDeposit ==
  ASSUME CircuitInv, NEW tx \in Deposits
  PROVE  Leaves(ApplyDeposit(ledger, tx))
           = [Leaves(ledger) EXCEPT ![tx.account] = LedgerLeaf(tx, Leaf(ledger, tx.account))]
<1>1. ledger \in Ledgers /\ tx \in DepositTx /\ tx.account \in AccountId
  BY DepositRequest DEF CircuitInv, TypeOK
<1>2. \A l \in Ledgers : ApplyDeposit(Leaves(l), tx) = Leaves(ApplyDeposit(l, tx))
  BY <1>1, LeavesOfDeposit
<1>3. ApplyDeposit(Leaves(ledger), tx) = Leaves(ApplyDeposit(ledger, tx))
  BY <1>1, <1>2
<1>4. \A l \in Ledgers : /\ Leaves(l) \in LeafMaps
                         /\ Leaf(Leaves(l), tx.account) = Leaf(l, tx.account)
                         /\ Leaves(l)[tx.account] = Leaf(l, tx.account)
  BY <1>1, LeavesOfLeaves, LeavesType
<1> PICK leaves, leaf : /\ leaves = Leaves(ledger) /\ leaf = Leaf(ledger, tx.account)
                        /\ leaves \in LeafMaps /\ leaves[tx.account] = leaf
                        /\ Leaf(leaves, tx.account) = leaf
  BY <1>1, <1>4
<1>5. ApplyDeposit(leaves, tx) = [leaves EXCEPT ![tx.account] = LedgerLeaf(tx, leaf)]
  <2>1. CASE leaf.balance = 0
    BY <2>1 DEF ApplyDeposit, LedgerLeaf
  <2>2. CASE leaf.balance # 0
    <3>1. ApplyDeposit(leaves, tx) = [leaves EXCEPT ![tx.account].balance = @ + tx.amount]
      BY <2>2 DEF ApplyDeposit
    <3>2. LedgerLeaf(tx, leaf) = [leaves[tx.account] EXCEPT !.balance = @ + tx.amount]
      BY <2>2 DEF LedgerLeaf
    <3> QED
      BY <3>1, <3>2
  <2> QED
    BY <2>1, <2>2
<1> QED
  BY <1>3, <1>5

\* What a witness of a deposit proves, and when.
KeyAfter(w, leaf) == IF w.isEmpty THEN w.newKey ELSE leaf.key

LeafAfter(w, leaf) ==
  [balance |-> Plus(leaf.balance, w.amount), nonce |-> leaf.nonce, key |-> KeyAfter(w, leaf)]

\* What DepositHolds asks of a witness for this leaf.
DepositAllowed(tx, w, leaf) ==
  /\ EmptyIsZero(w.isEmpty, leaf)
  /\ KeyAfter(w, leaf) = tx.key /\ tx.key # NoKey
  /\ FitsBits(Plus(leaf.balance, w.amount), BalanceBits)

LEMMA DepositWitness ==
  ASSUME CircuitInv, NEW tx \in Deposits, NEW w \in DepositWitnesses(tx),
         NEW leaf, leaf = Leaf(ledger, tx.account)
  PROVE  /\ LeafAfter(w, leaf) \in Account
         /\ DepositHolds(tx, w) <=> DepositAllowed(tx, w, leaf)
         /\ Ascended(LeafHash(UpdatedLeaf(w)), tx.account, w.opening.path)
              = LedgerRoot([Leaves(ledger) EXCEPT ![tx.account] = LeafAfter(w, leaf)])
<1> PICK key : key = KeyAfter(w, leaf)
  OBVIOUS
<1> PICK sum : sum = Plus(leaf.balance, w.amount)
  OBVIOUS
<1> PICK made : made = LeafAfter(w, leaf)
  OBVIOUS
<1>0. key = (IF w.isEmpty THEN w.newKey ELSE leaf.key)
      /\ made = [balance |-> sum, nonce |-> leaf.nonce, key |-> key]
  BY DEF KeyAfter, LeafAfter
<1>1. w.opening = Opening(tx.account)
  <2>1. Openings(tx.account) = {Opening(tx.account)}
    BY OneOpening, DepositRequest
  <2> QED
    BY <2>1 DEF DepositWitnesses
<1>2. w.opening.leaf = leaf /\ w.opening.path = Path(LeafHashes(Leaves(ledger)), tx.account)
  BY <1>1 DEF Opening
<1>3. leaf \in Account /\ key \in Key \cup {NoKey}
  BY <1>0, LeavesInv, DepositRequest, LeafParts DEF DepositWitnesses
<1>4. sum \in Nat
  <2>1. w.amount \in Nat /\ leaf.balance \in Nat /\ Prime \in Nat \ {0}
    BY <1>3, LeafParts, DepositRequest, Widths DEF DepositWitnesses, Elements
  <2> QED
    BY <2>1 DEF Plus
<1>5. UpdatedLeaf(w) = [leaf EXCEPT !.balance = sum, !.key = key]
  BY <1>0, <1>2 DEF UpdatedLeaf
<1>6. UpdatedLeaf(w) \in Account
  BY <1>3, <1>4, <1>5 DEF Account
<1>7. UpdatedLeaf(w).balance = sum /\ UpdatedLeaf(w).nonce = leaf.nonce /\ UpdatedLeaf(w).key = key
  BY <1>3, <1>5 DEF Account
<1>8. UpdatedLeaf(w) = made
  BY <1>0, <1>6, <1>7, LeafParts
<1>9. DepositHolds(tx, w) <=>
        /\ EmptyIsZero(w.isEmpty, leaf)
        /\ key = tx.key /\ tx.key # NoKey
        /\ FitsBits(sum, BalanceBits)
  BY <1>2, <1>7 DEF DepositHolds
<1>10. Ascended(LeafHash(made), tx.account, w.opening.path)
         = LedgerRoot([Leaves(ledger) EXCEPT ![tx.account] = made])
  BY <1>2, ChangedRoot, DepositRequest
<1> QED
  BY <1>6, <1>8, <1>9, <1>10 DEF DepositAllowed

\* The witnesses that add the amount of the request.
Exactly(tx) == {w \in DepositWitnesses(tx) : w.amount = tx.amount}

\* What they prove, and when there is one.
LEMMA DepositProven ==
  ASSUME CircuitInv, NEW tx \in Deposits
  PROVE  ProvenByDeposit(tx, Exactly(tx)) =
           {root \in {LedgerRoot([Leaves(ledger) EXCEPT
                                    ![tx.account] = CircuitLeaf(tx, Leaf(ledger, tx.account))])} :
              Depositable(tx, Leaf(ledger, tx.account))}
<1> PICK leaf \in Account : leaf = Leaf(ledger, tx.account) /\ InWidths(leaf)
  BY LeavesInv, DepositRequest
<1> PICK witnesses : witnesses = Exactly(tx)
  OBVIOUS
<1> PICK proven : proven = CircuitLeaf(tx, leaf)
  OBVIOUS
<1> PICK root : root = LedgerRoot([Leaves(ledger) EXCEPT ![tx.account] = proven])
  OBVIOUS
<1>1. ASSUME NEW w \in witnesses
      PROVE  /\ DepositHolds(tx, w) <=>
                  /\ w.isEmpty => leaf = DefaultAccount
                  /\ (IF w.isEmpty THEN w.newKey ELSE leaf.key) = tx.key /\ tx.key # NoKey
                  /\ FitsBits(leaf.balance + tx.amount, BalanceBits)
             /\ DepositHolds(tx, w) =>
                  Ascended(LeafHash(UpdatedLeaf(w)), tx.account, w.opening.path) = root
  <2>1. w \in DepositWitnesses(tx) /\ w.amount = tx.amount
    BY DEF Exactly
  <2> PICK key : key = KeyAfter(w, leaf)
    OBVIOUS
  <2> PICK made : made = LeafAfter(w, leaf)
    OBVIOUS
  <2>2. /\ leaf.balance + tx.amount = Plus(leaf.balance, w.amount)
        /\ key = (IF w.isEmpty THEN w.newKey ELSE leaf.key)
        /\ made = [balance |-> leaf.balance + tx.amount, nonce |-> leaf.nonce, key |-> key]
    BY <2>1, DepositPlus DEF KeyAfter, LeafAfter
  <2>3. /\ LeafAfter(w, leaf) \in Account
        /\ DepositHolds(tx, w) <=> DepositAllowed(tx, w, leaf)
        /\ Ascended(LeafHash(UpdatedLeaf(w)), tx.account, w.opening.path)
             = LedgerRoot([Leaves(ledger) EXCEPT ![tx.account] = LeafAfter(w, leaf)])
    BY <2>1, DepositWitness
  <2>4. key = tx.key => made = proven
    <3>1. proven = [leaf EXCEPT !.balance = leaf.balance + tx.amount, !.key = tx.key]
      BY DEF CircuitLeaf
    <3>2. proven = [balance |-> leaf.balance + tx.amount, nonce |-> leaf.nonce, key |-> tx.key]
      BY <3>1 DEF Account
    <3> QED
      BY <2>2, <3>2
  <2> QED
    BY <2>2, <2>3, <2>4 DEF DepositAllowed, EmptyIsZero
<1>2. ASSUME Depositable(tx, leaf) PROVE \E w \in witnesses : DepositHolds(tx, w)
  <2> PICK isEmpty \in BOOLEAN : isEmpty <=> leaf = DefaultAccount
    OBVIOUS
  <2> PICK w : w = [opening |-> Opening(tx.account), amount |-> tx.amount,
                    isEmpty |-> isEmpty, newKey |-> tx.key]
    OBVIOUS
  <2>1. Opening(tx.account) \in Openings(tx.account)
    BY OneOpening, DepositRequest
  <2>2. tx.amount \in Elements(tx.amount, BalanceBits)
    <3>1. tx.amount \in 0 .. Prime - 1
      BY DepositRequest, Widths
    <3> QED
      BY <3>1 DEF Elements
  <2>3. tx.key \in Key \cup {NoKey}
    BY DepositRequest
  <2>4. w \in witnesses
    BY <2>1, <2>2, <2>3 DEF Exactly, DepositWitnesses
  <2>5. w.isEmpty = isEmpty /\ w.newKey = tx.key
    OBVIOUS
  <2>6. DepositHolds(tx, w)
    BY <1>1, <1>2, <2>4, <2>5 DEF Depositable
  <2> QED
    BY <2>4, <2>6
<1>3. \A w \in witnesses : DepositHolds(tx, w) => Depositable(tx, leaf)
  BY <1>1 DEF Depositable
<1>4. \A x : x \in ProvenByDeposit(tx, witnesses) <=>
        \E w \in witnesses : /\ DepositHolds(tx, w)
                             /\ x = Ascended(LeafHash(UpdatedLeaf(w)), tx.account, w.opening.path)
  BY DEF ProvenByDeposit
<1>5. \A x : x \in ProvenByDeposit(tx, witnesses) <=> x = root /\ Depositable(tx, leaf)
  BY <1>1, <1>2, <1>3, <1>4
<1> QED
  BY <1>5

LEMMA LedgerLeafFits ==
  ASSUME NEW tx \in Deposits, NEW leaf \in Account, InWidths(leaf),
         FitsBits(leaf.balance + tx.amount, BalanceBits)
  PROVE  LedgerLeaf(tx, leaf) \in Account /\ InWidths(LedgerLeaf(tx, leaf))
<1> PICK b \in Nat, a \in Nat, n \in Nat : b = leaf.balance /\ a = tx.amount /\ n = leaf.nonce
  BY LeafParts, DepositRequest
<1>1. b + a < 2^BalanceBits /\ n < 2^NonceBits
  BY DEF FitsBits, InWidths
<1>2. CASE b = 0
  <2>1. LedgerLeaf(tx, leaf) = [balance |-> a, nonce |-> 0, key |-> tx.key]
    BY <1>2 DEF LedgerLeaf
  <2>2. b + a = a /\ 0 < 2^NonceBits
    BY <1>2, Widths
  <2> QED
    BY <1>1, <2>1, <2>2, DepositRequest DEF Account, InWidths
<1>3. CASE b # 0
  <2> PICK made : made = LedgerLeaf(tx, leaf)
    OBVIOUS
  <2>1. made = [leaf EXCEPT !.balance = b + a]
    BY <1>3 DEF LedgerLeaf
  <2>2. made \in Account /\ made.balance = b + a /\ made.nonce = n
    BY <2>1 DEF Account
  <2> QED
    BY <1>1, <2>2 DEF InWidths
<1> QED
  BY <1>2, <1>3

\* Where the two leaves are the same.
LEMMA DepositLeaves ==
  ASSUME NEW tx \in Deposits, NEW leaf \in Account, InWidths(leaf), Depositable(tx, leaf)
  PROVE  /\ LedgerLeaf(tx, leaf) \in Account /\ InWidths(LedgerLeaf(tx, leaf))
         /\ CircuitLeaf(tx, leaf) \in Account /\ InWidths(CircuitLeaf(tx, leaf))
         /\ CircuitLeaf(tx, leaf) = LedgerLeaf(tx, leaf) <=> (leaf.balance = 0 => leaf.nonce = 0)
<1> PICK b \in Nat, n \in Nat, k \in Key \cup {NoKey} :
           leaf = [balance |-> b, nonce |-> n, key |-> k]
  BY LeafParts
<1>1. leaf.balance = b /\ leaf.nonce = n /\ leaf.key = k
  OBVIOUS
<1>2. b + tx.amount \in Nat /\ tx.amount \in Nat /\ tx.key \in Key \cup {NoKey}
  BY DepositRequest
<1>3. b + tx.amount < 2^BalanceBits /\ n < 2^NonceBits
  BY <1>1 DEF Depositable, FitsBits, InWidths
<1>4. CircuitLeaf(tx, leaf) = [balance |-> b + tx.amount, nonce |-> n, key |-> tx.key]
  <2> PICK c \in Nat, key \in Key \cup {NoKey} : c = b + tx.amount /\ key = tx.key
    BY <1>2
  <2>1. CircuitLeaf(tx, leaf) = [leaf EXCEPT !.balance = c, !.key = key]
    <3>1. leaf.balance + tx.amount = c
      BY <1>1
    <3> QED
      BY <3>1 DEF CircuitLeaf
  <2>2. [leaf EXCEPT !.balance = c, !.key = key] = [balance |-> c, nonce |-> n, key |-> key]
    <3> PICK made : made = [leaf EXCEPT !.balance = c, !.key = key]
      OBVIOUS
    <3>1. made \in Account
      BY DEF Account
    <3>2. made.balance = c /\ made.nonce = leaf.nonce /\ made.key = key
      BY DEF Account
    <3> QED
      BY <1>1, <3>1, <3>2, LeafParts
  <2> QED
    BY <2>1, <2>2
<1>5. CASE b = 0
  <2>1. LedgerLeaf(tx, leaf) = [balance |-> tx.amount, nonce |-> 0, key |-> tx.key]
    BY <1>1, <1>5 DEF LedgerLeaf
  <2>2. b + tx.amount = tx.amount /\ tx.amount < 2^BalanceBits /\ 0 < 2^NonceBits
    BY <1>2, <1>3, <1>5, Widths
  <2> QED
    BY <1>1, <1>2, <1>3, <1>4, <1>5, <2>1, <2>2 DEF Account, InWidths
<1>6. CASE b # 0
  <2>1. LedgerLeaf(tx, leaf) = [balance |-> b + tx.amount, nonce |-> n, key |-> k]
    BY <1>1, <1>6 DEF LedgerLeaf
  <2>2. k = tx.key
    BY <1>1, <1>6 DEF Depositable, DefaultAccount
  <2> QED
    BY <1>1, <1>2, <1>3, <1>4, <1>6, <2>1, <2>2 DEF Account, InWidths
<1> QED
  BY <1>5, <1>6

\* The roots are the same when the leaves are.
LEMMA DepositRoots ==
  ASSUME CircuitInv, NEW tx \in Deposits, Depositable(tx, Leaf(ledger, tx.account))
  PROVE  LedgerRoot([Leaves(ledger) EXCEPT
                       ![tx.account] = CircuitLeaf(tx, Leaf(ledger, tx.account))])
           = RootAfterDeposit(tx)
         <=> (Leaf(ledger, tx.account).balance = 0 => Leaf(ledger, tx.account).nonce = 0)
<1> PICK leaf \in Account : leaf = Leaf(ledger, tx.account) /\ InWidths(leaf)
  BY LeavesInv, DepositRequest
<1> PICK leaves \in LeafMaps : /\ leaves = Leaves(ledger)
                               /\ \A id \in AccountId : InWidths(leaves[id])
  BY LeavesInv
<1> PICK proven, made : proven = CircuitLeaf(tx, leaf) /\ made = LedgerLeaf(tx, leaf)
  OBVIOUS
<1>1. /\ proven \in Account /\ InWidths(proven) /\ made \in Account /\ InWidths(made)
      /\ proven = made <=> (leaf.balance = 0 => leaf.nonce = 0)
  BY DepositLeaves
<1> PICK f, g : f = [leaves EXCEPT ![tx.account] = proven] /\ g = [leaves EXCEPT ![tx.account] = made]
  OBVIOUS
<1>2. tx.account \in AccountId
  BY DepositRequest
<1>3. /\ f \in LeafMaps /\ g \in LeafMaps
      /\ f[tx.account] = proven /\ g[tx.account] = made
      /\ \A id \in AccountId : InWidths(f[id]) /\ InWidths(g[id])
  BY <1>1, <1>2 DEF LeafMaps
<1>4. RootAfterDeposit(tx) = LedgerRoot(g)
  BY LeavesAfterDeposit DEF RootAfterDeposit
<1>5. LedgerRoot(f) = LedgerRoot(g) => proven = made
  BY <1>3, LedgerRootInjective
<1>6. proven = made => f = g
  OBVIOUS
<1> QED
  BY <1>1, <1>4, <1>5, <1>6

LEMMA ProverProves ==
  ASSUME CircuitInv, NEW tx \in Deposits
  PROVE  ProvedByProver(tx) <=> DepositProvable(ledger, tx) /\ DepositFits(tx)
<1> PICK leaf \in Account : leaf = Leaf(ledger, tx.account) /\ InWidths(leaf)
  BY LeavesInv, DepositRequest
<1> PICK path : path = Path(LeafHashes(Leaves(ledger)), tx.account)
  OBVIOUS
<1> DEFINE taken == IF leaf.balance = 0 THEN DefaultAccount ELSE leaf
           key == IF leaf.balance = 0 THEN tx.key ELSE leaf.key
<1> PICK w : w = ProverWitness(tx)
  OBVIOUS
<1>0. w.amount = tx.amount
  BY DEF ProverWitness
<1>1. /\ w.opening = [leaf |-> taken, path |-> path] /\ w.opening.leaf = taken
      /\ w.isEmpty = (leaf.balance = 0) /\ w.newKey = key
  BY DEF ProverWitness
<1>2. w.opening \in Openings(tx.account) <=> (leaf.balance = 0 => leaf = DefaultAccount)
  <2>1. Openings(tx.account) = {Opening(tx.account)}
    BY OneOpening, DepositRequest
  <2>2. Opening(tx.account) = [leaf |-> leaf, path |-> path]
    BY DEF Opening
  <2>3. w.opening \in Openings(tx.account) <=> taken = leaf
    BY <1>1, <2>1, <2>2
  <2> QED
    BY <2>3
<1>3. ASSUME leaf.balance = 0 => leaf = DefaultAccount
      PROVE  DepositHolds(tx, w) <=>
               /\ tx.key # NoKey /\ tx.key = key
               /\ FitsBits(leaf.balance + tx.amount, BalanceBits)
  <2>1. taken = leaf
    BY <1>3
  <2>2. Plus(leaf.balance, tx.amount) = leaf.balance + tx.amount
    BY DepositPlus
  <2>3. UpdatedLeaf(w) = [leaf EXCEPT !.balance = Plus(@, tx.amount),
                                      !.key = IF w.isEmpty THEN w.newKey ELSE @]
    BY <1>0, <1>1, <2>1 DEF UpdatedLeaf
  <2>4. UpdatedLeaf(w).balance = leaf.balance + tx.amount /\ UpdatedLeaf(w).key = key
    BY <1>1, <2>2, <2>3 DEF Account
  <2>5. EmptyIsZero(w.isEmpty, w.opening.leaf)
    BY <1>1 DEF EmptyIsZero
  <2> HIDE DEF key
  <2> QED
    BY <2>4, <2>5 DEF DepositHolds
<1>4. DepositFits(tx) <=> FitsBits(leaf.balance + tx.amount, BalanceBits)
  BY DEF DepositFits
<1>5. DepositProvable(ledger, tx) <=>
        tx.key # NoKey /\ tx.key = key /\ (leaf.balance = 0 => leaf = DefaultAccount)
  BY DEF DepositProvable
<1> HIDE DEF key
<1> QED
  BY <1>2, <1>3, <1>4, <1>5 DEF ProvedByProver

\* Used: funds, or no nonce; with Depositable this is what the ledger says can
\* be proved, or the leaf that has nothing but the key.
LEMMA DepositCases ==
  ASSUME CircuitInv, NEW tx \in Deposits
  PROVE  /\ DepositProvable(ledger, tx) \/ OnlyKeyed(Leaf(ledger, tx.account), tx.key)
         /\ DepositFits(tx)
         <=>
         /\ Depositable(tx, Leaf(ledger, tx.account))
         /\ Leaf(ledger, tx.account).balance = 0 => Leaf(ledger, tx.account).nonce = 0
<1> PICK leaf \in Account : leaf = Leaf(ledger, tx.account) /\ InWidths(leaf)
  BY LeavesInv, DepositRequest
<1> PICK b \in Nat, n \in Nat, k \in Key \cup {NoKey} :
           /\ leaf = [balance |-> b, nonce |-> n, key |-> k]
           /\ leaf.balance = b /\ leaf.nonce = n /\ leaf.key = k
  BY LeafParts
<1>1. leaf = DefaultAccount <=> b = 0 /\ n = 0 /\ k = NoKey
  BY DEF DefaultAccount
<1>2. OnlyKeyed(leaf, tx.key) <=> tx.key # NoKey /\ b = 0 /\ n = 0 /\ k = tx.key
  BY DEF OnlyKeyed, DefaultAccount
<1>3. DepositProvable(ledger, tx) <=>
        tx.key # NoKey /\ IF b = 0 THEN leaf = DefaultAccount ELSE tx.key = k
  BY DEF DepositProvable
<1>4. DepositFits(tx) <=> FitsBits(leaf.balance + tx.amount, BalanceBits)
  BY DEF DepositFits
<1> QED
  BY <1>1, <1>2, <1>3, <1>4 DEF Depositable

\* Whatever is added: the ledger's root is that of a deposit with a witness.
LEMMA LedgersRootProven ==
  ASSUME CircuitInv, NEW tx \in Deposits, DepositFits(tx),
         RootAfterDeposit(tx) \in ProvenByDeposit(tx, DepositWitnesses(tx))
  PROVE  /\ Depositable(tx, Leaf(ledger, tx.account))
         /\ Leaf(ledger, tx.account).balance = 0 => Leaf(ledger, tx.account).nonce = 0
<1> PICK leaf \in Account : leaf = Leaf(ledger, tx.account) /\ InWidths(leaf)
  BY LeavesInv, DepositRequest
<1> PICK leaves \in LeafMaps : /\ leaves = Leaves(ledger)
                               /\ \A id \in AccountId : InWidths(leaves[id])
  BY LeavesInv
<1>1. PICK w \in DepositWitnesses(tx) :
        /\ DepositHolds(tx, w)
        /\ RootAfterDeposit(tx) = Ascended(LeafHash(UpdatedLeaf(w)), tx.account, w.opening.path)
  BY DEF ProvenByDeposit
<1> PICK proven : proven = LeafAfter(w, leaf)
  OBVIOUS
<1>2. /\ proven \in Account
      /\ DepositAllowed(tx, w, leaf)
      /\ RootAfterDeposit(tx) = LedgerRoot([leaves EXCEPT ![tx.account] = proven])
  BY <1>1, DepositWitness
<1>3. FitsBits(leaf.balance + tx.amount, BalanceBits)
  BY DEF DepositFits
<1> PICK made : made = LedgerLeaf(tx, leaf)
  OBVIOUS
<1>4. made \in Account /\ InWidths(made)
  BY <1>3, LedgerLeafFits
<1>5. RootAfterDeposit(tx) = LedgerRoot([leaves EXCEPT ![tx.account] = made])
  BY LeavesAfterDeposit DEF RootAfterDeposit
<1>6. InWidths(proven)
  BY <1>2 DEF InWidths, FitsBits, LeafAfter, DepositAllowed
<1> PICK f, g : f = [leaves EXCEPT ![tx.account] = proven] /\ g = [leaves EXCEPT ![tx.account] = made]
  OBVIOUS
<1>7. /\ f \in LeafMaps /\ g \in LeafMaps /\ f[tx.account] = proven /\ g[tx.account] = made
      /\ \A id \in AccountId : InWidths(f[id]) /\ InWidths(g[id])
  BY <1>2, <1>4, <1>6, DepositRequest DEF LeafMaps
<1>8. proven = made
  <2>1. LedgerRoot(f) = LedgerRoot(g)
    BY <1>2, <1>5
  <2>2. f = g
    BY <1>7, <2>1, LedgerRootInjective
  <2> QED
    BY <1>7, <2>2
<1>9. leaf.balance = 0 => leaf.nonce = 0
  <2>1. leaf.balance = 0 => made.nonce = 0
    BY DEF LedgerLeaf
  <2>2. proven.nonce = leaf.nonce
    BY DEF LeafAfter
  <2> QED
    BY <1>8, <2>1, <2>2
<1> QED
  BY <1>2, <1>3, <1>9 DEF Depositable, DepositAllowed, EmptyIsZero, KeyAfter

LEMMA DepositMatches ==
  ASSUME CircuitInv, NEW tx \in Deposits
  PROVE  LET leaf  == Leaf(ledger, tx.account)
             any   == ProvenByDeposit(tx, DepositWitnesses(tx))
             exact == ProvenByDeposit(tx, {w \in DepositWitnesses(tx) : w.amount = tx.amount})
         IN  /\ DepositProvable(ledger, tx) /\ DepositFits(tx) <=> ProvedByProver(tx)
             /\ exact # {} => DepositFits(tx)
             /\ ~UsedUp(leaf) => exact \subseteq {RootAfterDeposit(tx)}
             /\ DepositFits(tx) => (RootAfterDeposit(tx) \in any
                                      <=> DepositProvable(ledger, tx) \/ OnlyKeyed(leaf, tx.key))
<1> PICK leaf : leaf = Leaf(ledger, tx.account)
  OBVIOUS
<1> PICK root : root = LedgerRoot([Leaves(ledger) EXCEPT ![tx.account] = CircuitLeaf(tx, leaf)])
  OBVIOUS
<1> PICK any, exact : /\ any = ProvenByDeposit(tx, DepositWitnesses(tx))
                      /\ exact = ProvenByDeposit(tx, Exactly(tx))
  OBVIOUS
<1>1. exact = {r \in {root} : Depositable(tx, leaf)}
  BY DepositProven
<1>2. exact \subseteq any
  BY DEF ProvenByDeposit, Exactly
<1>3. Depositable(tx, leaf) =>
        (root = RootAfterDeposit(tx) <=> (leaf.balance = 0 => leaf.nonce = 0))
  BY DepositRoots
<1>4. exact # {} => DepositFits(tx)
  BY <1>1 DEF Depositable, DepositFits
<1>5. ~UsedUp(leaf) => exact \subseteq {RootAfterDeposit(tx)}
  BY <1>1, <1>3 DEF UsedUp
<1>6. ASSUME DepositFits(tx)
      PROVE  RootAfterDeposit(tx) \in any <=>
               Depositable(tx, leaf) /\ (leaf.balance = 0 => leaf.nonce = 0)
  BY <1>1, <1>2, <1>3, <1>6, LedgersRootProven
<1>7. DepositFits(tx) =>
        (RootAfterDeposit(tx) \in any <=> DepositProvable(ledger, tx) \/ OnlyKeyed(leaf, tx.key))
  BY <1>6, DepositCases
<1> QED
  BY <1>4, <1>5, <1>7, ProverProves DEF Exactly

\* DepositsMatch, for every tree, every ledger it can hold and every width of
\* the numbers.  The prover proves what DepositProvable says.  With the amount of
\* the request no other root is proved, but for an account that was used and has
\* no funds; with any element that has the published bits the ledger's root is
\* proved for those deposits alone and for a leaf with nothing but the right key.
\* What roots the other elements prove is not claimed.
THEOREM DepositsAreProven == Spec => []DepositsMatch
<1>1. CircuitInv => DepositsMatch
  BY DepositMatches DEF DepositsMatch
<1> QED
  BY <1>1, TypesHold, PTL

----------------------------------------------------------------------------
\* Encoded amounts

\* The exponents for which PowersOfBase says what the powers are.
Exponents == 0 .. 2^AmountExponent + 2^FeeExponent

LEMMA ExponentsInRange ==
  ASSUME NEW bits \in {AmountExponent, FeeExponent}
  PROVE  /\ 2^bits \in Nat \ {0} /\ 2^bits - 1 \in Nat
         /\ 0 .. 2^bits - 1 \subseteq Exponents /\ Exponents \subseteq Nat
<1>1. 2^AmountExponent \in Nat \ {0} /\ 2^FeeExponent \in Nat \ {0}
  BY CircuitConstants, PowerIsPositive
<1>2. PICK a \in Nat \ {0}, f \in Nat \ {0} : a = 2^AmountExponent /\ f = 2^FeeExponent
  BY <1>1
<1>3. 2^bits = a \/ 2^bits = f
  BY <1>2
<1>4. Exponents = 0 .. a + f
  BY <1>2 DEF Exponents
<1> QED
  BY <1>3, <1>4

LEMMA ProductPositive ==
  ASSUME NEW a \in Nat \ {0}, NEW b \in Nat \ {0}
  PROVE  a * b \in Nat \ {0} /\ a <= a * b /\ b <= a * b
<1>1. PICK x \in Nat, y \in Nat : a = x + 1 /\ b = y + 1
  <2>1. a - 1 \in Nat /\ b - 1 \in Nat /\ a = (a - 1) + 1 /\ b = (b - 1) + 1
    OBVIOUS
  <2> QED
    BY <2>1
<1>2. a * b = x * y + x + y + 1 /\ x * y \in Nat
  BY <1>1
<1> QED
  BY <1>1, <1>2

LEMMA ProductMonotone ==
  ASSUME NEW a \in Nat, NEW b \in Nat, NEW c \in Nat, a <= b
  PROVE  a * c <= b * c /\ c * a <= c * b
<1>1. PICK d \in Nat : b = a + d
  <2>1. b - a \in Nat /\ b = a + (b - a)
    OBVIOUS
  <2> QED
    BY <2>1
<1>2. (a + d) * c = a * c + d * c /\ d * c \in Nat /\ a * c \in Nat
  OBVIOUS
<1>3. c * (a + d) = c * a + c * d /\ c * d \in Nat /\ c * a \in Nat
  OBVIOUS
<1>4. a * c <= (a + d) * c /\ c * a <= c * (a + d)
  BY <1>2, <1>3
<1> QED
  BY <1>1, <1>4

\* Powers of the base are multiples of the smaller ones.
LEMMA PowersDivide ==
  ASSUME NEW e \in Exponents, NEW d \in Exponents, d <= e
  PROVE  /\ Base^d \in Nat \ {0} /\ Base^e \in Nat \ {0}
         /\ \E q \in Nat \ {0} : Base^e = Base^d * q
<1>1. Exponents \subseteq Nat /\ \A i \in Nat : i + 1 \in Exponents => i \in Exponents
  BY ExponentsInRange DEF Exponents
<1>2. Base \in Nat \ {0} /\ Base^0 = 1 /\ \A i \in Exponents : Base^(i + 1) = Base * Base^i
  BY PowersOfBase DEF Exponents
<1> DEFINE P == {i \in Nat : i \in Exponents => Base^i \in Nat \ {0}}
<1>3. 0 \in P
  BY <1>2
<1>4. ASSUME NEW i \in Nat, i \in P PROVE i + 1 \in P
  <2>1. SUFFICES ASSUME i + 1 \in Exponents PROVE Base^(i + 1) \in Nat \ {0}
    OBVIOUS
  <2>2. i \in Exponents /\ Base^i \in Nat \ {0}
    BY <1>1, <1>4, <2>1
  <2>3. Base * Base^i \in Nat \ {0}
    BY <1>2, <2>2, ProductPositive
  <2> QED
    BY <1>2, <2>2, <2>3
<1> HIDE DEF P
<1>5. Nat \subseteq P
  BY <1>3, <1>4, NatSetInduction
<1>6. \A i \in Exponents : Base^i \in Nat \ {0}
  BY <1>1, <1>5 DEF P
<1> DEFINE T == {j \in Nat : d + j \in Exponents => \E q \in Nat \ {0} : Base^(d + j) = Base^d * q}
<1>7. 0 \in T
  <2>1. d + 0 = d /\ Base^d = Base^d * 1
    BY <1>1, <1>6
  <2> QED
    BY <2>1
<1>8. ASSUME NEW j \in Nat, j \in T PROVE j + 1 \in T
  <2>1. SUFFICES ASSUME d + (j + 1) \in Exponents
                 PROVE  \E q \in Nat \ {0} : Base^(d + (j + 1)) = Base^d * q
    OBVIOUS
  <2>2. d + j \in Nat /\ (d + j) + 1 = d + (j + 1) /\ d + j \in Exponents
    BY <1>1, <2>1
  <2>3. PICK q \in Nat \ {0} : Base^(d + j) = Base^d * q
    BY <1>8, <2>2
  <2>4. Base^(d + (j + 1)) = Base * Base^(d + j)
    BY <1>2, <2>2
  <2>5. PICK p \in Nat \ {0}, b \in Nat \ {0} : p = Base^d /\ b = Base
    BY <1>2, <1>6
  <2>6. b * (p * q) = p * (b * q)
    OBVIOUS
  <2>7. b * q \in Nat \ {0}
    BY ProductPositive
  <2> QED
    BY <2>3, <2>4, <2>5, <2>6, <2>7
<1> HIDE DEF T
<1>9. e - d \in T /\ d + (e - d) = e
  <2>1. e - d \in Nat /\ d + (e - d) = e
    BY <1>1
  <2> QED
    BY <1>7, <1>8, <2>1, NatSetInduction
<1> QED
  BY <1>6, <1>9 DEF T

\* The condition on the exponent: no smaller one leaves a mantissa of the width.
IsExponent(e, n, limit) ==
  /\ n <= limit * Base^e
  /\ e > 0 => n > limit * Base^(e - 1)

LEMMA LeastExponent ==
  ASSUME NEW bits \in {AmountExponent, FeeExponent}, NEW limit \in Nat, NEW n \in Nat,
         n <= limit * Base^(2^bits - 1)
  PROVE  \E e \in 0 .. 2^bits - 1 : IsExponent(e, n, limit)
<1> PICK last \in Nat : last = 2^bits - 1
  BY ExponentsInRange
<1>1. SUFFICES ASSUME \A e \in 0 .. last : ~IsExponent(e, n, limit) PROVE FALSE
  OBVIOUS
<1>2. \A i \in 0 .. last : limit * Base^i \in Nat
  <2>1. \A i \in 0 .. last : Base^i \in Nat
    BY ExponentsInRange, PowersDivide
  <2>2. \A i \in 0 .. last : \A p \in Nat : limit * p \in Nat
    OBVIOUS
  <2> QED
    BY <2>1, <2>2
<1> DEFINE T == {i \in Nat : i <= last => n > limit * Base^i}
<1>3. 0 \in T
  <2>1. 0 \in 0 .. last /\ ~(0 > 0)
    OBVIOUS
  <2>2. ~(n <= limit * Base^0) /\ limit * Base^0 \in Nat
    BY <1>1, <1>2, <2>1 DEF IsExponent
  <2> QED
    BY <2>2
<1>4. ASSUME NEW i \in Nat, i \in T PROVE i + 1 \in T
  <2>1. SUFFICES ASSUME i + 1 <= last PROVE n > limit * Base^(i + 1)
    OBVIOUS
  <2>2. i + 1 \in 0 .. last /\ (i + 1) - 1 = i /\ n > limit * Base^i
    BY <1>4, <2>1
  <2>3. ~(n <= limit * Base^(i + 1)) /\ limit * Base^(i + 1) \in Nat
    BY <1>1, <1>2, <2>2 DEF IsExponent
  <2> QED
    BY <2>3
<1> HIDE DEF T
<1>5. last \in T
  BY <1>3, <1>4, NatSetInduction
<1>6. n > limit * Base^last /\ limit * Base^last \in Nat
  BY <1>2, <1>5 DEF T
<1> QED
  BY <1>6

LEMMA EncodedAt ==
  ASSUME NEW bits \in {AmountExponent, FeeExponent}, NEW width \in {AmountMantissa, FeeMantissa},
         NEW n \in Nat, n <= Largest(bits, width)
  PROVE  \E e \in 0 .. 2^bits - 1 : /\ IsExponent(e, n, 2^width - 1)
                                   /\ Parsed(Encoded(n, bits, width)) = (n \div Base^e) * Base^e
<1> PICK limit \in Nat : limit = 2^width - 1
  <2>1. 2^width \in Nat \ {0}
    BY CircuitConstants, PowerIsPositive
  <2> QED
    BY <2>1
<1> PICK e : e = CHOOSE x \in 0 .. 2^bits - 1 : IsExponent(x, n, limit)
  OBVIOUS
<1>1. \E x \in 0 .. 2^bits - 1 : IsExponent(x, n, limit)
  BY LeastExponent DEF Largest
<1>2. e \in 0 .. 2^bits - 1 /\ IsExponent(e, n, limit)
  BY <1>1
<1>3. Encoded(n, bits, width) = [exponent |-> e, mantissa |-> n \div Base^e]
  BY DEF Encoded, IsExponent
<1>4. Parsed(Encoded(n, bits, width)) = (n \div Base^e) * Base^e
  BY <1>3 DEF Parsed
<1> QED
  BY <1>2, <1>4

\* What the encoding stands for is no more than the number, and is the number
\* exactly when that is some mantissa times some power of the base.
LEMMA EncodingRoundsDown ==
  ASSUME NEW bits \in {AmountExponent, FeeExponent}, NEW width \in {AmountMantissa, FeeMantissa},
         NEW n \in Nat, n <= Largest(bits, width)
  PROVE  /\ Parsed(Encoded(n, bits, width)) \in Nat
         /\ Parsed(Encoded(n, bits, width)) <= n
         /\ Parsed(Encoded(n, bits, width)) = n <=> IsFloat(n, bits, width)
<1> PICK limit \in Nat : limit = 2^width - 1
  <2>1. 2^width \in Nat \ {0}
    BY CircuitConstants, PowerIsPositive
  <2> QED
    BY <2>1
<1>1. PICK e \in 0 .. 2^bits - 1 : /\ IsExponent(e, n, limit)
                                   /\ Parsed(Encoded(n, bits, width)) = (n \div Base^e) * Base^e
  BY EncodedAt
<1>2. e \in Exponents /\ e \in Nat
  BY ExponentsInRange
<1> PICK p \in Nat \ {0} : p = Base^e
  BY <1>2, PowersDivide
<1> PICK m \in Nat : m = n \div p
  BY DivisionOf
<1>3. p * m \in Nat /\ p * m <= n /\ m * p = p * m
  BY DivisionOf
<1> PICK parsed : parsed = Parsed(Encoded(n, bits, width)) /\ parsed = p * m
  BY <1>1, <1>3
<1>4. ASSUME parsed = n PROVE IsFloat(n, bits, width)
  <2>1. n <= limit * p
    BY <1>1 DEF IsExponent
  <2>2. p * (limit + 1) = limit * p + p /\ limit * p \in Nat
    OBVIOUS
  <2>3. n < p * (limit + 1)
    BY <2>1, <2>2
  <2>4. m < limit + 1
    <3> PICK c \in Nat : c = limit + 1
      OBVIOUS
    <3>1. n < p * c
      BY <2>3
    <3> QED
      BY <3>1, DivisionBelow
  <2>5. m \in 0 .. limit
    BY <2>4
  <2> QED
    BY <1>3, <1>4, <2>5 DEF IsFloat
<1>5. ASSUME IsFloat(n, bits, width) PROVE parsed = n
  <2>1. PICK d \in 0 .. 2^bits - 1, k \in 0 .. limit : n = k * Base^d
    BY <1>5 DEF IsFloat
  <2>2. d \in Exponents /\ d \in Nat /\ k \in Nat
    BY ExponentsInRange
  <2>3. PICK r \in Nat \ {0} : r = Base^d
    BY <2>2, PowersDivide
  <2>4. e <= d
    <3>1. SUFFICES ASSUME d < e PROVE FALSE
      BY <1>2, <2>2
    <3>2. e - 1 \in Exponents /\ d <= e - 1 /\ e > 0
      BY <1>2, <2>2, <3>1, ExponentsInRange DEF Exponents
    <3>3. PICK q \in Nat \ {0} : Base^(e - 1) = r * q
      BY <2>2, <2>3, <3>2, PowersDivide
    <3>4. n > limit * (r * q)
      BY <1>1, <3>2, <3>3 DEF IsExponent
    <3>5. r <= r * q /\ r * q \in Nat
      BY ProductPositive
    <3>6. PICK x \in Nat : x = r * q /\ limit * r <= limit * x
      BY <3>5, ProductMonotone
    <3>7. k * r <= limit * r
      BY <2>1, <2>2, ProductMonotone
    <3>8. n = k * r /\ k * r \in Nat /\ limit * r \in Nat /\ limit * x \in Nat
      BY <2>1, <2>2, <2>3, <3>6
    <3>9. n > limit * x
      BY <3>4, <3>6
    <3> QED
      BY <3>9, <3>6, <3>7, <3>8
  <2>5. PICK q \in Nat \ {0} : r = p * q
    BY <1>2, <2>2, <2>3, <2>4, PowersDivide
  <2>6. n = p * (k * q) /\ k * q \in Nat
    <3>1. k * (p * q) = p * (k * q)
      BY <2>2
    <3> QED
      BY <2>1, <2>2, <2>3, <2>5, <3>1
  <2>7. m = k * q
    <3> PICK c \in Nat : c = k * q
      BY <2>6
    <3>1. p * c <= n /\ n < p * c + p
      BY <2>6
    <3> QED
      BY <3>1, DivisionUnique
  <2> QED
    BY <2>6, <2>7
<1> QED
  BY <1>3, <1>4, <1>5

----------------------------------------------------------------------------
\* Where two paths meet

LEMMA SameAbove ==
  ASSUME NEW from \in AccountId, NEW to \in AccountId, NEW low \in 0 .. Depth,
         Above(from, low) = Above(to, low)
  PROVE  \A level \in low .. Depth : Above(from, level) = Above(to, level)
<1> DEFINE T == {n \in Nat : low + n <= Depth => Above(from, low + n) = Above(to, low + n)}
<1>1. 0 \in T
  <2>1. low + 0 = low
    OBVIOUS
  <2> QED
    BY <2>1
<1>2. ASSUME NEW n \in Nat, n \in T PROVE n + 1 \in T
  <2>1. SUFFICES ASSUME low + (n + 1) <= Depth PROVE Above(from, low + (n + 1)) = Above(to, low + (n + 1))
    OBVIOUS
  <2>2. PICK level \in 0 .. Depth - 1 : level = low + n /\ level + 1 = low + (n + 1)
    BY <2>1, DepthPositive
  <2>3. Above(from, level) = Above(to, level)
    BY <1>2, <2>1, <2>2, DepthPositive
  <2>4. Above(from, level + 1) = Above(from, level) \div 2
        /\ Above(to, level + 1) = Above(to, level) \div 2
    BY AccountsAreLeaves, AboveLeaf
  <2> QED
    BY <2>2, <2>3, <2>4
<1> HIDE DEF T
<1>3. Nat \subseteq T
  BY <1>1, <1>2, NatSetInduction
<1>4. ASSUME NEW level \in low .. Depth PROVE Above(from, level) = Above(to, level)
  <2>1. level - low \in Nat /\ low + (level - low) = level /\ level <= Depth
    BY DepthPositive
  <2>2. level - low \in T
    BY <1>3, <2>1
  <2> QED
    BY <2>1, <2>2 DEF T
<1> QED
  BY <1>4

LEMMA BitOf ==
  ASSUME NEW address, NEW level
  PROVE  Bit(address, level) = Above(address, level) % 2
BY DEF Bit, Above

\* Two different positions with the same one above are siblings.
LEMMA Siblings ==
  ASSUME NEW a \in Nat, NEW b \in Nat, a # b, a \div 2 = b \div 2
  PROVE  Sibling(a) = b /\ Sibling(b) = a /\ a % 2 # b % 2
<1> PICK q \in Nat, x \in {0, 1} : q = a \div 2 /\ x = a % 2
  BY HalvesOf
<1> PICK y \in {0, 1} : y = b % 2
  BY HalvesOf
<1>1. a = 2 * q + x /\ b = 2 * q + y
  BY HalvesOf
<1>2. x # y
  BY <1>1
<1>3. Sibling(a) = (IF x = 0 THEN a + 1 ELSE a - 1) /\ Sibling(b) = (IF y = 0 THEN b + 1 ELSE b - 1)
  BY DEF Sibling
<1> QED
  BY <1>1, <1>2, <1>3

\* From m + 1 on the two paths are the same, at m they are siblings.
MeetAt(m, from, to) ==
  /\ \A level \in 0 .. m : Above(from, level) # Above(to, level)
  /\ \A level \in m + 1 .. Depth : Above(from, level) = Above(to, level)
  /\ Sibling(Above(from, m)) = Above(to, m) /\ Sibling(Above(to, m)) = Above(from, m)

LEMMA TheyMeet ==
  ASSUME NEW from \in AccountId, NEW to \in AccountId, from # to
  PROVE  \E m \in 0 .. Depth - 1 : MeetAt(m, from, to)
<1>1. \E m \in 0 .. Depth - 1 : /\ Above(from, m) # Above(to, m)
                                /\ Above(from, m + 1) = Above(to, m + 1)
  <2>1. SUFFICES ASSUME \A m \in 0 .. Depth - 1 :
                          Above(from, m) # Above(to, m) => Above(from, m + 1) # Above(to, m + 1)
                 PROVE  FALSE
    OBVIOUS
  <2> DEFINE T == {n \in Nat : n <= Depth => Above(from, n) # Above(to, n)}
  <2>2. 0 \in T
    BY AccountsAreLeaves, AboveLeaf
  <2>3. ASSUME NEW n \in Nat, n \in T PROVE n + 1 \in T
    <3>1. SUFFICES ASSUME n + 1 <= Depth PROVE Above(from, n + 1) # Above(to, n + 1)
      OBVIOUS
    <3>2. n \in 0 .. Depth - 1 /\ n <= Depth
      BY <3>1, DepthPositive
    <3> QED
      BY <2>1, <2>3, <3>2
  <2> HIDE DEF T
  <2>4. Depth \in T /\ Depth <= Depth
    BY <2>2, <2>3, NatSetInduction, DepthPositive
  <2>5. Above(from, Depth) # Above(to, Depth)
    BY <2>4 DEF T
  <2> QED
    BY <2>5, AccountsAreLeaves, AboveLeaf
<1>2. PICK m \in 0 .. Depth - 1 : /\ Above(from, m) # Above(to, m)
                                  /\ Above(from, m + 1) = Above(to, m + 1)
  BY <1>1
<1>3. m \in Nat /\ m \in 0 .. Depth /\ m + 1 \in 0 .. Depth
  BY DepthPositive
<1>4. \A level \in 0 .. m : Above(from, level) # Above(to, level)
  <2>1. ASSUME NEW level \in 0 .. m, Above(from, level) = Above(to, level) PROVE FALSE
    <3>1. level \in 0 .. Depth /\ m \in level .. Depth
      BY <1>3, DepthPositive
    <3> QED
      BY <1>2, <2>1, <3>1, SameAbove
  <2> QED
    BY <2>1
<1>5. \A level \in m + 1 .. Depth : Above(from, level) = Above(to, level)
  BY <1>2, <1>3, SameAbove
<1>6. Sibling(Above(from, m)) = Above(to, m) /\ Sibling(Above(to, m)) = Above(from, m)
  <2> PICK a, b : a = Above(from, m) /\ b = Above(to, m)
    OBVIOUS
  <2>1. a \in Nat /\ b \in Nat
    BY <1>3, AccountsAreLeaves, AboveLeaf, ParentPosition
  <2>2. Above(from, m + 1) = a \div 2 /\ Above(to, m + 1) = b \div 2
    BY AccountsAreLeaves, AboveLeaf
  <2> QED
    BY <1>2, <2>1, <2>2, Siblings
<1> QED
  BY <1>4, <1>5, <1>6 DEF MeetAt

\* find_common_prefix and find_intersection_point find this level.
LEMMA SharedAndIntersection ==
  ASSUME NEW from \in AccountId, NEW to \in AccountId, NEW m \in 0 .. Depth - 1, MeetAt(m, from, to)
  PROVE  /\ SharedLevels(from, to) = m + 1 .. Depth - 1
         /\ \A level \in 0 .. Depth - 1 : Intersects(level, from, to) <=> level = m
<1>1. m \in Nat /\ Depth \in Nat /\ m \in 0 .. Depth /\ m + 1 \in 0 .. Depth
  BY DepthPositive
<1>2. Bit(from, m) # Bit(to, m)
  <2> PICK a, b : a = Above(from, m) /\ b = Above(to, m)
    OBVIOUS
  <2>1. a \in Nat /\ b \in Nat
    BY <1>1, AccountsAreLeaves, AboveLeaf, ParentPosition
  <2>2. a # b
    BY <1>1 DEF MeetAt
  <2>3. a \div 2 = b \div 2
    BY <1>1, AccountsAreLeaves, AboveLeaf DEF MeetAt
  <2> QED
    BY <2>1, <2>2, <2>3, Siblings, BitOf
<1>3. \A level \in m + 1 .. Depth - 1 : Bit(from, level) = Bit(to, level)
  <2> SUFFICES ASSUME NEW level \in m + 1 .. Depth - 1 PROVE Bit(from, level) = Bit(to, level)
    OBVIOUS
  <2>1. level \in m + 1 .. Depth
    BY <1>1
  <2> QED
    BY <2>1, BitOf DEF MeetAt
<1>4. ASSUME NEW level \in 0 .. Depth - 1
      PROVE  level \in SharedLevels(from, to) <=> level \in m + 1 .. Depth - 1
  <2>1. ASSUME level \in m + 1 .. Depth - 1 PROVE level \in SharedLevels(from, to)
    <3>1. \A above \in level .. Depth - 1 : above \in m + 1 .. Depth - 1
      BY <1>1, <2>1
    <3> QED
      BY <1>3, <3>1 DEF SharedLevels
  <2>2. ASSUME level \notin m + 1 .. Depth - 1 PROVE level \notin SharedLevels(from, to)
    <3>1. m \in level .. Depth - 1
      BY <1>1, <2>2
    <3> QED
      BY <1>2, <3>1 DEF SharedLevels
  <2> QED
    BY <2>1, <2>2
<1>5. SharedLevels(from, to) = m + 1 .. Depth - 1
  <2>1. SharedLevels(from, to) \subseteq 0 .. Depth - 1
    BY DEF SharedLevels
  <2>2. m + 1 .. Depth - 1 \subseteq 0 .. Depth - 1
    BY <1>1
  <2> QED
    BY <1>4, <2>1, <2>2
<1>6. Cardinality(SharedLevels(from, to)) = Depth - 1 - m
  <2>1. m + 1 \in Int /\ Depth - 1 \in Int
    BY <1>1
  <2>2. Cardinality(m + 1 .. Depth - 1)
          = IF m + 1 > Depth - 1 THEN 0 ELSE (Depth - 1) - (m + 1) + 1
    BY <2>1, FS_Interval
  <2>3. Cardinality(m + 1 .. Depth - 1) = Depth - 1 - m
    BY <1>1, <2>2
  <2> QED
    BY <1>5, <2>3
<1>7. \A level \in 0 .. Depth - 1 : Intersects(level, from, to) <=> level = m
  <2>1. (Depth - 1) - (Depth - 1 - m) = m
    BY <1>1
  <2> QED
    BY <1>6, <2>1 DEF Intersects
<1> QED
  BY <1>5, <1>7

\* Equal addresses meet nowhere.
LEMMA NoIntersection ==
  ASSUME NEW id \in AccountId, NEW level \in 0 .. Depth - 1
  PROVE  ~Intersects(level, id, id)
<1>1. SharedLevels(id, id) = 0 .. Depth - 1
  BY DEF SharedLevels
<1>2. 0 \in Int /\ Depth - 1 \in Int /\ Depth \in Nat \ {0}
  BY DepthPositive
<1>3. Cardinality(0 .. Depth - 1) = IF 0 > Depth - 1 THEN 0 ELSE (Depth - 1) - 0 + 1
  BY <1>2, FS_Interval
<1>4. Cardinality(SharedLevels(id, id)) = Depth
  BY <1>1, <1>2, <1>3
<1> QED
  BY <1>2, <1>4 DEF Intersects

----------------------------------------------------------------------------
\* Assembling the new root from two paths

\* One level of both paths, as Assembled has it.
Joined(below, level, tx, wf, wt) ==
  LET meet == Intersects(level, tx.from, tx.to)
  IN  [from |-> Parent(level, Bit(tx.from, level), below.from,
                       IF meet THEN below.to ELSE wf.path[level]),
       to   |-> Parent(level, Bit(tx.to, level), below.to,
                       IF meet THEN below.from ELSE wt.path[level])]

AssemblyStep(up, level, tx, fromHash, toHash, wf, wt) ==
  IF level = 0 THEN [from |-> fromHash, to |-> toHash]
  ELSE Joined(up[level - 1], level - 1, tx, wf, wt)

IsAssembly(up, tx, fromHash, toHash, wf, wt) ==
  up = [level \in 0 .. Depth |-> AssemblyStep(up, level, tx, fromHash, toHash, wf, wt)]

LEMMA AssemblyUnfold ==
  ASSUME NEW tx, NEW fromHash, NEW toHash, NEW wf, NEW wt
  PROVE  Assembled(tx, fromHash, toHash, wf, wt)
           = (CHOOSE up : IsAssembly(up, tx, fromHash, toHash, wf, wt))[Depth]
BY DEF Assembled, IsAssembly, AssemblyStep, Joined

LEMMA AssemblyExists ==
  ASSUME NEW tx, NEW fromHash, NEW toHash, NEW wf, NEW wt
  PROVE  \E up : IsAssembly(up, tx, fromHash, toHash, wf, wt)
<1> DEFINE Step(up, level) == AssemblyStep(up, level, tx, fromHash, toHash, wf, wt)
           T == {n \in Nat : \E up : \A level \in 0 .. n : up[level] = Step(up, level)}
<1>0. ASSUME NEW f, NEW g, NEW n \in Nat, \A level \in 0 .. n - 1 : f[level] = g[level]
      PROVE  \A level \in 0 .. n : Step(f, level) = Step(g, level)
  <2> SUFFICES ASSUME NEW level \in 0 .. n PROVE Step(f, level) = Step(g, level)
    OBVIOUS
  <2>1. CASE level = 0
    BY <2>1 DEF AssemblyStep
  <2>2. CASE level # 0
    <3>1. level - 1 \in 0 .. n - 1
      BY <2>2
    <3>2. f[level - 1] = g[level - 1]
      BY <1>0, <3>1
    <3> QED
      BY <2>2, <3>2 DEF AssemblyStep
  <2> QED
    BY <2>1, <2>2
<1>1. 0 \in T
  <2> DEFINE up == [level \in {0} |-> Step([i \in {} |-> 0], 0)]
  <2>1. up[0] = Step(up, 0)
    BY DEF AssemblyStep
  <2> HIDE DEF up, Step
  <2>2. \A level \in 0 .. 0 : up[level] = Step(up, level)
    BY <2>1
  <2> QED
    BY <2>2
<1> HIDE DEF Step
<1>2. ASSUME NEW n \in Nat, n \in T PROVE n + 1 \in T
  <2>1. PICK f : \A level \in 0 .. n : f[level] = Step(f, level)
    BY <1>2
  <2> DEFINE up == [level \in 0 .. n + 1 |-> IF level = n + 1 THEN Step(f, n + 1) ELSE f[level]]
  <2>2. /\ \A level \in 0 .. n : up[level] = f[level]
        /\ up[n + 1] = Step(f, n + 1)
    OBVIOUS
  <2> HIDE DEF up
  <2>3. \A level \in 0 .. n + 1 : Step(up, level) = Step(f, level)
    <3>1. n + 1 \in Nat /\ (n + 1) - 1 = n
      OBVIOUS
    <3> QED
      BY <1>0, <2>2, <3>1
  <2>4. \A level \in 0 .. n + 1 : up[level] = Step(up, level)
    <3> SUFFICES ASSUME NEW level \in 0 .. n + 1 PROVE up[level] = Step(up, level)
      OBVIOUS
    <3>1. level \in 0 .. n \/ level = n + 1
      OBVIOUS
    <3> QED
      BY <2>1, <2>2, <2>3, <3>1
  <2> QED
    BY <2>4
<1> HIDE DEF T
<1>3. Depth \in T /\ Depth \in Nat
  BY <1>1, <1>2, NatSetInduction, DepthPositive
<1>4. PICK f : \A level \in 0 .. Depth : f[level] = Step(f, level)
  BY <1>3 DEF T
<1> DEFINE up == [level \in 0 .. Depth |-> f[level]]
<1>5. \A level \in 0 .. Depth : up[level] = f[level]
  OBVIOUS
<1>6. up = [level \in 0 .. Depth |-> up[level]]
  OBVIOUS
<1> HIDE DEF up
<1>7. \A level \in 0 .. Depth - 1 : up[level] = f[level]
  BY <1>3, <1>5
<1>8. \A level \in 0 .. Depth : up[level] = Step(up, level)
  BY <1>0, <1>3, <1>4, <1>5, <1>7
<1>9. up = [level \in 0 .. Depth |-> Step(up, level)]
  BY <1>6, <1>8
<1> QED
  BY <1>9 DEF IsAssembly, Step

LEMMA AssemblyAt ==
  ASSUME NEW tx, NEW fromHash, NEW toHash, NEW wf, NEW wt
  PROVE  \E up : /\ up[0] = [from |-> fromHash, to |-> toHash]
                 /\ \A level \in 0 .. Depth - 1 :
                      up[level + 1] = Joined(up[level], level, tx, wf, wt)
                 /\ Assembled(tx, fromHash, toHash, wf, wt) = up[Depth]
<1>1. PICK up : up = CHOOSE u : IsAssembly(u, tx, fromHash, toHash, wf, wt)
  OBVIOUS
<1>2. up = [level \in 0 .. Depth |-> AssemblyStep(up, level, tx, fromHash, toHash, wf, wt)]
  <2>1. IsAssembly(up, tx, fromHash, toHash, wf, wt)
    BY <1>1, AssemblyExists
  <2> QED
    BY <2>1 DEF IsAssembly
<1>3. \A level \in 0 .. Depth : up[level] = AssemblyStep(up, level, tx, fromHash, toHash, wf, wt)
  BY <1>2
<1>4. up[0] = [from |-> fromHash, to |-> toHash]
  BY <1>3, DepthPositive DEF AssemblyStep
<1>5. ASSUME NEW level \in 0 .. Depth - 1
      PROVE  up[level + 1] = Joined(up[level], level, tx, wf, wt)
  <2>1. level + 1 \in 0 .. Depth /\ (level + 1) - 1 = level /\ level + 1 # 0
    BY DepthPositive
  <2>2. up[level + 1] = AssemblyStep(up, level + 1, tx, fromHash, toHash, wf, wt)
    BY <1>3, <2>1
  <2> QED
    BY <2>1, <2>2 DEF AssemblyStep
<1> QED
  BY <1>1, <1>4, <1>5, AssemblyUnfold

LEMMA SiblingHalf ==
  ASSUME NEW k \in Nat
  PROVE  Sibling(k) \div 2 = k \div 2
<1> PICK q \in Nat, x \in {0, 1} : q = k \div 2 /\ x = k % 2
  BY HalvesOf
<1>1. k = 2 * q + x
  BY HalvesOf
<1>2. Sibling(k) = IF x = 0 THEN k + 1 ELSE k - 1
  BY DEF Sibling
<1>3. Sibling(k) = 2 * q \/ Sibling(k) = 2 * q + 1
  BY <1>1, <1>2
<1>4. (2 * q) \div 2 = q /\ (2 * q + 1) \div 2 = q
  OBVIOUS
<1> QED
  BY <1>3, <1>4

\* Away from both paths the hashes do not depend on the two leaves.
LEMMA OffBothStays ==
  ASSUME NEW h, NEW g, NEW from \in AccountId, NEW to \in AccountId,
         \A k \in AccountId \ {from, to} : g[k] = h[k],
         NEW level \in 0 .. Depth, NEW k \in Positions(level),
         k # Above(from, level), k # Above(to, level)
  PROVE  Hashes(g)[level][k] = Hashes(h)[level][k]
<1> PICK f : f = [i \in AccountId |-> IF i = from THEN g[i] ELSE h[i]]
  OBVIOUS
<1>1. \A i \in AccountId \ {from} : f[i] = h[i]
  OBVIOUS
<1>2. \A i \in AccountId \ {to} : g[i] = f[i]
  OBVIOUS
<1>3. Hashes(f)[level][k] = Hashes(h)[level][k]
  BY <1>1, AccountsAreLeaves, OffPathStays
<1>4. Hashes(g)[level][k] = Hashes(f)[level][k]
  BY <1>2, AccountsAreLeaves, OffPathStays
<1> QED
  BY <1>3, <1>4

\* Below the meeting point and above it, the path of the old tree is one of
\* the new.
LEMMA PathStays ==
  ASSUME NEW h, NEW g, NEW from \in AccountId, NEW to \in AccountId,
         \A k \in AccountId \ {from, to} : g[k] = h[k],
         NEW m \in 0 .. Depth - 1, MeetAt(m, from, to), NEW level \in 0 .. Depth - 1, level # m
  PROVE  /\ Path(h, from)[level] = Hashes(g)[level][Sibling(Above(from, level))]
         /\ Path(h, to)[level] = Hashes(g)[level][Sibling(Above(to, level))]
<1>1. level \in 0 .. Depth /\ level + 1 \in 0 .. Depth /\ m \in Nat
  BY DepthPositive
<1> PICK x, y : x = Above(from, level) /\ y = Above(to, level)
  OBVIOUS
<1>2. /\ x \in Positions(level) /\ y \in Positions(level) /\ x \in Nat /\ y \in Nat
      /\ Sibling(x) \in Positions(level) \ {x} /\ Sibling(y) \in Positions(level) \ {y}
  BY <1>1, AccountsAreLeaves, AboveLeaf, ParentPosition, SiblingOffPath
<1>3. Sibling(x) # y /\ Sibling(y) # x
  <2>1. CASE level > m
    <3>1. x = y
      BY <1>1, <2>1 DEF MeetAt
    <3> QED
      BY <1>2, <3>1
  <2>2. CASE level < m
    <3>1. level + 1 \in 0 .. m
      BY <1>1, <2>2
    <3>2. Above(from, level + 1) = x \div 2 /\ Above(to, level + 1) = y \div 2
      BY AccountsAreLeaves, AboveLeaf
    <3>3. x \div 2 # y \div 2
      BY <3>1, <3>2 DEF MeetAt
    <3> QED
      BY <1>2, <3>3, SiblingHalf
  <2>3. level > m \/ level < m
    BY <1>1
  <2> QED
    BY <2>1, <2>2, <2>3
<1>4. Path(h, from)[level] = Hashes(h)[level][Sibling(x)]
      /\ Path(h, to)[level] = Hashes(h)[level][Sibling(y)]
  BY PathAt
<1>5. ASSUME NEW k \in Positions(level), k # x, k # y
      PROVE  Hashes(g)[level][k] = Hashes(h)[level][k]
  BY <1>1, <1>5, OffBothStays
<1>6. Hashes(g)[level][Sibling(x)] = Hashes(h)[level][Sibling(x)]
      /\ Hashes(g)[level][Sibling(y)] = Hashes(h)[level][Sibling(y)]
  BY <1>2, <1>3, <1>5
<1> QED
  BY <1>4, <1>6

\* The trees h and g differ in two leaves, and the witnesses have the paths of h.
OldPaths(h, g, tx, wf, wt) ==
  /\ tx.from \in AccountId /\ tx.to \in AccountId /\ tx.from # tx.to
  /\ \A k \in AccountId \ {tx.from, tx.to} : g[k] = h[k]
  /\ wf.path = Path(h, tx.from) /\ wt.path = Path(h, tx.to)

\* For every two accounts both branches arrive at the root of the new tree.
LEMMA JoinedRoot ==
  ASSUME NEW h, NEW g, NEW tx, NEW wf, NEW wt, OldPaths(h, g, tx, wf, wt)
  PROVE  Assembled(tx, g[tx.from], g[tx.to], wf, wt).from = Root(g)
         /\ Assembled(tx, g[tx.from], g[tx.to], wf, wt).to = Root(g)
<1> PICK from \in AccountId, to \in AccountId : from = tx.from /\ to = tx.to
  BY DEF OldPaths
<1> PICK a : a = Hashes(g)
  OBVIOUS
<1>0. /\ from # to /\ \A k \in AccountId \ {from, to} : g[k] = h[k]
      /\ wf.path = Path(h, from) /\ wt.path = Path(h, to)
  BY DEF OldPaths
<1>1. PICK m \in 0 .. Depth - 1 : MeetAt(m, from, to)
  BY <1>0, TheyMeet
<1>2. \A level \in 0 .. Depth - 1 : Intersects(level, from, to) <=> level = m
  BY <1>1, SharedAndIntersection
<1>3. PICK up : /\ up[0] = [from |-> g[from], to |-> g[to]]
                /\ \A level \in 0 .. Depth - 1 :
                     up[level + 1] = Joined(up[level], level, tx, wf, wt)
                /\ Assembled(tx, g[from], g[to], wf, wt) = up[Depth]
  BY AssemblyAt
<1> DEFINE Here(level) == /\ up[level].from = a[level][Above(from, level)]
                          /\ up[level].to = a[level][Above(to, level)]
<1>4. ASSUME NEW level \in 0 .. Depth - 1, Here(level) PROVE Here(level + 1)
  <2> PICK x, y : x = Above(from, level) /\ y = Above(to, level)
    OBVIOUS
  <2>1. x \in Positions(level) /\ y \in Positions(level)
    BY AccountsAreLeaves, AboveLeaf, DepthPositive
  <2>2. /\ up[level + 1].from = Parent(level, x % 2, a[level][x],
                                       IF level = m THEN a[level][y] ELSE wf.path[level])
        /\ up[level + 1].to = Parent(level, y % 2, a[level][y],
                                     IF level = m THEN a[level][x] ELSE wt.path[level])
    <3>1. up[level + 1] = Joined(up[level], level, tx, wf, wt)
      BY <1>3
    <3>2. Bit(from, level) = x % 2 /\ Bit(to, level) = y % 2
      BY BitOf
    <3> QED
      BY <1>2, <1>4, <3>1, <3>2 DEF Joined
  <2>3. (IF level = m THEN a[level][y] ELSE wf.path[level]) = a[level][Sibling(x)]
        /\ (IF level = m THEN a[level][x] ELSE wt.path[level]) = a[level][Sibling(y)]
    <3>1. CASE level = m
      BY <1>1, <3>1 DEF MeetAt
    <3>2. CASE level # m
      BY <1>0, <1>1, <3>2, PathStays
    <3> QED
      BY <3>1, <3>2
  <2>4. Above(from, level + 1) = x \div 2 /\ Above(to, level + 1) = y \div 2
    BY AccountsAreLeaves, AboveLeaf
  <2>5. a[level + 1][x \div 2] = Parent(level, x % 2, a[level][x], a[level][Sibling(x)])
        /\ a[level + 1][y \div 2] = Parent(level, y % 2, a[level][y], a[level][Sibling(y)])
    BY <2>1, ParentInTree
  <2> QED
    BY <2>2, <2>3, <2>4, <2>5
<1>5. Here(0)
  BY <1>3, AccountsAreLeaves, HashesAt, AboveLeaf
<1> HIDE DEF Here
<1> DEFINE T == {level \in Nat : level <= Depth => Here(level)}
<1>6. 0 \in T
  BY <1>5
<1>7. ASSUME NEW level \in Nat, level \in T PROVE level + 1 \in T
  <2>1. SUFFICES ASSUME level + 1 <= Depth PROVE Here(level + 1)
    OBVIOUS
  <2>2. level \in 0 .. Depth - 1 /\ level <= Depth
    BY <2>1, DepthPositive
  <2> QED
    BY <1>4, <1>7, <2>2
<1> HIDE DEF T
<1>8. Here(Depth)
  <2>1. Depth \in T /\ Depth <= Depth
    BY <1>6, <1>7, NatSetInduction, DepthPositive
  <2> QED
    BY <2>1 DEF T
<1> QED
  BY <1>3, <1>8, AccountsAreLeaves, AboveLeaf DEF Here, Root

\* For one account taken twice each branch arrives at the root of the tree
\* with its own leaf.
LEMMA NotJoinedRoots ==
  ASSUME NEW h, NEW tx, tx.from \in AccountId, tx.from = tx.to, NEW fromHash, NEW toHash,
         NEW wf, NEW wt, wf.path = Path(h, tx.from), wt.path = Path(h, tx.to),
         Assembled(tx, fromHash, toHash, wf, wt).from = Assembled(tx, fromHash, toHash, wf, wt).to
  PROVE  fromHash = toHash
<1> PICK id \in AccountId : id = tx.from
  OBVIOUS
<1> PICK path : path = Path(h, id)
  OBVIOUS
<1>1. PICK up : /\ up[0] = [from |-> fromHash, to |-> toHash]
                /\ \A level \in 0 .. Depth - 1 :
                     up[level + 1] = Joined(up[level], level, tx, wf, wt)
                /\ Assembled(tx, fromHash, toHash, wf, wt) = up[Depth]
  BY AssemblyAt
<1>2. ASSUME NEW level \in 0 .. Depth - 1
      PROVE  /\ up[level + 1].from = Parent(level, Bit(id, level), up[level].from, path[level])
             /\ up[level + 1].to = Parent(level, Bit(id, level), up[level].to, path[level])
  <2>1. ~Intersects(level, id, id)
    BY NoIntersection
  <2>2. up[level + 1] = Joined(up[level], level, tx, wf, wt)
    BY <1>1
  <2> QED
    BY <2>1, <2>2 DEF Joined
<1> DEFINE T == {n \in Nat : n <= Depth => up[Depth - n].from = up[Depth - n].to}
<1>3. 0 \in T
  <2>1. Depth - 0 = Depth
    BY DepthPositive
  <2> QED
    BY <1>1, <2>1
<1>4. ASSUME NEW n \in Nat, n \in T PROVE n + 1 \in T
  <2>1. SUFFICES ASSUME n + 1 <= Depth PROVE up[Depth - (n + 1)].from = up[Depth - (n + 1)].to
    OBVIOUS
  <2>2. PICK level \in 0 .. Depth - 1 : level = Depth - (n + 1) /\ level + 1 = Depth - n
    BY <2>1, DepthPositive
  <2>3. up[level + 1].from = up[level + 1].to
    BY <1>4, <2>1, <2>2, DepthPositive
  <2>4. Parent(level, Bit(id, level), up[level].from, path[level])
          = Parent(level, Bit(id, level), up[level].to, path[level])
    BY <1>2, <2>3
  <2>5. up[level].from = up[level].to
    BY <2>4, ParentInjective
  <2> QED
    BY <2>2, <2>5
<1> HIDE DEF T
<1>5. up[0].from = up[0].to
  <2>1. Depth \in T /\ Depth <= Depth /\ Depth - Depth = 0
    BY <1>3, <1>4, NatSetInduction, DepthPositive
  <2> QED
    BY <2>1 DEF T
<1> QED
  BY <1>1, <1>5

----------------------------------------------------------------------------
\* Transfers

\* What the lemmas assume of a transfer: as it is signed, or as it is encoded.
Sendable(t) ==
  /\ t \in TransferTx
  /\ 2^BalanceBits + t.amount + t.fee < Prime

LEMMA SendableParts ==
  ASSUME NEW t, Sendable(t)
  PROVE  /\ t \in TransferTx /\ t.from \in AccountId /\ t.to \in AccountId /\ t.signer \in Key
         /\ t.amount \in Nat /\ t.fee \in Nat /\ t.nonce \in Nat /\ t.goodUntil \in Nat
         /\ Prime \in Nat /\ 2^BalanceBits + t.amount + t.fee < Prime
BY CircuitConstants DEF Sendable, TransferTx

LEMMA TransferRequest ==
  ASSUME NEW tx \in Transfers
  PROVE  /\ Sendable(tx) /\ tx.goodUntil < 2^BlockBits
         /\ tx.amount <= Largest(AmountExponent, AmountMantissa)
         /\ tx.fee <= Largest(FeeExponent, FeeMantissa)
<1>1. tx \in TransferTx
  BY CircuitConstants
<1>2. /\ 2^BalanceBits + tx.amount + tx.fee < Prime /\ tx.goodUntil < 2^BlockBits
      /\ tx.amount <= Largest(AmountExponent, AmountMantissa)
      /\ tx.fee <= Largest(FeeExponent, FeeMantissa)
  BY CircuitConstants
<1> QED
  BY <1>1, <1>2 DEF Sendable

\* The encoded amounts are no larger; the rest of the transfer stays.
LEMMA RoundedRequest ==
  ASSUME NEW tx \in Transfers
  PROVE  /\ Sendable(Rounded(tx))
         /\ Rounded(tx).from = tx.from /\ Rounded(tx).to = tx.to /\ Rounded(tx).nonce = tx.nonce
         /\ Rounded(tx).goodUntil = tx.goodUntil /\ Rounded(tx).signer = tx.signer
         /\ Rounded(tx).amount <= tx.amount /\ Rounded(tx).fee <= tx.fee
         /\ Rounded(tx).amount = tx.amount /\ Rounded(tx).fee = tx.fee <=> AmountsExact(tx)
         /\ AmountsExact(tx) => Rounded(tx) = tx
<1>1. /\ tx \in TransferTx /\ tx.amount \in Nat /\ tx.fee \in Nat /\ Prime \in Nat
      /\ 2^BalanceBits + tx.amount + tx.fee < Prime
  BY TransferRequest, SendableParts
<1> PICK a, f : /\ a = Parsed(Encoded(tx.amount, AmountExponent, AmountMantissa))
                /\ f = Parsed(Encoded(tx.fee, FeeExponent, FeeMantissa))
  OBVIOUS
<1>2. /\ a \in Nat /\ a <= tx.amount
      /\ a = tx.amount <=> IsFloat(tx.amount, AmountExponent, AmountMantissa)
  BY <1>1, TransferRequest, EncodingRoundsDown
<1>3. /\ f \in Nat /\ f <= tx.fee
      /\ f = tx.fee <=> IsFloat(tx.fee, FeeExponent, FeeMantissa)
  BY <1>1, TransferRequest, EncodingRoundsDown
<1> PICK e : e = Rounded(tx)
  OBVIOUS
<1>4. e = [tx EXCEPT !.amount = a, !.fee = f]
  BY DEF Rounded
<1>5. /\ e \in TransferTx /\ e.amount = a /\ e.fee = f
      /\ e.from = tx.from /\ e.to = tx.to /\ e.nonce = tx.nonce
      /\ e.goodUntil = tx.goodUntil /\ e.signer = tx.signer
  BY <1>1, <1>2, <1>3, <1>4 DEF TransferTx
<1>6. 2^BalanceBits + a + f < Prime
  BY <1>1, <1>2, <1>3, Widths
<1>7. Sendable(e)
  BY <1>1, <1>5, <1>6 DEF Sendable
<1>8. a = tx.amount /\ f = tx.fee => e = tx
  BY <1>1, <1>5 DEF TransferTx
<1> QED
  BY <1>2, <1>3, <1>5, <1>7, <1>8 DEF AmountsExact

\* Differences in the field: a negative one wraps to the top of the field.
LEMMA MinusWraps ==
  ASSUME NEW a \in Nat, NEW b \in Nat, Prime \in Nat, a < Prime, b < Prime
  PROVE  Minus(a, b) = IF b <= a THEN a - b ELSE a + Prime - b
<1> PICK p \in Nat : p = Prime
  OBVIOUS
<1>1. CASE b <= a
  <2> PICK d \in Nat : d = a - b
    BY <1>1
  <2>1. a + p - b = p + d /\ d < p /\ p \in Nat \ {0}
    BY <1>1
  <2>2. (p + d) % p = d
    BY <2>1
  <2> QED
    BY <1>1, <2>1, <2>2 DEF Minus
<1>2. CASE ~(b <= a)
  <2> PICK d \in Nat : d = a + p - b
    BY <1>2
  <2>1. d < p
    BY <1>2
  <2> QED
    BY <1>2, <2>1, RemainderBelow DEF Minus
<1> QED
  BY <1>1, <1>2

\* The leaves of a transfer the constraints let pass, and its recipient_is_zero
\* as synthesis computes it.
SenderLeaf(t, leaf) == [leaf EXCEPT !.balance = @ - (t.amount + t.fee), !.nonce = @ + 1]

RecipientLeaf(t, leaf, isZero) == [leaf EXCEPT !.balance = IF isZero THEN 0 ELSE @ + t.amount]

ToExit(t) == t.to = ExitId

LEMMA SenderFits ==
  ASSUME NEW t, Sendable(t), NEW leaf \in Account, InWidths(leaf)
  PROVE  /\ FitsBits(NewSender(t, leaf).balance, BalanceBits) <=> t.amount + t.fee <= leaf.balance
         /\ NewSender(t, leaf).nonce = leaf.nonce + 1
         /\ t.amount + t.fee <= leaf.balance => NewSender(t, leaf) = SenderLeaf(t, leaf)
<1> PICK s \in Nat, w \in Nat : s = t.amount + t.fee /\ w = 2^BalanceBits /\ w + s < Prime /\ Prime \in Nat
  <2>1. /\ t.amount \in Nat /\ t.fee \in Nat /\ 2^BalanceBits \in Nat /\ Prime \in Nat
        /\ 2^BalanceBits + t.amount + t.fee < Prime
    BY SendableParts, Widths
  <2> PICK a \in Nat, f \in Nat, v \in Nat : a = t.amount /\ f = t.fee /\ v = 2^BalanceBits /\ v + a + f < Prime
    BY <2>1
  <2>2. a + f \in Nat /\ v + (a + f) < Prime
    BY <2>1
  <2> QED
    BY <2>1, <2>2
<1> PICK b \in Nat, n \in Nat : leaf.balance = b /\ leaf.nonce = n /\ b < w /\ n < 2^NonceBits
  BY LeafParts DEF InWidths
<1>1. Minus(b, s) = IF s <= b THEN b - s ELSE b + Prime - s
  BY MinusWraps
<1>2. Plus(n, 1) = n + 1
  <2>1. n + 1 \in Nat /\ n + 1 < Prime
    <3>1. PICK v \in Nat : v = 2^NonceBits /\ v < Prime
      BY CircuitConstants, Widths
    <3> QED
      BY <3>1
  <2> QED
    BY <2>1, RemainderBelow DEF Plus
<1>3. NewSender(t, leaf) = [leaf EXCEPT !.balance = Minus(b, s), !.nonce = n + 1]
  BY <1>2 DEF NewSender
<1>4. NewSender(t, leaf).balance = Minus(b, s) /\ NewSender(t, leaf).nonce = n + 1
  BY <1>3 DEF Account
<1>5. Minus(b, s) < w <=> s <= b
  BY <1>1
<1>6. s <= b => NewSender(t, leaf) = SenderLeaf(t, leaf)
  BY <1>1, <1>3 DEF SenderLeaf
<1> QED
  BY <1>4, <1>5, <1>6 DEF FitsBits

LEMMA RecipientFits ==
  ASSUME NEW t, Sendable(t), NEW leaf \in Account, InWidths(leaf), NEW isZero \in BOOLEAN
  PROVE  /\ NewRecipient(t, leaf, isZero) = RecipientLeaf(t, leaf, isZero)
         /\ NewRecipient(t, leaf, isZero).nonce = leaf.nonce
         /\ FitsBits(NewRecipient(t, leaf, isZero).balance, BalanceBits) <=>
              isZero \/ FitsBits(leaf.balance + t.amount, BalanceBits)
<1> PICK b \in Nat, a \in Nat, w \in Nat \ {0} :
           /\ leaf.balance = b /\ a = t.amount /\ w = 2^BalanceBits
           /\ b < w /\ w + a < Prime /\ Prime \in Nat
  <2>1. /\ leaf.balance \in Nat /\ t.amount \in Nat /\ 2^BalanceBits \in Nat \ {0}
        /\ leaf.balance < 2^BalanceBits /\ Prime \in Nat
    BY LeafParts, SendableParts, Widths DEF InWidths
  <2>2. 2^BalanceBits + t.amount < Prime
    BY <2>1, SendableParts
  <2> QED
    BY <2>1, <2>2
<1>1. Plus(b, a) = b + a
  <2>1. b + a \in Nat /\ b + a < Prime
    OBVIOUS
  <2> QED
    BY <2>1, RemainderBelow DEF Plus
<1>2. NewRecipient(t, leaf, isZero) = [leaf EXCEPT !.balance = IF isZero THEN 0 ELSE b + a]
  BY <1>1 DEF NewRecipient
<1>3. /\ NewRecipient(t, leaf, isZero).balance = IF isZero THEN 0 ELSE b + a
      /\ NewRecipient(t, leaf, isZero).nonce = leaf.nonce
  BY <1>2 DEF Account
<1>4. NewRecipient(t, leaf, isZero) = RecipientLeaf(t, leaf, isZero)
  BY <1>2 DEF RecipientLeaf
<1>5. 0 < w
  OBVIOUS
<1> QED
  BY <1>3, <1>4, <1>5 DEF FitsBits

LEMMA LastBlock == 2^BlockBits \in Nat /\ MaxBlock \in Nat /\ Prime \in Nat /\ 2^BlockBits + MaxBlock < Prime
BY CircuitConstants, Widths

\* A block number past a last block that is a u32 is too far away.
LEMMA StillGood ==
  ASSUME CircuitInv, NEW goodUntil \in Nat, goodUntil < 2^BlockBits
  PROVE  FitsBits(Minus(goodUntil, block), BlockBits) <=> block <= goodUntil
<1> PICK w \in Nat, last \in Nat, p \in Nat :
           w = 2^BlockBits /\ last = MaxBlock /\ p = Prime /\ w + last < p
  BY LastBlock
<1> PICK n \in Nat : n = block /\ n <= last + 1
  BY DEF CircuitInv, WidthsInv
<1>1. goodUntil < w /\ goodUntil < p /\ n < p
  OBVIOUS
<1>2. Minus(goodUntil, n) = IF n <= goodUntil THEN goodUntil - n ELSE goodUntil + p - n
  BY <1>1, MinusWraps
<1>3. n <= goodUntil => goodUntil - n < w
  BY <1>1
<1>4. ~(n <= goodUntil) => ~(goodUntil + p - n < w)
  OBVIOUS
<1> QED
  BY <1>2, <1>3, <1>4 DEF FitsBits

\* TransferValid, about the leaf alone.
LEMMA ValidLeaf ==
  ASSUME CircuitInv, NEW t, Sendable(t)
  PROVE  TransferValid(ledger, t, block) <=>
           LET leaf == Leaf(ledger, t.from) IN
           /\ leaf.key # NoKey /\ t.signer = leaf.key /\ t.nonce = leaf.nonce
           /\ t.amount + t.fee <= leaf.balance /\ block <= t.goodUntil
<1> PICK leaf \in Account : leaf = Leaf(ledger, t.from)
  BY LeavesInv, SendableParts
<1>1. CASE ledger[t.from] = Absent
  <2>1. leaf.key = NoKey
    BY <1>1 DEF Leaf, DefaultAccount
  <2> QED
    BY <1>1, <2>1 DEF TransferValid
<1>2. CASE ledger[t.from] # Absent
  <2>1. leaf = ledger[t.from]
    BY <1>2 DEF Leaf
  <2>2. t.amount + t.fee \in Nat /\ leaf.balance \in Nat /\ block \in Nat /\ t.goodUntil \in Nat
    BY SendableParts, LeafParts DEF CircuitInv, TypeOK
  <2>3. /\ leaf.balance >= t.amount + t.fee <=> t.amount + t.fee <= leaf.balance
        /\ t.goodUntil >= block <=> block <= t.goodUntil
    BY <2>2
  <2> QED
    BY <1>2, <2>1, <2>3 DEF TransferValid
<1> QED
  BY <1>1, <1>2

\* The tree with the two leaves of the circuit.
CircuitLeaves(t, isZero) ==
  [Leaves(ledger) EXCEPT ![t.to] = RecipientLeaf(t, Leaf(ledger, t.to), isZero),
                         ![t.from] = SenderLeaf(t, Leaf(ledger, t.from))]

\* What OneOpening leaves of the witnesses.
WitnessFor(t, w) ==
  w.from = Opening(t.from) /\ w.to = Opening(t.to) /\ w.isZero \in BOOLEAN

\* The two branches of a transfer between different accounts.
LEMMA BranchesJoin ==
  ASSUME CircuitInv, NEW t, Sendable(t), t.from # t.to,
         t.amount + t.fee <= Leaf(ledger, t.from).balance,
         NEW w, WitnessFor(t, w)
  PROVE  /\ TransferRoots(t, w).from = LedgerRoot(CircuitLeaves(t, w.isZero))
         /\ TransferRoots(t, w).to = LedgerRoot(CircuitLeaves(t, w.isZero))
<1> PICK from \in AccountId, to \in AccountId : from = t.from /\ to = t.to
  BY SendableParts
<1> PICK leaves \in LeafMaps : leaves = Leaves(ledger)
  BY LeavesInv
<1> PICK h : h = LeafHashes(leaves)
  OBVIOUS
<1> PICK wf, wt : wf = Opening(from) /\ wt = Opening(to)
  OBVIOUS
<1> PICK isZero \in BOOLEAN : isZero = w.isZero
  BY DEF WitnessFor
<1> PICK f \in Account, r \in Account : /\ f = Leaf(ledger, from) /\ InWidths(f)
                                        /\ r = Leaf(ledger, to) /\ InWidths(r)
  BY LeavesInv
<1>0. w.from = wf /\ w.to = wt
  BY DEF WitnessFor
<1>1. wf.leaf = f /\ wf.path = Path(h, from) /\ wt.leaf = r /\ wt.path = Path(h, to)
  BY DEF Opening
<1>2. NewSender(t, f) = SenderLeaf(t, f) /\ NewRecipient(t, r, isZero) = RecipientLeaf(t, r, isZero)
  BY SenderFits, RecipientFits
<1> PICK g : g = LeafHashes(CircuitLeaves(t, isZero))
  OBVIOUS
<1>3. CircuitLeaves(t, isZero)
        = [leaves EXCEPT ![to] = RecipientLeaf(t, r, isZero), ![from] = SenderLeaf(t, f)]
  BY DEF CircuitLeaves
<1>4. /\ g[from] = LeafHash(SenderLeaf(t, f)) /\ g[to] = LeafHash(RecipientLeaf(t, r, isZero))
      /\ \A k \in AccountId \ {from, to} : g[k] = h[k]
  BY <1>3 DEF LeafHashes, LeafMaps
<1>5. TransferRoots(t, w) = Assembled(t, g[from], g[to], wf, wt)
  BY <1>0, <1>1, <1>2, <1>4 DEF TransferRoots
<1>6. Assembled(t, g[from], g[to], wf, wt).from = Root(g)
      /\ Assembled(t, g[from], g[to], wf, wt).to = Root(g)
  <2>1. OldPaths(h, g, t, wf, wt)
    BY <1>1, <1>4 DEF OldPaths
  <2>2. Assembled(t, g[t.from], g[t.to], wf, wt).from = Root(g)
        /\ Assembled(t, g[t.from], g[t.to], wf, wt).to = Root(g)
    BY <2>1, JoinedRoot
  <2> QED
    BY <2>2
<1> QED
  BY <1>5, <1>6 DEF LedgerRoot

\* An account has no two leaves: the nonce of the sender's differs.
LEMMA NotToOneself ==
  ASSUME CircuitInv, NEW t, Sendable(t), t.from = t.to, NEW w, WitnessFor(t, w)
  PROVE  TransferRoots(t, w).from # TransferRoots(t, w).to
         \/ ~FitsBits(NewSender(t, Leaf(ledger, t.from)).nonce, NonceBits)
<1> PICK id \in AccountId : id = t.from /\ id = t.to
  BY SendableParts
<1> PICK h : h = LeafHashes(Leaves(ledger))
  OBVIOUS
<1> PICK o : o = Opening(id)
  OBVIOUS
<1> PICK isZero \in BOOLEAN : isZero = w.isZero
  BY DEF WitnessFor
<1> PICK leaf \in Account : leaf = Leaf(ledger, id) /\ InWidths(leaf)
  BY LeavesInv
<1>0. w.from = o /\ w.to = o
  BY DEF WitnessFor
<1>1. o.leaf = leaf /\ o.path = Path(h, id)
  BY DEF Opening
<1> PICK fromHash, toHash : /\ fromHash = LeafHash(NewSender(t, leaf))
                            /\ toHash = LeafHash(NewRecipient(t, leaf, isZero))
  OBVIOUS
<1>2. TransferRoots(t, w) = Assembled(t, fromHash, toHash, o, o)
  BY <1>0, <1>1 DEF TransferRoots
<1>3. SUFFICES ASSUME TransferRoots(t, w).from = TransferRoots(t, w).to,
                      FitsBits(NewSender(t, leaf).nonce, NonceBits)
               PROVE  FALSE
  OBVIOUS
<1>4. fromHash = toHash
  BY <1>1, <1>2, <1>3, NotJoinedRoots
<1> PICK n \in Nat, v \in Nat : n = leaf.nonce /\ v = 2^NonceBits /\ n < v
  BY LeafParts, Widths DEF InWidths
<1>5. NewSender(t, leaf).nonce = n + 1 /\ n + 1 < v
  BY <1>3, SenderFits DEF FitsBits
<1>6. NewRecipient(t, leaf, isZero).nonce = n
  BY RecipientFits
<1>7. (n + 1) % v = n + 1 /\ n % v = n
  BY <1>5, RemainderBelow
<1>8. n + 1 = n
  BY <1>4, <1>5, <1>6, <1>7 DEF LeafHash
<1> QED
  BY <1>8

\* What the constraints ask, without the tree: of the sender, of the receiver,
\* of the flag and of the last block; and that the branches meet.
Sends(t) ==
  LET leaf == Leaf(ledger, t.from)
  IN  /\ leaf.key # NoKey /\ t.signer = leaf.key /\ t.nonce = leaf.nonce
      /\ t.amount + t.fee <= leaf.balance
      /\ FitsBits(leaf.nonce + 1, NonceBits)

Receives(t, isZero) == isZero \/ FitsBits(Leaf(ledger, t.to).balance + t.amount, BalanceBits)

FlagHolds(w) == w.isZero => w.recipient = 0

NotPast(w) == FitsBits(Minus(w.goodUntil, block), BlockBits)

Meets(t, w) ==
  /\ \A level \in SharedLevels(t.from, t.to) : w.from.path[level] = w.to.path[level]
  /\ TransferRoots(t, w).from = TransferRoots(t, w).to

LEMMA HoldsParts ==
  ASSUME CircuitInv, NEW t, Sendable(t), NEW w, WitnessFor(t, w)
  PROVE  TransferHolds(t, w) <=>
           Sends(t) /\ Receives(t, w.isZero) /\ FlagHolds(w) /\ NotPast(w) /\ Meets(t, w)
<1> PICK from \in AccountId, to \in AccountId : from = t.from /\ to = t.to
  BY SendableParts
<1> PICK isZero \in BOOLEAN : isZero = w.isZero
  BY DEF WitnessFor
<1> PICK f \in Account, r \in Account : /\ f = Leaf(ledger, from) /\ InWidths(f)
                                        /\ r = Leaf(ledger, to) /\ InWidths(r)
  BY LeavesInv
<1>1. w.from.leaf = f /\ w.to.leaf = r
  BY DEF WitnessFor, Opening
<1>2. f.nonce % 2^NonceBits = f.nonce
  BY LeafParts, Widths, RemainderBelow DEF InWidths
<1>3. Signed(t, f) <=> f.key # NoKey /\ t.signer = f.key /\ t.nonce = f.nonce
  BY <1>2 DEF Signed
<1>4. /\ FitsBits(NewSender(t, f).balance, BalanceBits) <=> t.amount + t.fee <= f.balance
      /\ NewSender(t, f).nonce = f.nonce + 1
  BY SenderFits
<1>5. FitsBits(NewRecipient(t, r, isZero).balance, BalanceBits) <=> Receives(t, isZero)
  BY RecipientFits DEF Receives
<1>6. TransferHolds(t, w) <=>
        /\ Signed(t, f)
        /\ FitsBits(NewSender(t, f).balance, BalanceBits)
        /\ FitsBits(NewRecipient(t, r, isZero).balance, BalanceBits)
        /\ FitsBits(NewSender(t, f).nonce, NonceBits)
        /\ Meets(t, w) /\ FlagHolds(w) /\ NotPast(w)
  BY <1>1 DEF TransferHolds, Meets, FlagHolds, NotPast
<1>7. Sends(t) <=>
        /\ f.key # NoKey /\ t.signer = f.key /\ t.nonce = f.nonce
        /\ t.amount + t.fee <= f.balance
        /\ FitsBits(f.nonce + 1, NonceBits)
  BY DEF Sends
<1> QED
  BY <1>3, <1>4, <1>5, <1>6, <1>7

\* The branches meet for different accounts and for no others.
LEMMA MeetsIff ==
  ASSUME CircuitInv, NEW t, Sendable(t), NEW w, WitnessFor(t, w), Sends(t)
  PROVE  /\ Meets(t, w) <=> t.from # t.to
         /\ t.from # t.to => TransferRoots(t, w).from = LedgerRoot(CircuitLeaves(t, w.isZero))
<1> PICK from \in AccountId, to \in AccountId : from = t.from /\ to = t.to
  BY SendableParts
<1> PICK h : h = LeafHashes(Leaves(ledger))
  OBVIOUS
<1>1. w.from.path = Path(h, from) /\ w.to.path = Path(h, to)
  BY DEF WitnessFor, Opening
<1>2. t.amount + t.fee <= Leaf(ledger, t.from).balance
  BY DEF Sends
<1>3. t.from # t.to => /\ TransferRoots(t, w).from = LedgerRoot(CircuitLeaves(t, w.isZero))
                       /\ TransferRoots(t, w).to = LedgerRoot(CircuitLeaves(t, w.isZero))
  BY <1>2, BranchesJoin
<1>4. ASSUME from # to PROVE Meets(t, w)
  <2>1. PICK m \in 0 .. Depth - 1 : MeetAt(m, from, to)
    BY <1>4, TheyMeet
  <2>2. ASSUME NEW level \in SharedLevels(from, to) PROVE w.from.path[level] = w.to.path[level]
    <3>1. level \in m + 1 .. Depth - 1
      BY <2>1, <2>2, SharedAndIntersection
    <3>2. level \in 0 .. Depth - 1 /\ level \in m + 1 .. Depth
      BY <3>1, DepthPositive
    <3>3. Above(from, level) = Above(to, level)
      BY <2>1, <3>2 DEF MeetAt
    <3> QED
      BY <1>1, <3>2, <3>3, PathAt
  <2> QED
    BY <1>3, <1>4, <2>2 DEF Meets
<1>5. ASSUME Meets(t, w) PROVE from # to
  <2> PICK leaf \in Account : leaf = Leaf(ledger, from) /\ InWidths(leaf)
    BY LeavesInv
  <2>1. FitsBits(NewSender(t, leaf).nonce, NonceBits)
    <3>1. NewSender(t, leaf).nonce = leaf.nonce + 1
      BY SenderFits
    <3> QED
      BY <3>1 DEF Sends
  <2>2. TransferRoots(t, w).from = TransferRoots(t, w).to
    BY <1>5 DEF Meets
  <2> QED
    BY <2>1, <2>2, NotToOneself
<1> QED
  BY <1>3, <1>4, <1>5

\* Admitted, in the parts of the constraints.
LEMMA AdmittedParts ==
  ASSUME CircuitInv, NEW t, Sendable(t)
  PROVE  Admitted(t) <=>
           /\ Sends(t) /\ t.from # t.to /\ block <= t.goodUntil
           /\ t.to = ExitId \/ FitsBits(Leaf(ledger, t.to).balance + t.amount, BalanceBits)
BY ValidLeaf DEF Admitted, TransferFits, Sends

\* What the prover's numbers prove, and when.
LEMMA TransferProven ==
  ASSUME CircuitInv, NEW tx \in Transfers
  PROVE  ProvenByTransfer(tx, AsComputed(tx)) =
           {root \in {LedgerRoot(CircuitLeaves(Rounded(tx), ToExit(Rounded(tx))))} :
              Admitted(Rounded(tx))}
<1> PICK e : e = Rounded(tx) /\ Sendable(e) /\ e.from = tx.from /\ e.to = tx.to
             /\ e.goodUntil = tx.goodUntil
  BY RoundedRequest
<1> PICK isZero \in BOOLEAN : isZero = (tx.to = ExitId) /\ isZero = ToExit(e)
  BY DEF ToExit
<1> PICK w : w = [from |-> Opening(e.from), to |-> Opening(e.to), goodUntil |-> tx.goodUntil,
                  recipient |-> tx.to, isZero |-> isZero]
  OBVIOUS
<1>1. Openings(tx.from) = {Opening(tx.from)} /\ Openings(tx.to) = {Opening(tx.to)}
  BY OneOpening, SendableParts
<1>2. AsComputed(tx) = {w}
  <2>1. AsComputed(tx) = [from : {Opening(e.from)}, to : {Opening(e.to)}, goodUntil : {tx.goodUntil},
                          recipient : {tx.to}, isZero : {isZero}]
    BY <1>1 DEF AsComputed
  <2>2. w \in AsComputed(tx)
    BY <2>1
  <2>3. ASSUME NEW v \in AsComputed(tx) PROVE v = w
    <3>1. /\ v = [from |-> v.from, to |-> v.to, goodUntil |-> v.goodUntil,
                  recipient |-> v.recipient, isZero |-> v.isZero]
          /\ v.from = Opening(e.from) /\ v.to = Opening(e.to) /\ v.goodUntil = tx.goodUntil
          /\ v.recipient = tx.to /\ v.isZero = isZero
      BY <2>1, <2>3
    <3> QED
      BY <3>1
  <2> QED
    BY <2>2, <2>3
<1>3. /\ WitnessFor(e, w) /\ w.isZero = isZero /\ w.recipient = tx.to /\ w.goodUntil = e.goodUntil
  BY DEF WitnessFor
<1>4. FlagHolds(w)
  BY <1>3 DEF FlagHolds, ExitId
<1>5. NotPast(w) <=> block <= e.goodUntil
  <2>1. tx.goodUntil \in Nat /\ tx.goodUntil < 2^BlockBits
    BY TransferRequest, SendableParts
  <2> QED
    BY <1>3, <2>1, StillGood DEF NotPast
<1>6. Receives(e, w.isZero) <=>
        e.to = ExitId \/ FitsBits(Leaf(ledger, e.to).balance + e.amount, BalanceBits)
  BY <1>3 DEF Receives
<1>7. TransferHolds(e, w) <=> Admitted(e)
  BY <1>3, <1>4, <1>5, <1>6, HoldsParts, MeetsIff, AdmittedParts
<1>8. Admitted(e) => TransferRoots(e, w).from = LedgerRoot(CircuitLeaves(e, isZero))
  BY <1>3, MeetsIff, AdmittedParts
<1>9. \A x : x \in ProvenByTransfer(tx, AsComputed(tx)) <=>
               TransferHolds(e, w) /\ x = TransferRoots(e, w).from
  BY <1>2 DEF ProvenByTransfer
<1> QED
  BY <1>7, <1>8, <1>9

\* The leaf of the receiver in the ledger.
CreditedLeaf(t, leaf) == IF t.to = ExitId THEN leaf ELSE [leaf EXCEPT !.balance = @ + t.amount]

LEMMA LeavesAfterTransfer ==
  ASSUME CircuitInv, NEW t, Sendable(t), TransferValid(ledger, t, block), t.from # t.to
  PROVE  Leaves(ApplyTransfer(ledger, t)) =
           [Leaves(ledger) EXCEPT ![t.to] = CreditedLeaf(t, Leaf(ledger, t.to)),
                                  ![t.from] = SenderLeaf(t, Leaf(ledger, t.from))]
<1>1. ledger \in Ledgers /\ t \in TransferTx /\ t.from \in AccountId /\ t.to \in AccountId
  BY SendableParts DEF CircuitInv, TypeOK
<1>2. \A l \in Ledgers : \A n : TransferValid(l, t, n) =>
        ApplyTransfer(Leaves(l), t) = Leaves(ApplyTransfer(l, t))
  BY <1>1, LeavesOfTransfer
<1>3. ApplyTransfer(Leaves(ledger), t) = Leaves(ApplyTransfer(ledger, t))
  BY <1>1, <1>2
<1>4. \A l \in Ledgers : \A id \in AccountId : Leaves(l)[id] = Leaf(l, id) /\ Leaf(Leaves(l), id) = Leaf(l, id)
  BY LeavesOfLeaves
<1> PICK leaves, f, r : /\ leaves = Leaves(ledger) /\ f = Leaf(ledger, t.from) /\ r = Leaf(ledger, t.to)
                        /\ leaves[t.from] = f /\ Leaf(leaves, t.to) = r
  BY <1>1, <1>4
<1>5. ApplyTransfer(leaves, t) =
        [leaves EXCEPT ![t.to] = CreditedLeaf(t, r), ![t.from] = SenderLeaf(t, f)]
  BY DEF ApplyTransfer, CreditedLeaf, SenderLeaf
<1> QED
  BY <1>3, <1>5

\* The numbers of the leaves of the ledger and of the circuit fit, and the
\* leaves are the same unless account 0 loses what it has.
LEMMA TransferLeaves ==
  ASSUME CircuitInv, NEW t, Sendable(t), Admitted(t)
  PROVE  /\ Leaves(ApplyTransfer(ledger, t)) \in LeafMaps
         /\ \A id \in AccountId : InWidths(Leaves(ApplyTransfer(ledger, t))[id])
         /\ CircuitLeaves(t, ToExit(t)) \in LeafMaps
         /\ \A id \in AccountId : InWidths(CircuitLeaves(t, ToExit(t))[id])
         /\ CircuitLeaves(t, ToExit(t)) = Leaves(ApplyTransfer(ledger, t))
              <=> (t.to = ExitId => Leaf(ledger, ExitId).balance = 0)
         /\ Leaves(ApplyTransfer(ledger, t))[t.from]
              = SenderLeaf(t, Leaf(ledger, t.from))
<1> PICK from \in AccountId, to \in AccountId : from = t.from /\ to = t.to
  BY SendableParts
<1> PICK leaves \in LeafMaps : /\ leaves = Leaves(ledger)
                               /\ \A id \in AccountId : InWidths(leaves[id])
                               /\ \A id \in AccountId : leaves[id] = Leaf(ledger, id)
  BY LeavesInv
<1> PICK f \in Account, r \in Account : /\ f = Leaf(ledger, from) /\ InWidths(f)
                                        /\ r = Leaf(ledger, to) /\ InWidths(r)
  BY LeavesInv
<1> PICK sent, credited, kept : /\ sent = SenderLeaf(t, f) /\ credited = CreditedLeaf(t, r)
                                /\ kept = RecipientLeaf(t, r, ToExit(t))
  OBVIOUS
<1>1. from # to /\ TransferValid(ledger, t, block) /\ TransferFits(t)
  BY DEF Admitted
<1>2. sent \in Account /\ InWidths(sent)
  <2> PICK s \in Nat, b \in Nat, n \in Nat, w \in Nat :
             /\ s = t.amount + t.fee /\ b = f.balance /\ n = f.nonce
             /\ w = 2^BalanceBits /\ b < w
    BY SendableParts, LeafParts, Widths DEF InWidths
  <2>1. s <= b
    BY <1>1, ValidLeaf
  <2>2. n + 1 < 2^NonceBits
    BY <1>1 DEF TransferFits, FitsBits
  <2>3. sent = [f EXCEPT !.balance = b - s, !.nonce = n + 1]
    BY DEF SenderLeaf
  <2>4. b - s \in Nat /\ b - s < w /\ n + 1 \in Nat
    BY <2>1
  <2> QED
    BY <2>2, <2>3, <2>4 DEF Account, InWidths
<1>3. /\ credited \in Account /\ InWidths(credited) /\ kept \in Account /\ InWidths(kept)
      /\ kept = credited <=> (to = ExitId => r.balance = 0)
  <2> PICK a \in Nat, b \in Nat, n \in Nat, w \in Nat \ {0} :
             a = t.amount /\ b = r.balance /\ n = r.nonce /\ w = 2^BalanceBits
    BY SendableParts, LeafParts, Widths
  <2>1. CASE to = ExitId
    <3>1. credited = r /\ kept = [r EXCEPT !.balance = 0]
      BY <2>1 DEF CreditedLeaf, RecipientLeaf, ToExit
    <3>2. kept \in Account /\ kept.balance = 0 /\ kept.nonce = n
      BY <3>1 DEF Account
    <3>3. InWidths(kept)
      <4>1. 0 < w
        OBVIOUS
      <4> QED
        BY <3>2, <4>1 DEF InWidths
    <3>4. kept = credited <=> b = 0
      BY <3>1, <3>2 DEF Account
    <3> QED
      BY <2>1, <3>1, <3>2, <3>3, <3>4
  <2>2. CASE to # ExitId
    <3>1. credited = [r EXCEPT !.balance = b + a] /\ kept = [r EXCEPT !.balance = b + a]
      BY <2>2 DEF CreditedLeaf, RecipientLeaf, ToExit
    <3>2. credited \in Account /\ credited.balance = b + a /\ credited.nonce = n
      BY <3>1 DEF Account
    <3>3. b + a < 2^BalanceBits
      BY <1>1, <2>2 DEF TransferFits, FitsBits
    <3> QED
      BY <2>2, <3>1, <3>2, <3>3 DEF InWidths
  <2> QED
    BY <2>1, <2>2
<1>4. Leaves(ApplyTransfer(ledger, t)) = [leaves EXCEPT ![to] = credited, ![from] = sent]
  BY <1>1, LeavesAfterTransfer
<1>5. CircuitLeaves(t, ToExit(t)) = [leaves EXCEPT ![to] = kept, ![from] = sent]
  BY DEF CircuitLeaves
<1> PICK made, proven : made = Leaves(ApplyTransfer(ledger, t)) /\ proven = CircuitLeaves(t, ToExit(t))
  OBVIOUS
<1>6. /\ made \in LeafMaps /\ proven \in LeafMaps
      /\ made[from] = sent /\ proven[from] = sent /\ made[to] = credited /\ proven[to] = kept
      /\ \A id \in AccountId \ {from, to} : made[id] = leaves[id] /\ proven[id] = leaves[id]
  BY <1>1, <1>2, <1>3, <1>4, <1>5 DEF LeafMaps
<1>7. \A id \in AccountId : InWidths(made[id]) /\ InWidths(proven[id])
  <2> SUFFICES ASSUME NEW id \in AccountId PROVE InWidths(made[id]) /\ InWidths(proven[id])
    OBVIOUS
  <2>1. CASE id = from
    BY <1>2, <1>6, <2>1
  <2>2. CASE id = to
    BY <1>3, <1>6, <2>2
  <2>3. CASE id \notin {from, to}
    BY <1>6, <2>3
  <2> QED
    BY <2>1, <2>2, <2>3
<1>8. proven = made <=> kept = credited
  BY <1>6 DEF LeafMaps
<1> QED
  BY <1>3, <1>6, <1>7, <1>8

\* The leaves do not depend on the last block.
LEMMA SameWithoutLastBlock ==
  ASSUME NEW t, Sendable(t), NEW u, u = [t EXCEPT !.goodUntil = block], block \in Nat
  PROVE  /\ Sendable(u) /\ u.goodUntil = block /\ u.from = t.from /\ u.to = t.to
         /\ u.amount = t.amount /\ u.fee = t.fee
         /\ Sends(u) <=> Sends(t)
         /\ CircuitLeaves(u, ToExit(u)) = CircuitLeaves(t, ToExit(t))
         /\ RootAfterTransfer(u) = RootAfterTransfer(t)
<1>1. t \in TransferTx
  BY SendableParts
<1>2. /\ u \in TransferTx /\ u.goodUntil = block /\ u.from = t.from /\ u.to = t.to
      /\ u.amount = t.amount /\ u.fee = t.fee /\ u.nonce = t.nonce /\ u.signer = t.signer
  BY <1>1 DEF TransferTx
<1>3. Sendable(u)
  BY <1>2 DEF Sendable
<1>4. Sends(u) <=> Sends(t)
  BY <1>2 DEF Sends
<1>5. CircuitLeaves(u, ToExit(u)) = CircuitLeaves(t, ToExit(t))
  BY <1>2 DEF CircuitLeaves, RecipientLeaf, SenderLeaf, ToExit
<1>6. ApplyTransfer(ledger, u) = ApplyTransfer(ledger, t)
  BY <1>2 DEF ApplyTransfer
<1> QED
  BY <1>2, <1>3, <1>4, <1>5, <1>6 DEF RootAfterTransfer

\* The root of the ledger and that of the circuit.
LEMMA TransferRootsAgree ==
  ASSUME CircuitInv, NEW t, Sendable(t), Admitted(t)
  PROVE  RootAfterTransfer(t) = LedgerRoot(CircuitLeaves(t, ToExit(t)))
           <=> (t.to = ExitId => Leaf(ledger, ExitId).balance = 0)
<1> PICK proven, made : /\ proven = CircuitLeaves(t, ToExit(t))
                        /\ made = Leaves(ApplyTransfer(ledger, t))
  OBVIOUS
<1>1. /\ made \in LeafMaps /\ proven \in LeafMaps
      /\ \A id \in AccountId : InWidths(made[id]) /\ InWidths(proven[id])
      /\ proven = made <=> (t.to = ExitId => Leaf(ledger, ExitId).balance = 0)
  BY TransferLeaves
<1>2. LedgerRoot(made) = LedgerRoot(proven) => made = proven
  BY <1>1, LedgerRootInjective
<1>3. RootAfterTransfer(t) = LedgerRoot(made)
  BY DEF RootAfterTransfer
<1> QED
  BY <1>1, <1>2, <1>3

\* The numbers the prover assigns.
LEMMA ComputedMatches ==
  ASSUME CircuitInv, NEW tx \in Transfers, NEW e, e = Rounded(tx),
         NEW computed, computed = ProvenByTransfer(tx, AsComputed(tx))
  PROVE  /\ IF Admitted(e)
            THEN /\ TransferProvable(ledger, e, block) <=> RootAfterTransfer(e) \in computed
                 /\ tx.to # ExitId => computed = {RootAfterTransfer(e)}
            ELSE computed = {}
         /\ Admitted(tx) /\ TransferProvable(ledger, tx, block)
              => (AmountsExact(tx) <=> RootAfterTransfer(tx) \in computed)
<1> PICK root : root = LedgerRoot(CircuitLeaves(e, ToExit(e)))
  OBVIOUS
<1>1. /\ Sendable(e) /\ Sendable(tx)
      /\ e.from = tx.from /\ e.to = tx.to /\ e.nonce = tx.nonce
      /\ e.goodUntil = tx.goodUntil /\ e.signer = tx.signer
      /\ e.amount <= tx.amount /\ e.fee <= tx.fee
      /\ e.amount = tx.amount /\ e.fee = tx.fee <=> AmountsExact(tx)
      /\ AmountsExact(tx) => e = tx
  BY RoundedRequest, TransferRequest
<1>2. computed = {r \in {root} : Admitted(e)}
  BY TransferProven
<1>3. Admitted(e) => (RootAfterTransfer(e) = root <=> (tx.to = ExitId => Leaf(ledger, ExitId).balance = 0))
  BY <1>1, TransferRootsAgree
<1>4. Admitted(e) => (TransferProvable(ledger, e, block)
                        <=> (tx.to = ExitId => Leaf(ledger, ExitId).balance = 0))
  BY <1>1 DEF TransferProvable, Admitted
<1>5. IF Admitted(e)
      THEN /\ TransferProvable(ledger, e, block) <=> RootAfterTransfer(e) \in computed
           /\ tx.to # ExitId => computed = {RootAfterTransfer(e)}
      ELSE computed = {}
  BY <1>2, <1>3, <1>4
<1>6. ASSUME Admitted(tx), TransferProvable(ledger, tx, block)
      PROVE  AmountsExact(tx) <=> RootAfterTransfer(tx) \in computed
  <2>1. tx.to = ExitId => Leaf(ledger, ExitId).balance = 0
    BY <1>6 DEF TransferProvable
  <2>2. ASSUME AmountsExact(tx) PROVE RootAfterTransfer(tx) \in computed
    BY <1>1, <1>5, <1>6, <2>2
  <2>3. ASSUME RootAfterTransfer(tx) \in computed PROVE AmountsExact(tx)
    <3>1. Admitted(e) /\ RootAfterTransfer(tx) = root
      BY <1>2, <2>3
    <3>2. RootAfterTransfer(tx) = RootAfterTransfer(e)
      BY <1>3, <2>1, <3>1
    <3> PICK ordered, made : /\ ordered = Leaves(ApplyTransfer(ledger, tx))
                             /\ made = Leaves(ApplyTransfer(ledger, e))
      OBVIOUS
    <3>3. /\ ordered \in LeafMaps
          /\ \A id \in AccountId : InWidths(ordered[id])
          /\ ordered[tx.from] = SenderLeaf(tx, Leaf(ledger, tx.from))
      BY <1>1, <1>6, TransferLeaves
    <3>4. /\ made \in LeafMaps
          /\ \A id \in AccountId : InWidths(made[id])
          /\ made[tx.from] = SenderLeaf(e, Leaf(ledger, tx.from))
      BY <1>1, <3>1, TransferLeaves
    <3>5. LedgerRoot(ordered) = LedgerRoot(made)
      BY <3>2 DEF RootAfterTransfer
    <3>6. ordered = made
      BY <3>3, <3>4, <3>5, LedgerRootInjective
    <3> PICK leaf \in Account : leaf = Leaf(ledger, tx.from)
      BY <1>1, LeavesInv, SendableParts
    <3>7. SenderLeaf(tx, leaf) = SenderLeaf(e, leaf)
      BY <3>3, <3>4, <3>6
    <3>8. leaf.balance - (tx.amount + tx.fee) = leaf.balance - (e.amount + e.fee)
      BY <3>7 DEF SenderLeaf, Account
    <3>9. /\ tx.amount \in Nat /\ tx.fee \in Nat /\ e.amount \in Nat /\ e.fee \in Nat
          /\ leaf.balance \in Nat
      BY <1>1, SendableParts, LeafParts
    <3>10. e.amount = tx.amount /\ e.fee = tx.fee
      <4> PICK a \in Nat, f \in Nat, ea \in Nat, ef \in Nat, b \in Nat :
                 /\ a = tx.amount /\ f = tx.fee /\ ea = e.amount /\ ef = e.fee /\ b = leaf.balance
        BY <3>9
      <4>1. ea <= a /\ ef <= f /\ b - (a + f) = b - (ea + ef)
        BY <1>1, <3>8
      <4>2. ea = a /\ ef = f
        BY <4>1
      <4> QED
        BY <4>2
    <3> QED
      BY <1>1, <3>10
  <2> QED
    BY <2>2, <2>3
<1> QED
  BY <1>5, <1>6

\* Whatever the constraints leave open: the last block cannot be relied on, and
\* account 0 may keep the amount, but no other account and no other number.
LEMMA AnyMatches ==
  ASSUME CircuitInv, NEW tx \in Transfers, NEW e, e = Rounded(tx),
         NEW root \in ProvenByTransfer(tx, TransferWitnesses(tx))
  PROVE  /\ Admitted([e EXCEPT !.goodUntil = block])
         /\ tx.to # ExitId => root = RootAfterTransfer(e)
<1>1. /\ Sendable(e) /\ Sendable(tx) /\ e.from = tx.from /\ e.to = tx.to
  BY RoundedRequest, TransferRequest
<1>2. PICK w \in TransferWitnesses(tx) : TransferHolds(e, w) /\ root = TransferRoots(e, w).from
  BY DEF ProvenByTransfer
<1>3. WitnessFor(e, w)
  <2>1. Openings(tx.from) = {Opening(tx.from)} /\ Openings(tx.to) = {Opening(tx.to)}
    BY <1>1, OneOpening, SendableParts
  <2>2. w.from \in Openings(tx.from) /\ w.to \in Openings(tx.to) /\ w.isZero \in BOOLEAN
    BY <1>2 DEF TransferWitnesses
  <2> QED
    BY <1>1, <2>1, <2>2 DEF WitnessFor
<1>4. /\ Sends(e) /\ Receives(e, w.isZero) /\ FlagHolds(w) /\ e.from # e.to
      /\ root = LedgerRoot(CircuitLeaves(e, w.isZero))
  BY <1>1, <1>2, <1>3, HoldsParts, MeetsIff
<1> PICK isZero \in BOOLEAN : isZero = w.isZero
  BY <1>3 DEF WitnessFor
<1>5. isZero => tx.to = ExitId
  <2> SUFFICES ASSUME isZero PROVE tx.to = ExitId
    OBVIOUS
  <2> PICK size \in Nat, to \in Nat : size = 2^Depth /\ to = tx.to /\ to < size
    <3>1. tx.to \in AccountId
      BY <1>1, SendableParts
    <3>2. 2^Depth \in Nat
      BY PowerIsPositive, DepthPositive
    <3>3. PICK size \in Nat : size = 2^Depth /\ Capacity = size /\ AccountId = 0 .. size - 1
      BY <3>2, CircuitConstants
    <3>4. tx.to \in Nat /\ tx.to < size
      BY <3>1, <3>3
    <3> QED
      BY <3>3, <3>4
  <2>1. w.recipient = 0 /\ w.recipient \in Elements(to, Depth)
    BY <1>4 DEF FlagHolds, TransferWitnesses
  <2>2. 0 % size = to % size
    BY <2>1 DEF Elements
  <2>3. 0 % size = 0 /\ to % size = to
    BY RemainderBelow
  <2> QED
    BY <2>2, <2>3 DEF ExitId
<1> PICK u : u = [e EXCEPT !.goodUntil = block]
  OBVIOUS
<1>6. block \in Nat
  BY DEF CircuitInv, TypeOK
<1>7. /\ Sendable(u) /\ u.goodUntil = block /\ u.from = e.from /\ u.to = e.to /\ u.amount = e.amount
      /\ Sends(u)
      /\ CircuitLeaves(u, ToExit(u)) = CircuitLeaves(e, ToExit(e))
      /\ RootAfterTransfer(u) = RootAfterTransfer(e)
  BY <1>1, <1>4, <1>6, SameWithoutLastBlock
<1>8. Admitted(u)
  <2>1. e.to = ExitId \/ FitsBits(Leaf(ledger, e.to).balance + e.amount, BalanceBits)
    BY <1>1, <1>4, <1>5 DEF Receives
  <2>2. block <= u.goodUntil
    BY <1>6, <1>7
  <2> QED
    BY <1>4, <1>7, <2>1, <2>2, AdmittedParts
<1>9. ASSUME tx.to # ExitId PROVE root = RootAfterTransfer(e)
  <2>1. CircuitLeaves(e, isZero) = CircuitLeaves(e, ToExit(e))
    BY <1>1, <1>5, <1>9 DEF CircuitLeaves, RecipientLeaf, ToExit
  <2>2. RootAfterTransfer(u) = LedgerRoot(CircuitLeaves(u, ToExit(u)))
    BY <1>1, <1>7, <1>8, <1>9, TransferRootsAgree
  <2> QED
    BY <1>4, <1>7, <2>1, <2>2
<1> QED
  BY <1>8, <1>9

\* TransfersMatch, for every depth of the tree, every pair of positions in it,
\* every ledger and every width of the numbers: with the numbers the prover
\* assigns, the circuit proves what the ledger does with the encoded amounts,
\* for exactly the transfers TransferProvable says.  Whatever else the
\* constraints leave open, it proves nothing of an overdraft, a wrong nonce or
\* another's signature; of a last block that has passed this is not shown.
THEOREM TransfersAreProven == Spec => []TransfersMatch
<1>1. CircuitInv => TransfersMatch
  <2> SUFFICES ASSUME CircuitInv, NEW tx \in Transfers
               PROVE  LET encoded   == Rounded(tx)
                          unexpired == [encoded EXCEPT !.goodUntil = block]
                          computed  == ProvenByTransfer(tx, AsComputed(tx))
                          any       == ProvenByTransfer(tx, TransferWitnesses(tx))
                      IN  /\ IF Admitted(encoded)
                             THEN /\ TransferProvable(ledger, encoded, block)
                                       <=> RootAfterTransfer(encoded) \in computed
                                  /\ tx.to # ExitId => computed = {RootAfterTransfer(encoded)}
                             ELSE computed = {}
                          /\ Admitted(tx) /\ TransferProvable(ledger, tx, block)
                               => (AmountsExact(tx) <=> RootAfterTransfer(tx) \in computed)
                          /\ \A root \in any :
                               /\ Admitted(unexpired)
                               /\ tx.to # ExitId => root = RootAfterTransfer(encoded)
    BY DEF TransfersMatch
  <2> QED
    BY ComputedMatches, AnyMatches
<1> QED
  BY <1>1, TypesHold, PTL

=============================================================================
