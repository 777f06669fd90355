---------------------------- MODULE PlasmaState ----------------------------
(***************************************************************************)
(* The account ledger of the rollup (plasma/src/state.rs) as pure          *)
(* operators.  A ledger maps an account id to its account, or to Absent    *)
(* when the sparse Merkle tree holds no item for the id.  The tree hashes  *)
(* an absent leaf exactly as a default account, so the contents of all     *)
(* leaves (Leaves) stand for the root hash: equal leaves, equal roots.     *)
(***************************************************************************)
EXTENDS Integers

CONSTANTS
  AccountId,   \* the account ids that requests mention
  Capacity,    \* number of leaves of the tree (2^24 in the code)
  Key,         \* valid public keys
  NoKey,       \* a pair (x, y) that is no point of the curve, as (0, 0)
  Absent       \* an id that has no item in the tree

ExitId == 0    \* transfers to account 0 leave the rollup

ASSUME LedgerConstants ==
  /\ AccountId \subseteq Nat
  /\ Capacity \in Nat
  /\ ExitId \in AccountId /\ ExitId < Capacity
  /\ NoKey \notin Key
  /\ Absent \notin [balance : Int, nonce : Nat, key : Key \cup {NoKey}]

Account == [balance : Nat, nonce : Nat, key : Key \cup {NoKey}]

DefaultAccount == [balance |-> 0, nonce |-> 0, key |-> NoKey]

Ledgers == [AccountId -> Account \cup {Absent}]

LeafMaps == [AccountId -> Account]

\* The part of a transfer the ledger looks at: signer is the key the
\* signature was verified against (cached_pub_key).
TransferTx == [from : AccountId, to : AccountId, amount : Nat, fee : Nat,
               nonce : Nat, goodUntil : Nat, signer : Key]

DepositTx == [account : AccountId, amount : Nat, key : Key \cup {NoKey}]

----------------------------------------------------------------------------

\* An account as a reader of the tree sees it.
Leaf(ledger, id) == IF ledger[id] = Absent THEN DefaultAccount ELSE ledger[id]

Leaves(ledger) == [id \in AccountId |-> Leaf(ledger, id)]

\* Leaves after an account map (a ledger that mentions the changed accounts
\* only) is written over them.
Overwritten(leaves, updated) ==
  [id \in AccountId |-> IF updated[id] = Absent THEN leaves[id] ELSE updated[id]]

\* The index assertion of the tree's insert and delete.
InTree(id) == id < Capacity

\* The conditions under which apply_transfer changes the state.
\* Slips: the balance check is dropped; an older nonce passes.
SlipOverdraft(ledger, tx, block) ==
  /\ ledger[tx.from] # Absent
  /\ tx.signer = ledger[tx.from].key
  /\ tx.nonce = ledger[tx.from].nonce
  /\ tx.goodUntil >= block

SlipOldNonce(ledger, tx, block) ==
  /\ ledger[tx.from] # Absent
  /\ tx.signer = ledger[tx.from].key
  /\ tx.nonce <= ledger[tx.from].nonce
  /\ ledger[tx.from].balance >= tx.amount + tx.fee
  /\ tx.goodUntil >= block

TransferValid(ledger, tx, block) ==
  /\ ledger[tx.from] # Absent
  /\ ledger[tx.from].key # NoKey
  /\ tx.signer = ledger[tx.from].key
  /\ tx.nonce = ledger[tx.from].nonce
  /\ ledger[tx.from].balance >= tx.amount + tx.fee
  /\ tx.goodUntil >= block

\* The sender pays amount and fee and uses one nonce; the receiver is
\* created when it has no item; what goes to account 0 is credited to nobody,
\* and the fee neither.  The sender's leaf is written last.
\* Slip: the fee is not charged.
SlipFreeTransfer(ledger, tx) ==
  [ledger EXCEPT
     ![tx.to] = [Leaf(ledger, tx.to) EXCEPT !.balance = @ + tx.amount],
     ![tx.from] = [@ EXCEPT !.balance = @ - tx.amount, !.nonce = @ + 1]]

ApplyTransfer(ledger, tx) ==
  LET paid     == [ledger[tx.from] EXCEPT !.balance = @ - (tx.amount + tx.fee),
                                          !.nonce = @ + 1]
      credited == IF tx.to = ExitId
                  THEN Leaf(ledger, tx.to)
                  ELSE [Leaf(ledger, tx.to) EXCEPT !.balance = @ + tx.amount]
  IN  [ledger EXCEPT ![tx.to] = credited, ![tx.from] = paid]

\* A deposit into an account without funds replaces the whole account, nonce
\* and key included; otherwise only the balance grows.
ApplyDeposit(ledger, tx) ==
  IF Leaf(ledger, tx.account).balance = 0
  THEN [ledger EXCEPT ![tx.account] =
          [balance |-> tx.amount, nonce |-> 0, key |-> tx.key]]
  ELSE [ledger EXCEPT ![tx.account].balance = @ + tx.amount]

ExitValid(ledger, id) == ledger[id] # Absent

\* An exit resets the leaf to the default account; the item stays.
ApplyExit(ledger, id) == [ledger EXCEPT ![id] = DefaultAccount]

----------------------------------------------------------------------------
\* What the prover and the circuits can prove of a transition the ledger takes,
\* apart from the widths of numbers.  Module Circuits compares it with the
\* constraints.

\* The circuit sets the balance of account 0 to 0 when it is the receiver.
TransferProvable(ledger, tx, block) ==
  /\ TransferValid(ledger, tx, block)
  /\ tx.from # tx.to
  /\ tx.to = ExitId => Leaf(ledger, ExitId).balance = 0

\* The prover takes a leaf without funds for an empty one, whose hash is that of
\* zeroes; otherwise the circuit keeps the key of the leaf, a point of the
\* curve, and publishes it, while the block publishes the key of the deposit.
DepositProvable(ledger, tx) ==
  LET leaf == Leaf(ledger, tx.account) IN
  /\ tx.key # NoKey
  /\ IF leaf.balance = 0 THEN leaf = DefaultAccount ELSE tx.key = leaf.key

----------------------------------------------------------------------------

\* A CommitRequest: a block, its root, and the accounts it updated.
CommittedBlock(number, kind, txs, newLedger, touched) ==
  [number  |-> number,
   kind    |-> kind,
   txs     |-> txs,
   root    |-> Leaves(newLedger),
   updated |-> [id \in AccountId |->
                  IF id \in touched THEN Leaf(newLedger, id) ELSE Absent]]

=============================================================================
