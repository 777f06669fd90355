------------------------------ MODULE Circuits ------------------------------
(***************************************************************************)
(* The constraints of the transfer, deposit and exit circuits              *)
(* (circuit/src), compared with the ledger they are to prove transitions   *)
(* of.  The state keeper applies one request per block; in every state the *)
(* circuits are given every request, with every witness that can be put    *)
(* together from the leaves and the paths of the tree.                     *)
(*                                                                         *)
(* Numbers are elements of the field of Prime elements.  An allocated      *)
(* number is whatever the constraints leave of it: where they use its      *)
(* first bits only, the whole element is not determined (Elements).  The   *)
(* bits of an element, in contrast, are those synthesis computes, of the   *)
(* number below the order: into_bits_le does not enforce that, so what is  *)
(* shown here is shown for such decompositions only.                       *)
(*                                                                         *)
(* A hash is the tuple of what is hashed: the hash functions are taken to  *)
(* be injective, signatures to be unforgeable.                             *)
(***************************************************************************)
EXTENDS PlasmaState, MerkleTree, FiniteSets

CONSTANTS
  BalanceBits, NonceBits, BlockBits,  \* the widths of plasma/params.rs
  AmountExponent, AmountMantissa,     \* the widths of encoded amounts
  FeeExponent, FeeMantissa, Base,     \* and fees, and the base of the exponent
  Prime,                              \* the order of the scalar field
  Transfers, Deposits,                \* requests, valid ones and others
  MaxBlock                            \* bound on blocks made

\* The largest number that an encoding of these widths stands for.
Largest(exponentBits, mantissaBits) == (2^mantissaBits - 1) * Base^(2^exponentBits - 1)

ASSUME CircuitConstants ==
  /\ {BalanceBits, NonceBits, BlockBits, AmountExponent, AmountMantissa,
      FeeExponent, FeeMantissa, Prime, MaxBlock} \subseteq Nat
  /\ Capacity = 2^Depth /\ AccountId = 0 .. Capacity - 1
  /\ Transfers \subseteq TransferTx /\ Deposits \subseteq DepositTx
  \* sums of amounts that fit do not wrap around in the field
  /\ \A tx \in Transfers : /\ 2^BalanceBits + tx.amount + tx.fee < Prime
                            /\ tx.goodUntil < 2^BlockBits     \* a u32
                            \* convert_to_float has an encoding for both
                            /\ tx.amount <= Largest(AmountExponent, AmountMantissa)
                            /\ tx.fee <= Largest(FeeExponent, FeeMantissa)
  /\ \A tx \in Deposits : 2^BalanceBits + tx.amount < Prime
  /\ 2^NonceBits < Prime /\ 2^BlockBits + MaxBlock < Prime /\ Capacity <= Prime

\* What powers are, for the exponents that are used.
ASSUME PowersOfBase ==
  /\ Base \in Nat \ {0} /\ Base^0 = 1
  /\ \A e \in 0 .. 2^AmountExponent + 2^FeeExponent : Base^(e + 1) = Base * Base^e

VARIABLES
  ledger,  \* the tree of the state keeper, and of a prover that is up to date
  block    \* the number of the next block

vars == <<ledger, block>>

----------------------------------------------------------------------------
\* Field elements and bits

Plus(a, b) == (a + b) % Prime

Minus(a, b) == (a + Prime - b) % Prime

\* limit_number_of_bits
FitsBits(a, width) == a < 2^width

Bit(address, level) == (address \div 2^level) % 2

\* The elements whose first bits are those of n: what an allocated number can
\* be when only its truncated bits are signed, hashed or published.
Elements(n, width) == {e \in 0 .. Prime - 1 : e % 2^width = n % 2^width}

----------------------------------------------------------------------------
\* The tree

\* A leaf is hashed as the bits of its three parts, cut to their widths.
LeafHash(leaf) ==
  <<"leaf", leaf.balance % 2^BalanceBits, leaf.nonce % 2^NonceBits, leaf.key>>

LeafHashes(leaves) == [id \in AccountId |-> LeafHash(leaves[id])]

LedgerRoot(leaves) == Root(LeafHashes(leaves))

\* A witness: the content of a leaf and a path, each of some account.
Witnesses ==
  {[leaf |-> Leaf(ledger, a), path |-> Path(LeafHashes(Leaves(ledger)), b)] : a, b \in AccountId}
  \cup {[leaf |-> DefaultAccount, path |-> Path(LeafHashes(Leaves(ledger)), b)] : b \in AccountId}

\* "enforce correct old root"
Openings(id) ==
  {w \in Witnesses : Ascended(LeafHash(w.leaf), id, w.path) = LedgerRoot(Leaves(ledger))}

----------------------------------------------------------------------------
\* Amounts

\* integerToFloat: the least exponent that leaves a mantissa of the width, and
\* what the number is divided by it.
\* Slip: the exponent stays 0 and the mantissa is cut.
SlipSmallExponent(n, exponentBits, mantissaBits) ==
  [exponent |-> 0, mantissa |-> n % 2^mantissaBits]

Encoded(n, exponentBits, mantissaBits) ==
  LET exponent == CHOOSE e \in 0 .. 2^exponentBits - 1 :
                    /\ n <= (2^mantissaBits - 1) * Base^e
                    /\ e > 0 => n > (2^mantissaBits - 1) * Base^(e - 1)
  IN  [exponent |-> exponent, mantissa |-> n \div Base^exponent]

\* floatToInteger, parse_with_exponent_le
Parsed(float) == float.mantissa * Base^float.exponent

\* What a transfer's signature, the prover and the circuit are about: the
\* amounts as they can be encoded, rounded down.
Rounded(tx) ==
  [tx EXCEPT !.amount = Parsed(Encoded(@, AmountExponent, AmountMantissa)),
             !.fee = Parsed(Encoded(@, FeeExponent, FeeMantissa))]

----------------------------------------------------------------------------
\* Transfers

\* check_message_signature: the message carries the nonce of the leaf and the
\* first bits of the last block, which are those of tx for all its witnesses;
\* the key of the leaf has to be a point of the curve.
Signed(tx, leaf) ==
  /\ leaf.key # NoKey
  /\ tx.signer = leaf.key
  /\ tx.nonce = leaf.nonce % 2^NonceBits

\* find_common_prefix: the levels at and above which the two addresses agree.
SharedLevels(from, to) ==
  {level \in 0 .. Depth - 1 :
     \A above \in level .. Depth - 1 : Bit(from, above) = Bit(to, above)}

\* find_intersection_point: the level where the two paths meet.  Equal
\* addresses meet nowhere.
\* Slip: the length of the prefix is taken as the level.
SlipNotReversed(level, from, to) == level = Cardinality(SharedLevels(from, to))

Intersects(level, from, to) == level = Depth - 1 - Cardinality(SharedLevels(from, to))

\* "assemble new state root": both branches are followed to the root, and
\* where they meet each takes the other's hash in place of its path element.
Assembled(tx, fromHash, toHash, wf, wt) ==
  LET up[level \in 0 .. Depth] ==
        IF level = 0 THEN [from |-> fromHash, to |-> toHash]
        ELSE LET below == up[level - 1]
                 meet  == Intersects(level - 1, tx.from, tx.to)
             IN  [from |-> Parent(level - 1, Bit(tx.from, level - 1), below.from,
                                  IF meet THEN below.to ELSE wf.path[level - 1]),
                  to   |-> Parent(level - 1, Bit(tx.to, level - 1), below.to,
                                  IF meet THEN below.from ELSE wt.path[level - 1])]
  IN  up[Depth]

\* Two leaves with their paths, the last block, the recipient's address, and
\* recipient_is_zero.  The signature and the paths leave all but the first bits
\* of the two numbers open.
TransferWitnesses(tx) ==
  [from : Openings(tx.from), to : Openings(tx.to), goodUntil : Elements(tx.goodUntil, BlockBits),
   recipient : Elements(tx.to, Depth), isZero : BOOLEAN]

\* Those with the numbers the prover assigns and the flag synthesis computes.
AsComputed(tx) ==
  [from : Openings(tx.from), to : Openings(tx.to), goodUntil : {tx.goodUntil},
   recipient : {tx.to}, isZero : {tx.to = ExitId}]

NewSender(tx, leaf) ==
  [leaf EXCEPT !.balance = Minus(@, tx.amount + tx.fee), !.nonce = Plus(@, 1)]

\* With the flag, what the recipient receives and what it has are forfeited.
NewRecipient(tx, leaf, isZero) ==
  [leaf EXCEPT !.balance = IF isZero THEN 0 ELSE Plus(@, tx.amount)]

TransferRoots(tx, w) ==
  Assembled(tx, LeafHash(NewSender(tx, w.from.leaf)),
            LeafHash(NewRecipient(tx, w.to.leaf, w.isZero)), w.from, w.to)

\* The three constraints on the flag, then the difference of block numbers.
TransferHolds(tx, w) ==
  /\ Signed(tx, w.from.leaf)
  /\ FitsBits(NewSender(tx, w.from.leaf).balance, BalanceBits)
  /\ FitsBits(NewRecipient(tx, w.to.leaf, w.isZero).balance, BalanceBits)
  /\ FitsBits(NewSender(tx, w.from.leaf).nonce, NonceBits)
  /\ \A level \in SharedLevels(tx.from, tx.to) : w.from.path[level] = w.to.path[level]
  /\ TransferRoots(tx, w).from = TransferRoots(tx, w).to
  /\ w.isZero => w.recipient = 0
  /\ FitsBits(Minus(w.goodUntil, block), BlockBits)

\* The new roots that some of the witnesses prove.
ProvenByTransfer(tx, witnesses) ==
  LET encoded == Rounded(tx)
  IN  {TransferRoots(encoded, w).from : w \in {v \in witnesses : TransferHolds(encoded, v)}}

----------------------------------------------------------------------------
\* Deposits

\* leaf_is_empty is a witness that may be 1 for a leaf of zeroes only.
\* Slip: the flag is not constrained.
SlipFlagFree(isEmpty, leaf) == TRUE

EmptyIsZero(isEmpty, leaf) == isEmpty => leaf = DefaultAccount

\* The amount is published by its first bits, and added as a whole.
DepositWitnesses(tx) ==
  [opening : Openings(tx.account), amount : Elements(tx.amount, BalanceBits),
   isEmpty : BOOLEAN, newKey : Key \cup {NoKey}]

UpdatedLeaf(w) ==
  [w.opening.leaf EXCEPT !.balance = Plus(@, w.amount),
                         !.key = IF w.isEmpty THEN w.newKey ELSE @]

\* The last conjunct is the hash of the public data: the block publishes the
\* key of the deposit, the circuit the key of the updated leaf.
DepositHolds(tx, w) ==
  /\ EmptyIsZero(w.isEmpty, w.opening.leaf)
  /\ UpdatedLeaf(w).key # NoKey
  /\ FitsBits(UpdatedLeaf(w).balance, BalanceBits)
  /\ tx.key = UpdatedLeaf(w).key

\* The witness apply_and_prove_deposit puts together: for an account without
\* funds, that of an empty leaf, whatever its nonce and its key are.
ProverWitness(tx) ==
  LET leaf  == Leaf(ledger, tx.account)
      empty == leaf.balance = 0
  IN  [opening |-> [leaf |-> IF empty THEN DefaultAccount ELSE leaf,
                    path |-> Path(LeafHashes(Leaves(ledger)), tx.account)],
       amount  |-> tx.amount,
       isEmpty |-> empty,
       newKey  |-> IF empty THEN tx.key ELSE leaf.key]

ProvedByProver(tx) ==
  ProverWitness(tx).opening \in Openings(tx.account) /\ DepositHolds(tx, ProverWitness(tx))

\* The new roots that some of the witnesses prove.
ProvenByDeposit(tx, witnesses) ==
  {Ascended(LeafHash(UpdatedLeaf(w)), tx.account, w.opening.path) :
     w \in {v \in witnesses : DepositHolds(tx, v)}}

----------------------------------------------------------------------------
\* Exits

\* What is left of the leaf.
\* Slip: the key stays.
SlipKeyStays(leaf) == [DefaultAccount EXCEPT !.key = leaf.key]

ExitedLeaf(leaf) == DefaultAccount

\* The public data hold the balance of the leaf: what is paid out.
ProvenByExit(id) ==
  {[root |-> Ascended(LeafHash(ExitedLeaf(w.leaf)), id, w.path),
    paid |-> w.leaf.balance % 2^BalanceBits] : w \in Openings(id)}

----------------------------------------------------------------------------
\* The state keeper

Init ==
  /\ ledger = [id \in AccountId |-> Absent]
  /\ block = 1

\* Blocks are made up to MaxBlock and while the numbers of the new ledger
\* have the widths of the circuits.
NextLedger(new) ==
  /\ block <= MaxBlock
  /\ \A id \in AccountId : /\ FitsBits(Leaf(new, id).balance, BalanceBits)
                          /\ FitsBits(Leaf(new, id).nonce, NonceBits)
  /\ ledger' = new
  /\ block' = block + 1

Transfer(tx) ==
  /\ TransferValid(ledger, tx, block)
  /\ tx.from # tx.to        \* TransferTx::validate
  /\ NextLedger(ApplyTransfer(ledger, tx))

Deposit(tx) == NextLedger(ApplyDeposit(ledger, tx))

Exit(id) ==
  /\ ExitValid(ledger, id)
  /\ NextLedger(ApplyExit(ledger, id))

Next ==
  \/ \E tx \in Transfers : Transfer(tx)
  \/ \E tx \in Deposits : Deposit(tx)
  \/ \E id \in AccountId : Exit(id)

Spec == Init /\ [][Next]_vars

----------------------------------------------------------------------------
(***************************************************************************)
(* Properties                                                              *)
(***************************************************************************)

\* The ledger holds accounts with balances in Nat.
TypeOK == ledger \in Ledgers /\ block \in Nat

TransferFits(tx) ==
  /\ tx.to = ExitId \/ FitsBits(Leaf(ledger, tx.to).balance + tx.amount, BalanceBits)
  /\ FitsBits(Leaf(ledger, tx.from).nonce + 1, NonceBits)

\* The transfers the ledger takes, but for those too large for the circuit.
Admitted(tx) ==
  /\ TransferValid(ledger, tx, block)
  /\ tx.from # tx.to
  /\ TransferFits(tx)

DepositFits(tx) == FitsBits(Leaf(ledger, tx.account).balance + tx.amount, BalanceBits)

IsFloat(n, exponentBits, mantissaBits) ==
  \E e \in 0 .. 2^exponentBits - 1, m \in 0 .. 2^mantissaBits - 1 : n = m * Base^e

AmountsExact(tx) == /\ IsFloat(tx.amount, AmountExponent, AmountMantissa)
                    /\ IsFloat(tx.fee, FeeExponent, FeeMantissa)

RootAfterTransfer(tx) == LedgerRoot(Leaves(ApplyTransfer(ledger, tx)))

\* With the numbers the prover assigns, the circuit proves what the ledger does
\* with the encoded amounts, for exactly the transfers TransferProvable says, and
\* no other root unless it forfeits what account 0 has: for every two positions
\* in the tree the two paths are joined correctly, and no other leaf or path
\* passes.  An overdraft, a wrong nonce, a signature of another key, an expired
\* transfer or one to oneself has no proof.  The root is the one the state
\* keeper goes on with if and only if the amount and the fee are some mantissa
\* times some power of the base.
\* For arbitrary witnesses this holds with two exceptions: account 0 may keep
\* the amount (the flag may be 0), and nothing is claimed of expiry, since the
\* constraints compare a last block of which the signature fixes the first bits
\* only.
TransfersMatch ==
  \A tx \in Transfers :
    LET encoded   == Rounded(tx)
        unexpired == [encoded EXCEPT !.goodUntil = block]
        computed  == ProvenByTransfer(tx, AsComputed(tx))
        any       == ProvenByTransfer(tx, TransferWitnesses(tx))
    IN
    /\ IF Admitted(encoded)
       THEN /\ TransferProvable(ledger, encoded, block) <=> RootAfterTransfer(encoded) \in computed
            /\ tx.to # ExitId => computed = {RootAfterTransfer(encoded)}
       ELSE computed = {}
    /\ Admitted(tx) /\ TransferProvable(ledger, tx, block)
         => (AmountsExact(tx) <=> RootAfterTransfer(tx) \in computed)
    /\ \A root \in any :
         /\ Admitted(unexpired)
         /\ tx.to # ExitId => root = RootAfterTransfer(encoded)

RootAfterDeposit(tx) == LedgerRoot(Leaves(ApplyDeposit(ledger, tx)))

UsedUp(leaf) == leaf.balance = 0 /\ leaf.nonce # 0

\* A deposit of nothing, as that of the padding account, leaves a key without
\* funds.  For the next deposit of this key there is a witness, but not the one
\* the prover takes.
OnlyKeyed(leaf, key) == key # NoKey /\ leaf = [DefaultAccount EXCEPT !.key = key]

\* The same for deposits, whichever value the witness of the flag takes: the
\* prover finds a proof for the deposits DepositProvable says.  If the amount of
\* the request is added, the circuit proves the ledger's root and no other, but
\* for a leaf that was used and has no funds, where the ledger starts afresh: of
\* that there is a proof with its nonce and key.  Whatever element is added, the
\* root the ledger goes on with is proved only for those deposits, and for an
\* account that has nothing but the right key.  What else is proved when another
\* element is added, with the bits that are published, is not claimed: the
\* circuit does not limit it.
DepositsMatch ==
  \A tx \in Deposits :
    LET leaf  == Leaf(ledger, tx.account)
        any   == ProvenByDeposit(tx, DepositWitnesses(tx))
        exact == ProvenByDeposit(tx, {w \in DepositWitnesses(tx) : w.amount = tx.amount})
    IN
    /\ DepositProvable(ledger, tx) /\ DepositFits(tx) <=> ProvedByProver(tx)
    /\ exact # {} => DepositFits(tx)
    /\ ~UsedUp(leaf) => exact \subseteq {RootAfterDeposit(tx)}
    /\ DepositFits(tx) => (RootAfterDeposit(tx) \in any
                             <=> DepositProvable(ledger, tx) \/ OnlyKeyed(leaf, tx.key))

\* An exit is proved for the root the state keeper goes on with, and pays out
\* what the account has, for whatever leaf and path the witness holds.  That the
\* leaf left behind hashes to the empty one rests, like all here, on its zeroes
\* being decomposed below the order.
ExitsMatch ==
  \A id \in AccountId :
    ProvenByExit(id) = {[root |-> LedgerRoot(Leaves(ApplyExit(ledger, id))),
                         paid |-> Leaf(ledger, id).balance]}

\* "If to == 0 then balance of to is not increased": the ledger takes a
\* withdrawal whatever account 0 holds, and the circuit should too, with whichever
\* value of the flag.
WithdrawalsProvable ==
  \A tx \in Transfers :
    (/\ tx.to = ExitId /\ Rounded(tx) = tx
     /\ TransferValid(ledger, tx, block) /\ TransferFits(tx))
      => RootAfterTransfer(tx) \in ProvenByTransfer(tx, TransferWitnesses(tx))

=============================================================================
