# A TLA+ verification project for MyRollup

MyRollup keeps the accounts of a rollup: a server applies transfers, deposits
and exits to a ledger in a sparse Merkle tree, cuts them into blocks, and stores
the blocks in a database; provers fetch the blocks, execute them again and prove
with a circuit that the root moved from one value to the next; the server then
marks the blocks as verified.  This directory holds models of these parts, the
TLC runs that check them on small instances, and proofs of the most important
properties for every instance.

    tlc -config Keeper.cfg MCStateKeeper.tla     # and so on, see "Runs"
    tlapm StateKeeperProofs.tla                  # and the other ...Proofs modules

`PROJECT.json` lists the runs, which lines of the source each definition stands
for, the mutants (a change to one definition, by an operator called `Slip...`
just before it, that a run must notice), the findings, the hazards and the
theorems.

## 1. Inventory

Paths are relative to `src/`.

| Component | State | Operations | Interacts with |
|---|---|---|---|
| State keeper, `server/src/state_keeper.rs`, with the ledger `plasma/src/state.rs` | balance tree, block number, queue of blocks, open batch, deadline | `AddTransferTx`, `AddBlock`, `TimerTick`, `GetAccount`, `GetNetworkStatus` | requests from the API and the timer over a channel; blocks to the committer over another |
| Server process and committer, `server/src/main.rs`, `committer.rs` | channel, last verified block | receive and store a block; when 100 ms pass without one, verify blocks that have a proof | writes and polls the database |
| Storage, `storage/src/lib.rs` | operations, account updates, verified accounts, proofs, prover runs, nonce sequence | transactions and queries | shared by the server and all provers |
| Prover, `prover/src/lib.rs` | its own account tree, the block it is ready for, its job | attempts: fetch a job, move the tree, execute, prove, store; heartbeats | only the database |
| Submit handler, `server/src/api_server.rs`, `nonce_futures.rs` | the table of nonces, futures and tasks, shared by the threads | `handle_submit_tx`, `nonce_await`, `poll`, `set_next_nonce` | asks the state keeper, waits for other handlers |
| Account map, deposit and exit handlers, `api_server.rs` | map from addresses to account ids | `handle_depositReq`, `handle_deposit`, `handle_exitReq`, `handle_address`; the padding account at the start | sends `AddBlock` to the state keeper, reads the database |
| Other API handlers | network status | read-only queries | database, state keeper |
| Merkle trees, `merkle_tree/src` | items, stored hashes; nodes and cache | `insert`, `delete`, `merkle_path`, `root_hash` | the ledger; the witnesses of the circuits |
| Circuits, `circuit/src` | none: constraints on witnesses | transfer, deposit, exit | witnesses from the prover |
| Bit window of cheques, `circuit/src/cheque/bitwindow.rs` | register of bits and start of the window, as witnesses | `BitSet` | none: no other code uses it |
| Hashers, keys, signatures; key generator; web client | | | |

What is hard about them:

* *State keeper.* One thread, but with three sources of requests and a deadline.
  Deposits and exits wait behind an open batch of transfers which clients have
  already been promised a place in.  Correct when the blocks are a serial history
  of the ledger, every confirmation is kept, funds and nonces add up, and nothing
  that waits waits for ever.
* *Server, storage, provers.* Four kinds of processes that can stop between any
  two steps, and share nothing but tables.  The committed state is not stored but
  pieced together; proofs arrive in any order; a prover's tree survives its failed
  attempts.  Correct when a restart resumes at the last committed block, blocks
  are verified in order and only with a proof that connects the two roots, and
  every committed block is verified in the end.
* *Submit handler.* Many threads and one table, two timeouts, and replies that
  come too late.  Correct when an accepted transfer was applied, a refused one
  was not unless the reply came too late, nonces are applied in order and nobody is
  left hanging.
* *Account map.* Read, sent and written in separate steps by several threads, in
  memory only, while the accounts it points to are in the database, and an exit
  of an account that is not there ends the state keeper.  Correct when that takes
  a race of two requests for one address, and when who deposited can exit.
* *Bit window.* It replaces the set of all redeemed numbers by a few bits, with
  differences and shifts in a finite field, whose elements have more than one
  decomposition into bits.  Correct when exactly the new numbers within reach are
  accepted, and none twice.
* *Merkle trees.* Cached hashes that must never be stale.
* *Circuits.* They have to agree with the ledger on every request: one accepted by
  the ledger and refused by the circuit stops verification for good, the opposite
  would be worse.

The complete list of hazards, each at its line, is in `PROJECT.json`.

## 2. Modules

    PlasmaState   the ledger, as operators        MerkleTree    the definition of the tree
      StateKeeper    the thread                     SparseTree
        KeeperChain    implements RollupChain         SequentialSmt
          StateKeeperProofs                           ParallelSmt
      Storage        tables and queries                 MerkleTrees   both, compared
        Server         the process                        MerkleTreesProofs
          Api            map, deposits, exits         Circuits      (with PlasmaState)
            ApiProofs                                   CircuitsProofs
          Rollup         (with Prover) all
            RollupProofs   processes              SubmitTx      handlers and nonce table
                                                    SubmitTxProofs
    RollupChain   what the others rely on
                                                  WindowSize
    LedgerLemmas  for all proofs about ledgers,     NumberWindow  the window, abstractly
                  trees and numbers                 BitWindow     implements NumberWindow
                                                      BitWindowProofs   about both

Each `MC...` module gives a specification the values TLC needs.

* **PlasmaState** translates `apply_transfer`, `apply_deposit` and `apply_exit`
  as operators on a ledger, a function from account ids to accounts or `Absent`.
  The root hash is represented by the contents of all leaves, an absent one
  being a default account (the tree hashes both alike): equal leaves, equal
  roots.  `TransferProvable` and `DepositProvable` say which transitions the
  circuits can prove; `Circuits` justifies them.  A transfer to account 0 leaves
  the rollup; an id beyond the tree makes the tree's assertion panic (`InTree`).
* **StateKeeper** has one action per request and outcome.  `AcceptTransfer` is the
  whole of `AddTransferTx` for a valid transfer: apply, queue, confirm, and set
  the deadline or close the batch.  `FinalizeBatch` is a timer tick after the
  deadline: padding transfers from account 2 fill the batch.  The loop of
  `process_block_queue` is one step per block, as the committer sees the blocks
  one by one; no request is served meanwhile.  `timeLeft` counts the ticks up to
  `next_block_at_max`.  Panics are values of `status`: `"padding panic"` (the
  `expect` of `apply_padding`), `"exit panic"` (the one of `create_exit_block`),
  `"index panic"`.  `commits` and `confirmed` record what was sent to the
  committer and to clients.
* **RollupChain** is the abstract specification: a sequence of blocks that only
  grows, whose numbers are consecutive, and in which every transaction is valid
  when its turn comes and the root of a block is what its transactions make of
  the root before.  **KeeperChain** states that the state keeper implements it
  (`chain <- commits`), and `Rollup` that the database does (`chain <- commitOps`,
  through any crash).  A prover relies on exactly this.
* **Storage** has the tables as variables and one operator per query or
  transaction: a query is atomic, and what happens between two is left to the
  processes.  `LoadCommittedState` overlays the verified accounts with the
  newest later updates; `LoadStateDiff` has the inclusive and exclusive bounds
  of the query and drops accounts that have no row in the target state, as the
  code does.  The queries of the API are there too: an account as committed and
  as verified, a range of blocks joined with their verifications
  (`LoadBlockRange`), the commitments that are not verified.  A run of a prover is fresh or not: whether the last heartbeat is
  younger than `PROVER_TIMEOUT`.
* **Server** is the process: the keeper reduced to what `KeeperChain` shows of it
  (one transaction per block), the channel, and the committer's loop.  `Restart`
  may happen at any point and loses everything but the tables;
  `CommitterPanics` is a database error in its thread, after which the keeper
  panics at its next block (the send fails).
* **Prover** has the phases of `make_proving_attempt`.  `ProofFails` leaves the
  tree as the code leaves it: unchanged, changed, or changed with the block
  number moved on.  `AttemptFails` is a database error anywhere, `RestartProver`
  a stop.  Heartbeats can get lost (`LeaseExpires`).
* **Rollup** puts server, provers and database together.
* **Api** adds to `Server` the handlers that deposit and exit, in phases: a
  deposit writes the map (`EnterDeposit`) and then sends (`SendDeposit`); an exit
  reads the map (`FindExit`), sends (`SendExit`) and removes the entry
  (`RemoveAddress`).  `Lower` and `IdOf` are what the code computes from an
  address: its lower case, in which it is looked up though it was entered as
  spelled, and the account id, 24 of its bits, which two addresses may share.
  `StartChecked` is the start with the query for the padding account,
  `StartUnchecked` the one without a database.  `requests` is the queue to the
  keeper, which takes it in order; `ExitPanics` is the `expect` of
  `create_exit_block`.  A restart loses the map and the queue.  `depositors` and
  `raced` record who deposited and which addresses were deposited for and exited
  at the same time.
* **SubmitTx** models the handler as a thread with phases, and the table as in
  `nonce_futures.rs`: entries by nonce, shared futures (`cells`) with their
  states, and the tasks to notify.  The table is under one lock, so `nonce_await`,
  `poll` and `set_next_nonce` are one step each.  Entries of different accounts
  never touch, so one account stands for all, and the state keeper is its nonce:
  it applies a transfer only with this nonce, and may refuse it all the same, for
  the balance or the last block.  The answer is a `TransactionResponse`, accepted or
  not; `late` has the handlers whose 500 ms for the state keeper's reply ran out.
* **MerkleTree** defines the hashes, root and paths of a tree over given leaves.
  **SequentialSmt** and **ParallelSmt** translate the two implementations with
  all they store; **MerkleTrees** gives both the same writes.  `Walk` is the loop
  of the parallel `insert`, `NodesWith` what it does to the nodes; `LineHashes`,
  `ChildHash` and `NodeHash` are `get_hash_line`, `get_child_hash` and `get_hash`,
  each with the updates it returns, and `Computed` the result of the recursion at
  the root.  Maps are functions; `With` and `Single` are what is inserted into
  one.  The code counts levels from the root, the reference from the leaves, as
  the hash's personalization does.
* **Circuits** states the constraints of the three circuits as predicates over
  witnesses: field arithmetic modulo `Prime`, limits on bits, paths that open the
  old root, the join of the two paths of a transfer, the witness
  `leaf_is_empty`.  `Elements` are the values an allocated number can have when the
  constraints use its first bits only: the last block of a transfer, of which these
  are signed; the recipient's address, of which they are the path; the amount of a
  deposit, of which they are published.  `TransferWitnesses` and `DepositWitnesses`
  range over all of them and over both values of the flags; `AsComputed` are those
  with what the prover assigns and synthesis computes.  Its state is the ledger of
  the state keeper; in every state
  the set of roots the circuit can be satisfied for (`ProvenByTransfer` and so
  on) is compared with what the ledger does.  For deposits `ProverWitness` is the
  one witness the prover puts together: it takes a leaf without funds for an empty
  one, whatever else the leaf holds.  `Encoded` is the encoding of an
  amount with a short mantissa and an exponent, translated from the client's
  `integerToFloat` (the server and the prover call the same algorithm of a
  library), and `Rounded` the transfer that its signature, the prover and the
  circuit see.
* **NumberWindow** is the abstract specification of the bit window: numbers are
  redeemed in any order, and a register with a place for each number of a window
  that only moves forwards decides whether one is new.  **BitWindow** has the
  constraints of `BitSet` in a field of `Prime` elements: the distance as a
  difference in the field, the lookups (the functions their polynomials
  interpolate), the shift as a subtraction of the remainder and a multiplication
  with the inverse of 2 for each bit of the mask.  The constraints are stated for any
  assignment of the bits: `Decompositions` are the numbers whose bits `into_bits_le`
  takes for an element, `Witnesses` all choices for the four elements that are
  decomposed, `Synthesised` the one below the order that synthesis computes, with
  which the steps are taken.  The circuit computes the next
  register and start without returning them; the model takes the next number with
  these.

A hash is the tuple of what is hashed, that is, hash functions are taken to be
injective, and signatures to be unforgeable: `signer` is the key a signature
verifies against.

## 3. Runs

| Run | Checks | Instance and bounds |
|---|---|---|
| `Keeper` | see below | batch of 3, interval of 1 tick, 5 transfers, 4 deposits, 2 exits, at most 4 blocks made or waiting (`MaxBlocks`) |
| `RollupCrashes` | see below | 2 provers (symmetric), 3 blocks (`MaxBlock`), 1 stop of the server or its committer (`MaxStops`), 1 failed attempt, restart or lost heartbeat (`MaxFailures`), 3 prover runs (`MaxRuns`) |
| `RollupProvers` | `CommittedIsVerified` | 2 provers, 3 blocks, 1 stop, no prover failure, 4 runs |
| `Submit` | see below | 3 requests with any nonces up to 2, 1 reset of the account, 1 handler that stops waiting for the reply (`MaxGivenUp`) |
| `Circuits` | see below | tree of 8 leaves, balances and block numbers of 3 bits, nonces of 2, field of 17 elements, amounts of 2 bits of mantissa, fees of 1, and 1 of exponent of base 3; 14 transfers, 8 deposits, 4 blocks (`MaxBlock`) |
| `Api` | see below | 2 handlers (symmetric), 3 spellings of 2 addresses with one id, deposits with and without an address, a transfer, 3 blocks (`MaxBlock`), 1 stop (`MaxStops`), 2 waiting requests (`MaxQueued`) |
| `BitWindow` | see below | 4 places, strides of 2, starts below 8, a field of 19 elements of 5 bits with all its elements as numbers |
| `MerkleTrees` | see below | tree of 8 leaves, 4 of them written with 3 items, unbounded length |
| `KeeperPadding`, `RollupRewind`, `RollupEmptyLeaf`, `CircuitWithdrawal` | one property each | expected to be violated: section 4 |

**Keeper.** `BatchDiscipline`: between requests the batch is not full (the padding
count is an unsigned difference), a deadline is set exactly while it is open, and
blocks wait only behind it.  `ConfirmationKept`: a client told "block *n*" finds
its transfer in block *n*.  `UpdatesYieldRoot`: the account updates of a block,
all the database learns, turn the state before into the one with the block's
root.  `FundsConserved`, `NonceReuseNeedsReset`: funds add up over deposits,
fees, withdrawals and exits; an account uses a nonce again, in the same block or
in a later one, only after it was reset in between.  `NoBlockLost`: no deposit or exit is dropped or made twice in the
queues.  `ImplementsChain`: the refinement.  `BatchIsClosed` and
`WaitingBlocksAreMade`: open batches and waiting blocks are finished.
Four blocks suffice for a padded and a full batch with a block queued behind it,
a deposit between two batches that resets an account, and both panics.

**RollupCrashes.** `StatesRecoverable`: the state a restarted server loads is that
of the last committed block, and the verified one that of the last verified
block.  `DiffMovesState`: a state diff moves a tree between any two committed
states, on the accounts that exist in the target.  `VerifiedInOrder`,
`ProofsConnect`: verification is in order, after a proof, of a commit; and a
stored proof goes from the root of the block before to the root of the block,
even by a prover whose tree is wrong.  `CommitsAreAChain`: refinement of
`RollupChain` by the table of commits.  `OneProverPerBlock`: unless heartbeats
are lost.  `QueriesAgree`: what the API reads of one account, of a range of
blocks and of the unverified commitments is what the restored states and the
tables of operations say.  Three blocks are what it takes for one to be verified, one proved and
one open, or for a tree to move back behind a created account.

**RollupProvers** checks that every committed block is verified, with a stop of
the server or its committer anywhere.  With failures of provers this is false,
for the reason `RollupRewind` shows, so the run has none; its requests leave no
account without funds in use, for the reason of `RollupEmptyLeaf`.

**Submit.** `OnlyLateRepliesMislead`: an accepted transfer was applied.  One that
was answered `accepted: false` was not and never will be, *unless* its handler
stopped waiting for the reply of the state keeper after 500 ms: then the answer is
the same struct (`api_server.rs:369-373`, `388-394`), of which only the text of the
error differs, and the web client shows it as "Transaction rejected" with that text
(`client/src/Wallet.vue:428`), while the transfer may have been applied, or may be
later.  That this happens is what the code does; the property says that it is the
only way in which a refusal misleads: neither the timeout of the wait for the nonce,
nor a refusal by the state keeper, nor a future shared with other requests does.
`NoncesInOrder`: between
resets no nonce is applied twice or skipped.  `SleepersAreAhead`: a request that
sleeps although its nonce has come does so only because two announcements came in
the reverse order of their confirmations.  `EveryoneAnswered`.

**Api.** `ExitPanicNeedsRace`: an exit ends the state keeper for want of an
account only when a deposit and an exit of the same address were under way at
once; shared ids, plain deposits, stops and restarts alone never do it.
`DepositorsCanExit`: who deposited finds the account, until an exit was sent.
`PaddingFirst`: after a start with a database the padding account is there, or is
the first thing the keeper makes, whatever was lost with the process before.
Two handlers are what a race takes; two addresses with one id make exits of an
account another address was exited from.

**BitWindow.** `AcceptsExactly`, in two parts.  With what synthesis assigns the
constraints hold for exactly the numbers within reach that were not redeemed before:
a number below the window is a huge distance, and no bit is left over from a shift.
For every assignment of bits that `into_bits_le` admits they hold only for numbers
within reach, and only for new ones *if* the bits are of numbers below the order.
The circuit does not enforce this condition (`into_bits_le` is not the strict
decomposition, as the comment at `transfer/circuit.rs:587` says where it is used for
hashes), and the property fails without it: 13 of the 19 elements have a second
decomposition, as many of the code's field have one.  So that no number is redeemed twice is a property of the window and of the assignments
synthesis computes, not of the constraints alone; `TypeOK` and the refinement of
`NumberWindow`, `ImplementsWindow`, are about these assignments, too.  With 4 places and
strides of 2 there are distances with and without a shift, the two between the
last valid one and the limit of 3 bits, and every one that wraps around.  (The
code has 128 places, strides of 64 and 8 bits.)  The field has to hold the
register and the largest start with a distance added, which is assumed of
`Prime` and holds for the code's.

**Circuits.** `TransfersMatch`: with the numbers the prover assigns, the circuit
proves the root of the ledger exactly when `TransferProvable` holds and the amount
and the fee can be encoded without loss, and otherwise at most the one with the
rounded amounts; an overdraft, a wrong nonce or key, an expired transfer or one to
oneself has no proof.  For arbitrary witnesses the constraints enforce all of this
but two things, which the property leaves out.  Expiry: of the last block the first
bits are signed, and the whole number, which nothing limits, is compared with the
block (`transfer/circuit.rs:439-450`, `155-181`).  And the forfeit of a transfer to
account 0: the flag may be 0 there.  The instance has such witnesses: claimed for
them, expiry and the deposit's "no other root" (below) are both violated.
`DepositsMatch`: the witness of the prover is
accepted for exactly the deposits `DepositProvable` says.  If the amount of the
request is added, no witness proves another root except for an account that was used
up, where it can keep the nonce and the key that the ledger forgets.  For any element
with the published bits, the ledger's root is proved for those deposits only and for
one more kind, a deposit into an account that has nothing but the right key; which
other roots are proved is not claimed, as the circuit adds the whole number and
limits only the sum (`deposit/circuit.rs:367-395`).  `ExitsMatch`: an exit is proved
for one root, and pays out what the account has.  In all three the bits of an element
are those of the number below the order, as synthesis computes them.
The tree has eight leaves, so that the paths of
two accounts meet at each of three levels, at the leaves, in the middle and at
the root, in both orders: all cases of the join.

**MerkleTrees.** `StoredHashesExact` and `PathsOpenRoot` for the sequential tree,
`CacheExact` and `RootsEqual` for the parallel one: no order of writes, deletes
and reads of the root leaves a stale hash.  The written leaves 0, 1, 3 and 6 make
links of length one to three which are split at each level; the state space is
finite without a bound.

`TypeOK` of each module also says what the pointers between tables mean
(`SubmitTx`, `MerkleTrees`).

### Fairness

* `StateKeeper`: the timer thread sends ticks for ever, time passes, and the
  thread finishes its loop.  No request is assumed to arrive.
* `Rollup`: the committer's loop and each prover's loop go on; a run nobody works
  on expires; a server whose committer died is started again (by its operator,
  outside the code: the process itself stays up with a dead thread).  The keeper
  is not assumed to make blocks.  As blocks are bounded, the committer comes to
  look for proofs; under traffic that never pauses for 100 ms the code does not
  promise that.
* `SubmitTx`: threads run, the 800 ms timer fires, the state keeper serves.
  The 500 ms timer is not needed, as the state keeper always replies.

`CHECK_DEADLOCK FALSE` is set where the instance ends when its bounds are
reached; `MerkleTrees` never stops and is checked for deadlock.

## 4. Findings

Each of these is a run whose only property states what a comment, an assertion
or a name in the source says, and which TLC refutes.

1. `KeeperPadding`: the `expect` "padding must always be applied correctly"
   fails when account 2 was exited, or re-keyed by a deposit while it had no
   funds.  Both are ordinary requests.
2. `RollupRewind`: "load state delta ... (can go both forwards and backwards)".
   After a failed attempt that had applied a block, the diff back has no rows
   for accounts the block created, so they stay in the tree and this prover
   cannot prove the block until it is restarted.
3. `RollupEmptyLeaf`: "Leaf can be empty if and only if the nonce == 0 &&
   balance == 0".  The ledger calls a leaf empty when its balance is 0; a deposit
   into an account that spent all it had yields a block without a proof, and so
   does one into an account made by a deposit of nothing, as the padding account
   is (`server/src/api_server.rs:849`), though the circuit has a witness there.
4. `CircuitWithdrawal`: "If to == 0 then balance of to is not increased".  The
   constraint sets the balance of account 0 to 0.  With funds on account 0 a
   transfer of a positive amount to it has no proof, with either value of the flag;
   one of amount 0, as padding is, has none with the value synthesis computes.

Observations without a run of their own:

* `set_next_nonce` overwrites the record without comparing: two handlers that
  announce in the reverse order of their confirmations move it back, and a
  transfer whose turn has come sleeps until it times out after 800 ms, though
  "Notify futures waiting for nonce" is the comment
  (`server/src/api_server.rs:375`).  `SleepersAreAhead` shows that nothing else
  leaves one asleep.
* A deposit into a funded account publishes the key of the deposit, the circuit
  that of the leaf (`DepositProvable`).  Accounts that a transfer created have
  the key (0, 0), so their owner's first deposit is a block without a proof;
  `DepositsMatch` has these cases.
* Amounts and fees are applied to the ledger as they are, but signed and proved
  as they are encoded, rounded down: a fee of 8 or 9 is 0 in 3 bits of mantissa
  with base 10.  A transfer with an amount or a fee that cannot be encoded
  exactly is accepted, and its block has no proof (`TransfersMatch`).
  `TransferProvable`, which `Rollup` uses, is about the others.
* The address map is written under the address as the request spells it and
  looked up in lower case (`api_server.rs:168`, `194`): who deposits with a
  capital letter in the address is not found.  `DepositorsCanExit` is about the
  others.
* Account ids are 24 bits of the address, so two addresses can share an account:
  whoever exits first is paid all of it.  (An exit resets the item of the tree
  and does not remove it, so the other's exit does no harm to the keeper.)
* After a restart the map is empty while the accounts are there: nobody can exit
  who does not deposit again.
* In the transfer circuit the constraints on `recipient_is_zero` are also
  satisfied by the flag 0 with `to = 0`, though the comment says "if and only
  if" (`circuit/src/transfer/circuit.rs:831`).  `TransferWitnesses` has both values.
* What the circuits promise depends in three places on what is assigned, not on the
  constraints alone: the last block of a transfer and the amount of a deposit
  beyond the bits that are signed or published (`Circuits`), and the bits
  `into_bits_le` assigns in the bit window (`BitWindow`).  Section 3 says what holds
  with the prover's assignment and what for all.
* The first request for an account makes its own nonce the known one
  (`nonce_futures.rs:46`), so an early transfer that is the first is not held
  back but rejected by the state keeper.
* An id beyond the tree, from a request, ends the state keeper thread
  (`"index panic"`).

## 5. Proofs

`StateKeeperProofs` proves, for every batch size, interval, start ledger and set
of requests that satisfy the assumptions of `PlasmaState` and `StateKeeper`:

* `TypeCorrect`: `Spec => []TypeOK`.  Natural balances are the content: a
  transfer is applied only when the sender can pay, and padding moves nothing.
* `BatchDisciplined`: `Spec => []BatchDiscipline`.  The invariant is about idle
  states and is not inductive; `DrainInv` adds what holds while the loop runs:
  a full batch is the head of the blocks to be made, the others are deposits and
  exits, and none waits.
* `ConfirmationsAreKept`: `Spec => []ConfirmationKept`.  It rests on `DrainInv`:
  a transfer block is made with the number the confirmations carry because it is
  the first of its loop, and no transfer is accepted before the loop ends.
* `UpdatesAreExact`: `Spec => []UpdatesYieldRoot`.  The strengthening relates
  the ledger to the root of the last block: all accounts in which they differ are
  touched by the open batch.
* `FundsAreConserved`: `Spec => []FundsConserved`, for finitely many accounts
  (`FinitelyManyAccounts`: the tree is finite).  The books balance only between
  blocks; the invariant adds what the open batch has taken out so far, as
  `Outflows` of a prefix of a block, so that every transfer, padding transfer,
  deposit and exit moves the sum by what it is charged with.
* `ImplementsTheChain`: `Spec => ImplementsChain`, the refinement of
  `RollupChain`.  A transfer block extends the chain by all of its transactions at
  once, but the keeper applies them one by one, long before.  The invariant keeps
  the fold up to date: what the transactions of the open batch make of the root
  of the last block is the ledger in memory, and each was valid when its turn came.
* `NoncesAreUsedOnce`: `Spec => []NonceReuseNeedsReset`.  The nonce of an account
  is above all it used since the last reset, in the committed blocks and in the
  open batch.
* `RequestsAreKept`: `Spec => NoBlockLost`, step by step, for the requests as they
  wait, are made and are sent.

`RollupProofs` proves, for every number of provers and blocks, and any number of
stops, database errors, failed attempts and prover runs, from the assumptions of
`Storage`, `Server` and `Prover`:

* `BlocksVerifiedInOrder`: `Spec => []VerifiedInOrder`.  What makes a block ready
  to be verified is spread over processes: the committer remembers the last
  verified block, a prover holds the block of its job and later a proof it has
  not stored.  `OrderInv` says of each of them that it agrees with the tables:
  the committer's number is the last verified one, a job or an unstored proof is
  for a committed block.
* `OneProverAtWork`: `Spec => []OneProverPerBlock`.  `LeaseInv` adds that without
  a lost heartbeat the run of every prover at work is fresh, so `FetchJob` takes
  its block for no candidate.

About what the tables hold and what is restored from them it proves, under the
same assumptions and that a verified account is not taken for a missing one
(`StorageConstants`):

* `ServersResume`: `Spec => []StatesRecoverable`.
* `DiffsMoveTrees`: `Spec => []DiffMovesState`.
* `QueriesTellOneStory`: `Spec => []QueriesAgree`, for every range of blocks.
* `CommitsAreSerial`: `Spec => CommitsAreAChain`, the refinement of `RollupChain`
  by the table of operations.
* `ProofsAreOfTheirBlocks`: `Spec => []ProofsConnect`.
* `TablesTyped`: `Spec => []TypeOK`.

`ServersResume`, `DiffsMoveTrees` and `QueriesTellOneStory` are about a ledger that is stored nowhere as a whole: the updates of
each block, and a copy of the newest verified ones.  `RecoveryInv` says that there
is a sequence of ledgers (`History`) of which the newest rows up to a block give
each, the committed blocks carry the roots, and each block in the channel leads
to the next, up to the one in the keeper's memory; `TablesInv` adds that every
committed block has rows and no two for one account, and that a verified account
is the newest row up to the last verified block.  A start takes up the ledger
after the last committed block, what the channel held is forgotten, and a commit
moves the sequence's place by one: the sequence itself is changed only where the
keeper makes a block.  While the committer is gone the keeper may run ahead, and
nothing is said of its memory.  `RowsInv` ties the rows of a block to what it was
stored with.

`BlocksInv`, for the chain, says that every committed block, and every one in the
channel, was made on the root of the one before (`MadeOn`: its transaction was
valid there and its root is what the transaction makes of that root), and that an
exit is of an account which has a row by then.

`ProversInv`, for the proofs, says how far the tree of a prover may be from the
state before its block.  It can be wrong: a failed attempt leaves a block applied,
and the diff back has no row for an account that did not exist.  An account is
right, or unknown before the block, or was written by a failed replay of the next
block that updates it (`TreeRight`).  A wrong tree does not lead to a wrong proof:
transfers and deposits can be undone (`TransferUndone`, `DepositUndone`), so a
replay that ends in the root of the block started from the root before it, and an
exit is of a known account, which it leaves as the block says.  Trees are typed
with balances in the integers, as a replay on a wrong one may overdraw an account
(`LedgerConstants` keeps these apart from `Absent`, too).

`SubmitTxProofs` proves, for every number of concurrent requests, every nonce,
and any number of resets and late replies:

* `AnswersTold`: `Spec => []OnlyLateRepliesMislead`.  `RequestInv` follows a
  request: it is under way at most once, not applied until it is served, and its
  handler is listening for the reply or has stopped waiting, which leaves the
  outcome open.
* `NoncesApplied`: `Spec => []NoncesInOrder`.  `NonceInv` adds the order of the
  account's nonce and the first one.
* `SleepersWait`: `Spec => []SleepersAreAhead`.  `TableInv` says what the table
  must hold for a wake-up to reach a sleeper: as long as the record has not moved
  back, a nonce above the record has one future, which is not done yet, and a
  future that sleeps is the one its nonce's task points to.
* `HandlersTyped`: `Spec => []TypeOK`, from the same invariants.

`ApiProofs` proves, for every number of handlers, addresses and ids, any sharing
of ids, and any number of blocks, stops and restarts:

* `ApiTyped`: `Spec => []TypeOK`.  That the requests a handler holds fit the
  address it works on, and that what the keeper restores are accounts
  (`TablesOK`: the rows of each table have the newest one that `CHOOSE` takes).
* `PanicNeedsRace`: `Spec => []ExitPanicNeedsRace`.  `ExitsFollow` says why an
  exit finds its account: an entry of the map has its deposit behind it, made,
  waiting, or about to be sent by a handler; and an exit that waits has a deposit
  before it in the queue, unless two requests for its address raced.
* `DepositorsFindTheirAccount`: `Spec => []DepositorsCanExit`.  `EntriesStay` adds
  that a handler about to remove the entry of a depositor was there before the
  deposit was sent, so the two raced.
* `PaddingComesFirst`: `Spec => []PaddingFirst`.  `LedgerKeeps` says that what was
  written of an account, or waits in the channel, is of one the keeper has: so the
  row that makes the start leave the deposit out is one the keeper restored.

`CircuitsProofs` proves, for every depth of the tree, every width, every field that
is large enough for the sums (`CircuitConstants`) and every base with the usual
powers (`PowersOfBase`), and any number of blocks, from the lemmas on positions,
hashes and paths of a tree in `LedgerLemmas`:

* `TypeCorrect`: `Spec => []TypeOK`.  `CircuitInv` adds that the numbers of every
  account fit the widths.
* `ExitsAreProven`: `Spec => []ExitsMatch`.  It rests on `OpeningUnique`: against one
  root a position opens to one leaf hash and one path, by induction over the
  levels.  With the widths of `CircuitInv` a leaf hash stands for one account, so
  there is one witness (`OneOpening`); and different leaves have different roots
  (`LedgerRootInjective`), so a proof of a root is a proof of a ledger.
* `DepositsAreProven`: `Spec => []DepositsMatch`, from these, by whether the account
  has funds, and what the flag and the new key can be; the amount that was added to
  reach the ledger's root is the one of the request, since sums in the field
  cancel.
* `TransfersAreProven`: `Spec => []TransfersMatch`.  `JoinedRoot` is the join of the
  two paths: below the level where they meet each branch is a node of the new
  tree, at this level each takes the other's, and from there up both are the same
  node; the sibling of either is out of the other's reach at every other level.
  An element with the first bits of a recipient can be 0 only if the recipient is
  account 0.  Whatever last block is compared, the transfer is one the ledger takes
  but for its expiry.  For amounts, `EncodingRoundsDown` says that an encoding exists, is at most the
  number, and is the number if and only if some mantissa and exponent yield it.

`MerkleTreesProofs` proves, for every depth of the tree, every set of items and
leaves, and any number of writes, deletes and reads of the root in any order:

* `StoredHashesSafe`: `Spec => []StoredHashesExact`.  The invariant is inductive: an
  insert stores the hashes of a path (`PathHash`, by induction from the leaf
  upwards), each from the hash next to it, which was exact and is not above the
  leaf, so it still is.
* `PathsSafe`: `Spec => []PathsOpenRoot`, from that and `PathOpens`.
* `ParallelTree`: `Spec => []ParInv`, the invariant of the parallel tree.  Its nodes
  are a compressed tree (`TreeOfNodes`: no two nodes for one index, a link leads
  below its side, and whatever node is below a side is below the child on it);
  its leaves are those of the written items; the hashes in the cache are for
  indices above some leaf, exact, and *for all of a link or for none of it*
  (`WholeLinks`).  The last is what `wipe_cache` relies on: it looks only for the
  hash of the lower end and leaves the link alone if that is missing.  Without it
  an insert that splits a link could leave a stale hash in its upper part.
  `WalkEnds` says where the loop ends and that it forgets exactly the cached hashes
  above the new leaf (by induction over depths, as each link leads deeper);
  `InsertedTree`, `InsertedLeaves` and `InsertedWhole` that the new nodes are such a
  tree again, at a free link, at a leaf, and where a link is split.
* `CacheSafe`, `RootsSafe`: `Spec => []CacheExact` and `Spec => []RootsEqual`.
  `ComputedIsSound` follows `root_hash`: by induction from the leaves, each
  `get_hash` returns the hash of its node and updates that are exact and cover
  whole links, taking hashes from the cache where it finds them; along a link
  the siblings are empty subtrees (`LineExact`).
* `TreesTypeSafe`: `Spec => []TypeOK`.

TLC evaluated `ParInv` on the instance of the run before it was proved.

`BitWindowProofs` is about any window of `NumberWindow` and about the circuit, for
every width, stride and field within `CircuitConstants`.  The inductive invariant
of both is the types and what the register stands for (`StandsFor`): its places are
those of the redeemed numbers from the start on, and no number beyond the window
was redeemed.

* Of any window: the register is exact (`RegisterIsExact`), no number is redeemed
  twice (`NumbersRedeemedOnce`), the window never moves back (`WindowMovesOn`).
* Of the circuit: `NewNumbersAccepted` (the property `AcceptsExactly`, for every
  assignment of bits), and with what synthesis assigns `RegisterTyped`,
  `ImplementsTheWindow` (the refinement `ImplementsWindow`), and from these
  `CircuitRedeemsOnce`.

What the constraints compute is followed in the numbers themselves.  `BitAdded` says
which bits a sum with a power of 2 has when that bit was 0, and `SumBelow` that it
stays a register.  The bits under the mask of k ones, packed again, are the remainder
of the division by 2^k (`PackedLow`, by induction over the bits); without it the
register is a multiple of 2^k, so each of the k multiplications by the inverse of 2
halves an even number below the order of the field (`HalvedExactly`), and what is
left is the register shifted by k places (`RegisterShifted`).  A distance from a
start that is larger wraps around to one the lookup refuses (`DistanceIs`).  The
order need not be prime: it must be odd and large enough for a register and for the
sum of a start and a distance.

Each has one step per action, and lemmas state what the ledger operators, the
tables and the requests preserve.  The invariants used in the proofs that are
not properties of a run are part of the proof module.  TLC evaluates the
assumptions in the runs of the same specification.

Sums and folds over sets are reasoned about by induction over the set, which
`LedgerLemmas` derives from the least element of a set of natural numbers: the
induction theorems of the library take an operator as a parameter, these take a
set.

Recursion along a path or a link is written as a function on a set of levels; that
such a function exists and what its values are is proved once for each, by the
same induction over numbers.

Only model-checked: liveness, which rests on fairness and `ENABLED`.

## 6. Not modelled

* The 32-bit columns of the database, the sum of fees in the circuit, the hash of
  the public data except for the key of a deposit, blocks of several requests in
  the circuits and provers.  Amounts too large for any encoding, for which the
  server panics in a handler.
* Decompositions into the bits of a number not below the order, in the transfer,
  deposit and exit circuits (leaves, paths, hashes, amounts): `Circuits` takes the
  bits synthesis computes.  For hashes the code relies on the hash function
  (`transfer/circuit.rs:587`), for the others on nothing.  `BitWindow` has all of them.
* Elliptic curves, hash functions, bellman; the interpolation of the lookup
  polynomials of the bit window.
* The formatting of what read-only handlers answer, the network status, the web
  client, the key generator: input and output without state.
* `op_config.next_nonce` and the table of Ethereum transactions (the sender of
  Ethereum transactions and the watcher of the contract are no longer part of the
  source), `active_provers`.

## 7. Plan

1. Blocks of several requests in `Circuits`, with the sum of fees.
2. `OpNonces`: the sequence `next_nonce` of operations under `execute_operation`.
