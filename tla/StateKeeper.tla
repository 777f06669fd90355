---------------------------- MODULE StateKeeper ----------------------------
(***************************************************************************)
(* The state keeper thread (server/src/state_keeper.rs): it applies        *)
(* transfers to the ledger at once, gathers them into batches, orders      *)
(* deposit and exit blocks behind the open batch, pads a batch whose       *)
(* deadline has passed, and sends every finished block to the committer.   *)
(*                                                                         *)
(* The thread serves one request at a time, so a request is chosen from    *)
(* the set of possible requests and its handler is one action, except for  *)
(* the loop of process_block_queue, which is one step per block: the       *)
(* committer sees the blocks one after another and the process can stop    *)
(* between two of them.  No request is served while the loop runs.         *)
(***************************************************************************)
EXTENDS PlasmaState, Sequences

CONSTANTS
  BatchSize,      \* transfer_batch_size: transfers in a transfer block
  Interval,       \* PADDING_INTERVAL, in ticks of the clock
  PaddingId,      \* the account padding transfers are sent from
  PaddingKey,     \* the public key of the hard-coded padding private key
  FarBlock,       \* the expiry 2147483647 of padding transfers
  StartLedger,    \* load_committed_state: the accounts ...
  StartBlock,     \* ... and last_committed + 1
  Transfers,      \* the transfers the API may submit
  Deposits,       \* the deposits the API may submit
  Exits,          \* the accounts whose exit the API may request
  NoDeadline      \* next_block_at_max = None

ASSUME KeeperConstants ==
  /\ BatchSize \in Nat \ {0}
  /\ Interval \in Nat
  /\ PaddingId \in AccountId \ {ExitId}
  /\ PaddingKey \in Key
  /\ FarBlock \in Nat
  /\ StartLedger \in Ledgers
  /\ StartBlock \in Nat
  /\ Transfers \subseteq TransferTx
  /\ \A tx \in Transfers : tx.from # tx.to /\ tx.amount # 0  \* TransferTx::validate
  /\ Deposits \subseteq DepositTx
  /\ Exits \subseteq AccountId
  /\ NoDeadline \notin Nat

VARIABLES
  ledger,         \* state.balance_tree
  blockNumber,    \* state.block_number, the number of the next block
  blockQueue,     \* block_queue: blocks that wait behind the open batch
  draining,       \* the blocks process_block_queue still has to make
  transferQueue,  \* transfer_tx_queue: the open batch
  timeLeft,       \* next_block_at_max: ticks until it, or NoDeadline
  commits,        \* all that was sent to the committer, in order
  confirmed,      \* the confirmations sent to clients
  status          \* what the thread is doing, or how it panicked

vars == <<ledger, blockNumber, blockQueue, draining, transferQueue, timeLeft,
          commits, confirmed, status>>

----------------------------------------------------------------------------
\* Requests and what they become

TransferProto == [kind |-> "transfer"]
DepositProto(tx) == [kind |-> "deposit", tx |-> tx]
ExitProto(id) == [kind |-> "exit", account |-> id]

\* AddBlock carries a deposit or an exit of one account: the API makes no
\* larger ones.  Transfer blocks come from the keeper itself.
Requested == {DepositProto(tx) : tx \in Deposits} \cup {ExitProto(id) : id \in Exits}

ProtoBlock == Requested \cup {TransferProto}

Status == {"idle", "draining", "finalizing",
           "padding panic", "exit panic", "index panic"}

Panicked == status \in {"padding panic", "exit panic", "index panic"}

----------------------------------------------------------------------------
\* Padding

PaddingTx(nonce) ==
  [from |-> PaddingId, to |-> ExitId, amount |-> 0, fee |-> 0, nonce |-> nonce,
   goodUntil |-> FarBlock, signer |-> PaddingKey]

\* Every padding transfer of a batch applies if the first one does: they take
\* consecutive nonces from the account's own and move no funds.
CanPad == TransferValid(ledger, PaddingTx(Leaf(ledger, PaddingId).nonce), blockNumber)

ToPad == BatchSize - Len(transferQueue)

Padding ==
  [i \in 1 .. ToPad |-> PaddingTx(Leaf(ledger, PaddingId).nonce + i - 1)]

\* Slip: the padding transfers are queued but use up no nonces.
SlipPaddingKeepsNonce == [ledger EXCEPT ![ExitId] = Leaf(ledger, ExitId)]

PaddedLedger ==
  [ledger EXCEPT ![ExitId] = Leaf(ledger, ExitId),
                 ![PaddingId] = [ledger[PaddingId] EXCEPT !.nonce = @ + ToPad]]

----------------------------------------------------------------------------
\* Blocks

\* Slip: the receivers are left out of accounts_updated.
SlipTouchSenders(txs) == {txs[i].from : i \in DOMAIN txs}

Touched(txs) == {txs[i].from : i \in DOMAIN txs} \cup {txs[i].to : i \in DOMAIN txs}

CommitRequest(kind, txs, newLedger, touched) ==
  CommittedBlock(blockNumber, kind, txs, newLedger, touched)

Send(request) ==
  /\ commits' = Append(commits, request)
  /\ blockNumber' = blockNumber + 1
  /\ draining' = Tail(draining)

----------------------------------------------------------------------------
\* Queue and deadline

\* A block of deposits or exits has to wait while transfers are collected.
\* Slip: it always waits.
SlipAlwaysWait == TRUE

BatchOpen == transferQueue # <<>>

\* The first transfer of a batch sets the deadline.
\* Slip: the deadline is never set.
SlipUnarmed == timeLeft

Armed == IF timeLeft = NoDeadline THEN Interval ELSE timeLeft

\* The blocks to make when the batch is closed: the batch goes first.
\* Slips: the batch goes last; the waiting blocks are forgotten.
SlipBatchLast == Append(blockQueue, TransferProto)
SlipForgetWaiting == <<TransferProto>>

BatchFirst == <<TransferProto>> \o blockQueue

\* finalize_current_batch clears the deadline once the blocks are made.
\* Slip: it does not.
SlipKeepDeadline == timeLeft

DeadlineAfterDraining == IF status = "finalizing" THEN NoDeadline ELSE timeLeft

----------------------------------------------------------------------------

Init ==
  /\ ledger = StartLedger
  /\ blockNumber = StartBlock
  /\ blockQueue = <<>>
  /\ draining = <<>>
  /\ transferQueue = <<>>
  /\ timeLeft = NoDeadline
  /\ commits = <<>>
  /\ confirmed = {}
  /\ status = "idle"

\* AddTransferTx of a transfer the ledger refuses: an error reply, no more.
RejectTransfer(tx) ==
  /\ status = "idle"
  /\ ~TransferValid(ledger, tx, blockNumber)
  /\ UNCHANGED vars

\* AddTransferTx of a valid transfer: it is applied, queued and confirmed for
\* the block under construction; the first of a batch sets the deadline and
\* the last one closes the batch, which needs no padding.
AcceptTransfer(tx) ==
  /\ status = "idle"
  /\ TransferValid(ledger, tx, blockNumber)
  /\ InTree(tx.to)
  /\ ledger' = ApplyTransfer(ledger, tx)
  /\ transferQueue' = Append(transferQueue, tx)
  /\ timeLeft' = Armed
  /\ confirmed' = confirmed \cup {[tx |-> tx, block |-> blockNumber]}
  /\ IF Len(transferQueue') = BatchSize
     THEN /\ draining' = BatchFirst
          /\ blockQueue' = <<>>
          /\ status' = "finalizing"
     ELSE UNCHANGED <<draining, blockQueue, status>>
  /\ UNCHANGED <<blockNumber, commits>>

\* AddTransferTx of a transfer to an id beyond the tree: the tree's assertion
\* fails before anything is written or replied.
TransferOutsideTree(tx) ==
  /\ status = "idle"
  /\ TransferValid(ledger, tx, blockNumber)
  /\ ~InTree(tx.to)
  /\ status' = "index panic"
  /\ UNCHANGED <<ledger, blockNumber, blockQueue, draining, transferQueue,
                 timeLeft, commits, confirmed>>

\* AddBlock: the block waits for the open batch, or is made at once.
AddBlock(proto) ==
  /\ status = "idle"
  /\ IF BatchOpen
     THEN /\ blockQueue' = Append(blockQueue, proto)
          /\ UNCHANGED <<draining, status>>
     ELSE /\ draining' = Append(blockQueue, proto)
          /\ blockQueue' = <<>>
          /\ status' = "draining"
  /\ UNCHANGED <<ledger, blockNumber, transferQueue, timeLeft, commits, confirmed>>

\* TimerTick after the deadline: the batch is padded and becomes the first
\* block to be made.
FinalizeBatch ==
  /\ status = "idle"
  /\ timeLeft = 0
  /\ CanPad
  /\ transferQueue' = transferQueue \o Padding
  /\ ledger' = PaddedLedger
  /\ draining' = BatchFirst
  /\ blockQueue' = <<>>
  /\ status' = "finalizing"
  /\ UNCHANGED <<blockNumber, timeLeft, commits, confirmed>>

\* TimerTick after the deadline when the padding account cannot sign: the
\* signature check or the expect on apply_transfer panics.
FailPadding ==
  /\ status = "idle"
  /\ timeLeft = 0
  /\ ~CanPad
  /\ status' = "padding panic"
  /\ UNCHANGED <<ledger, blockNumber, blockQueue, draining, transferQueue,
                 timeLeft, commits, confirmed>>

\* One turn of the loop of process_block_queue per kind of block.
Draining(kind) ==
  /\ status \in {"draining", "finalizing"}
  /\ draining # <<>>
  /\ Head(draining).kind = kind

CreateTransferBlock ==
  /\ Draining("transfer")
  /\ Send(CommitRequest("transfer", transferQueue, ledger, Touched(transferQueue)))
  /\ transferQueue' = <<>>
  /\ UNCHANGED <<ledger, blockQueue, timeLeft, confirmed, status>>

CreateDepositBlock ==
  /\ Draining("deposit")
  /\ LET tx == Head(draining).tx IN
     IF InTree(tx.account)
     THEN /\ ledger' = ApplyDeposit(ledger, tx)
          /\ Send(CommitRequest("deposit", <<tx>>, ledger', {tx.account}))
          /\ UNCHANGED status
     ELSE /\ status' = "index panic"
          /\ UNCHANGED <<ledger, commits, blockNumber, draining>>
  /\ UNCHANGED <<blockQueue, transferQueue, timeLeft, confirmed>>

CreateExitBlock ==
  /\ Draining("exit")
  /\ LET id == Head(draining).account IN
     IF ExitValid(ledger, id)
     THEN /\ ledger' = ApplyExit(ledger, id)
          /\ Send(CommitRequest("exit",
                    <<[account |-> id, amount |-> ledger[id].balance]>>, ledger', {id}))
          /\ UNCHANGED status
     ELSE /\ status' = "exit panic"
          /\ UNCHANGED <<ledger, commits, blockNumber, draining>>
  /\ UNCHANGED <<blockQueue, transferQueue, timeLeft, confirmed>>

\* The loop ends; finalize_current_batch then clears the deadline.
EndDraining ==
  /\ status \in {"draining", "finalizing"}
  /\ draining = <<>>
  /\ timeLeft' = DeadlineAfterDraining
  /\ status' = "idle"
  /\ UNCHANGED <<ledger, blockNumber, blockQueue, draining, transferQueue,
                 commits, confirmed>>

\* Time passes, whatever the thread does.
PassTime ==
  /\ timeLeft \notin {NoDeadline, 0}
  /\ timeLeft' = timeLeft - 1
  /\ UNCHANGED <<ledger, blockNumber, blockQueue, draining, transferQueue,
                 commits, confirmed, status>>

Request ==
  \/ \E tx \in Transfers :
       RejectTransfer(tx) \/ AcceptTransfer(tx) \/ TransferOutsideTree(tx)
  \/ \E proto \in Requested : AddBlock(proto)

TimerTick == FinalizeBatch \/ FailPadding

ProcessBlockQueue ==
  \/ CreateTransferBlock
  \/ CreateDepositBlock
  \/ CreateExitBlock
  \/ EndDraining

Next == Request \/ TimerTick \/ ProcessBlockQueue \/ PassTime

Spec == Init /\ [][Next]_vars

\* The timer thread ticks for ever, the thread works off its loop, time passes.
Fairness == WF_vars(TimerTick) /\ WF_vars(ProcessBlockQueue) /\ WF_vars(PassTime)

----------------------------------------------------------------------------
(***************************************************************************)
(* Properties                                                              *)
(***************************************************************************)

LoggedTx == TransferTx \cup DepositTx \cup [account : AccountId, amount : Nat]

CommitRequests ==
  [number : Nat, kind : {"transfer", "deposit", "exit"}, txs : Seq(LoggedTx),
   root : LeafMaps, updated : Ledgers]

\* Every variable of the keeper holds a value of its type.
TypeOK ==
  /\ ledger \in Ledgers
  /\ blockNumber \in Nat
  /\ blockQueue \in Seq(Requested)
  /\ draining \in Seq(ProtoBlock)
  /\ transferQueue \in Seq(TransferTx)
  /\ timeLeft \in Nat \cup {NoDeadline}
  /\ commits \in Seq(CommitRequests)
  /\ confirmed \subseteq [tx : TransferTx, block : Nat]
  /\ status \in Status

\* Between two requests the open batch is never full, so that the padding
\* count BatchSize - len cannot underflow; a deadline is promised exactly
\* while a batch is open; and a deposit or exit block waits only for an open
\* batch, whose deadline will release it.
BatchDiscipline ==
  status = "idle" =>
    /\ Len(transferQueue) < BatchSize
    /\ timeLeft # NoDeadline <=> transferQueue # <<>>
    /\ blockQueue # <<>> => transferQueue # <<>>

\* The inductive form: what holds while the loop of process_block_queue runs.
\* The batch, full by then, is the first block of a finalization, so nothing
\* is applied between its transfers and its block; the other blocks of a loop
\* are deposits and exits, and none waits.
DrainInv ==
  /\ Len(transferQueue) <= BatchSize
  /\ status = "draining" =>
       /\ transferQueue = <<>>
       /\ timeLeft = NoDeadline
       /\ blockQueue = <<>>
       /\ draining \in Seq(Requested)
  /\ status = "finalizing" =>
       /\ blockQueue = <<>>
       /\ transferQueue = <<>> => draining \in Seq(Requested)
       /\ transferQueue # <<>> => /\ Len(transferQueue) = BatchSize
                                 /\ draining # <<>>
                                 /\ Head(draining) = TransferProto
                                 /\ Tail(draining) \in Seq(Requested)

InBlock(c, request) ==
  /\ request.kind = "transfer"
  /\ request.number = c.block
  /\ \E i \in DOMAIN request.txs : request.txs[i] = c.tx

\* A client that was told block n finds its transfer in block n: it is in the
\* block of that number sent to the committer, or still in the open batch
\* while n is the next number, whatever deposits and exits arrived since.
ConfirmationKept ==
  \A c \in confirmed :
    \/ c.block = blockNumber /\ \E i \in DOMAIN transferQueue : transferQueue[i] = c.tx
    \/ \E i \in DOMAIN commits : InBlock(c, commits[i])

RootBefore(i) == IF i = 1 THEN Leaves(StartLedger) ELSE commits[i - 1].root

\* The accounts_updated of a block, which is all the database learns of the
\* new state, turn the state of the block before into exactly the state
\* whose root the block carries.
UpdatesYieldRoot ==
  \A i \in DOMAIN commits :
    commits[i].root = Overwritten(RootBefore(i), commits[i].updated)

\* The expect of apply_padding, "padding must always be applied correctly".
PaddingAlwaysApplies == status # "padding panic"

\* An open batch is closed in the end, whether or not further requests arrive,
\* unless the thread panics: with ConfirmationKept, every confirmed transfer
\* reaches the committer in the promised block.
BatchIsClosed == transferQueue # <<>> ~> transferQueue = <<>> \/ Panicked

\* A deposit or exit block that waits behind an open batch is made in the end.
WaitingBlocksAreMade ==
  blockQueue # <<>> ~> (blockQueue = <<>> /\ draining = <<>>) \/ Panicked

=============================================================================
