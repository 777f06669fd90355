------------------------------- MODULE Server -------------------------------
(***************************************************************************)
(* The server process (server/src/main.rs): the state keeper, the channel  *)
(* tx_for_ops, and the committer (server/src/committer.rs), which writes   *)
(* blocks and verifications to the database.  The process may stop at any  *)
(* point and lose all that is not in the database; a database error makes  *)
(* the committer panic, and then the state keeper at its next block.       *)
(*                                                                         *)
(* The state keeper is reduced to what KeeperChain shows of it: it makes   *)
(* one block after another from the state before, each of one transaction. *)
(***************************************************************************)
EXTENDS Storage

CONSTANTS
  Transfers, Deposits, Exits,  \* what blocks are made from
  MaxBlock,                    \* bound on the numbers of blocks
  MaxStops                     \* bound on stops of the server and of its threads

ASSUME ServerConstants ==
  /\ Transfers \subseteq TransferTx
  /\ Deposits \subseteq DepositTx
  /\ Exits \subseteq AccountId

VARIABLES
  memory,        \* the keeper's balance tree
  nextBlock,     \* the keeper's block_number
  channel,       \* tx_for_ops
  lastVerified,  \* the committer's last_verified_block
  keeper,        \* "running" or "stopped"
  committer,     \* "receiving", "checking" (the loop over new proofs), "stopped"
  stops          \* how often the server or one of its threads stopped

\* The blocks the keeper makes.
Blocks ==
  [number : Nat, kind : {"transfer", "deposit", "exit"},
   txs : Seq(TransferTx \cup DepositTx \cup [account : AccountId, amount : Nat]),
   root : LeafMaps, updated : Ledgers]

serverVars == <<memory, nextBlock, channel, lastVerified, keeper, committer, stops>>

\* PlasmaStateKeeper::new and the start of run_committer.
\* Slip: the keeper resumes from the verified state.
SlipResumeVerified == LoadVerifiedState

Resumed == LoadCommittedState

ServerInit ==
  /\ memory = Resumed.ledger
  /\ nextBlock = Resumed.block + 1
  /\ channel = <<>>
  /\ lastVerified = LastVerified
  /\ keeper = "running"
  /\ committer = "receiving"
  /\ stops = 0

----------------------------------------------------------------------------

\* The keeper makes a block and hands it over.  When the committer is gone
\* the send fails and the keeper panics.
SendBlock(kind, txs, newLedger, touched) ==
  /\ keeper = "running"
  /\ nextBlock <= MaxBlock
  /\ memory' = newLedger
  /\ nextBlock' = nextBlock + 1
  /\ IF committer = "stopped"
     THEN keeper' = "stopped" /\ UNCHANGED channel
     ELSE /\ channel' = Append(channel, CommittedBlock(nextBlock, kind, txs, newLedger, touched))
          /\ UNCHANGED keeper
  /\ UNCHANGED <<lastVerified, committer, stops>>
  /\ UNCHANGED tables

MakeTransferBlock(tx) ==
  /\ TransferValid(memory, tx, nextBlock)
  /\ SendBlock("transfer", <<tx>>, ApplyTransfer(memory, tx), {tx.from, tx.to})

MakeDepositBlock(tx) ==
  SendBlock("deposit", <<tx>>, ApplyDeposit(memory, tx), {tx.account})

MakeExitBlock(id) ==
  /\ ExitValid(memory, id)
  /\ SendBlock("exit", <<[account |-> id, amount |-> memory[id].balance]>>,
               ApplyExit(memory, id), {id})

\* The committer receives a block and writes it to the database.
CommitBlock ==
  /\ committer = "receiving"
  /\ channel # <<>>
  /\ CommitOperation(Head(channel))
  /\ channel' = Tail(channel)
  /\ UNCHANGED <<memory, nextBlock, lastVerified, keeper, committer, stops>>

\* For 100 ms no block arrived: the committer looks for proofs.
ReceiveTimeout ==
  /\ committer = "receiving"
  /\ channel = <<>>
  /\ committer' = "checking"
  /\ UNCHANGED <<memory, nextBlock, channel, lastVerified, keeper, stops>>
  /\ UNCHANGED tables

\* The proof of the next block is there: the block is verified.
\* Slip: any block with a proof is taken next.
SlipAnyProof == {n \in ProvenNumbers : n > lastVerified}

ToVerify == {lastVerified + 1} \cap ProvenNumbers

VerifyBlock ==
  /\ committer = "checking"
  /\ \E number \in ToVerify :
       /\ IsCommitted(number)
       /\ VerifyOperation(number)
       /\ lastVerified' = number
  /\ UNCHANGED <<memory, nextBlock, channel, keeper, committer, stops>>

NoMoreProofs ==
  /\ committer = "checking"
  /\ ToVerify = {}
  /\ committer' = "receiving"
  /\ UNCHANGED <<memory, nextBlock, channel, lastVerified, keeper, stops>>
  /\ UNCHANGED tables

\* execute_operation fails or finds no block: the transaction is rolled back
\* and the committer panics; what was and will be in the channel is lost.
CommitterPanics ==
  /\ stops < MaxStops
  /\ \/ committer = "receiving" /\ channel # <<>>
     \/ committer = "checking" /\ ToVerify # {}
  /\ committer' = "stopped"
  /\ channel' = <<>>
  /\ stops' = stops + 1
  /\ UNCHANGED <<memory, nextBlock, lastVerified, keeper>>
  /\ UNCHANGED tables

----------------------------------------------------------------------------

\* The process is killed or terminated, at any point, and started again.
Restart ==
  /\ \/ stops < MaxStops
     \/ committer = "stopped"
  /\ memory' = Resumed.ledger
  /\ nextBlock' = Resumed.block + 1
  /\ channel' = <<>>
  /\ lastVerified' = LastVerified
  /\ keeper' = "running"
  /\ committer' = "receiving"
  /\ stops' = IF stops < MaxStops THEN stops + 1 ELSE stops
  /\ UNCHANGED tables

Committer == CommitBlock \/ ReceiveTimeout \/ VerifyBlock \/ NoMoreProofs

ServerNext ==
  \/ \E tx \in Transfers : MakeTransferBlock(tx)
  \/ \E tx \in Deposits : MakeDepositBlock(tx)
  \/ \E id \in Exits : MakeExitBlock(id)
  \/ Committer
  \/ CommitterPanics
  \/ Restart

=============================================================================
