---------------------------- MODULE RollupChain ----------------------------
(***************************************************************************)
(* What the rest of the system relies on: the sequence of blocks is a      *)
(* serial history of the ledger.  It only grows, its numbers are           *)
(* consecutive, and the root of each block is what its own transactions,   *)
(* each valid when its turn comes, make of the root of the block before.   *)
(* A prover re-executes a block from exactly this information.             *)
(***************************************************************************)
EXTENDS PlasmaState, SequencesExt

CONSTANTS BatchSize, StartLedger, StartBlock

VARIABLE chain   \* the blocks, with their roots and account updates

Root(blocks) == IF blocks = <<>> THEN Leaves(StartLedger) ELSE Last(blocks).root

\* The leaves after the transfers of a block, and whether all were valid.
Replay(leaves, txs, number) ==
  FoldLeft(LAMBDA run, tx :
             [ok     |-> run.ok /\ TransferValid(run.leaves, tx, number),
              leaves |-> ApplyTransfer(run.leaves, tx)],
           [ok |-> TRUE, leaves |-> leaves], txs)

TransferBlockOn(leaves, block) ==
  /\ block.kind = "transfer"
  /\ Len(block.txs) = BatchSize
  /\ Replay(leaves, block.txs, block.number) = [ok |-> TRUE, leaves |-> block.root]

DepositBlockOn(leaves, block) ==
  /\ block.kind = "deposit"
  /\ Len(block.txs) = 1
  /\ block.root = ApplyDeposit(leaves, block.txs[1])

ExitBlockOn(leaves, block) ==
  /\ block.kind = "exit"
  /\ Len(block.txs) = 1
  /\ block.txs[1].amount = leaves[block.txs[1].account].balance
  /\ block.root = ApplyExit(leaves, block.txs[1].account)

BlockOn(leaves, block) ==
  /\ \/ TransferBlockOn(leaves, block)
     \/ DepositBlockOn(leaves, block)
     \/ ExitBlockOn(leaves, block)
  /\ block.root = Overwritten(leaves, block.updated)

Init == chain = <<>>

Extend ==
  /\ Len(chain') = Len(chain) + 1
  /\ IsPrefix(chain, chain')
  /\ Last(chain').number = StartBlock + Len(chain)
  /\ BlockOn(Root(chain), Last(chain'))

Spec == Init /\ [][Extend]_chain

=============================================================================
