------------------------- MODULE StateKeeperProofs -------------------------
(***************************************************************************)
(* Proofs about the state keeper, for every batch size, set of accounts    *)
(* and set of requests.                                                    *)
(***************************************************************************)
EXTENDS KeeperChain, LedgerLemmas, SequenceTheorems

----------------------------------------------------------------------------
\* Types

LEMMA CommitRequestType ==
  ASSUME NEW kind \in {"transfer", "deposit", "exit"}, NEW txs \in Seq(LoggedTx),
         NEW l \in Ledgers, NEW touched, blockNumber \in Nat
  PROVE  CommitRequest(kind, txs, l, touched) \in CommitRequests
<1>1. Leaves(l) \in LeafMaps
  BY LeavesType
<1>2. [id \in AccountId |-> IF id \in touched THEN Leaf(l, id) ELSE Absent] \in Ledgers
  BY LeafType DEF Ledgers
<1> QED
  BY <1>1, <1>2 DEF CommitRequest, CommittedBlock, CommitRequests

LEMMA SendType ==
  ASSUME NEW r \in CommitRequests, TypeOK, draining # <<>>, Send(r)
  PROVE  /\ commits' \in Seq(CommitRequests)
         /\ blockNumber' \in Nat
         /\ draining' \in Seq(ProtoBlock)
BY AppendProperties, HeadTailProperties DEF Send, TypeOK

LEMMA PaddingType ==
  ASSUME TypeOK, Len(transferQueue) <= BatchSize
  PROVE  /\ ToPad \in Nat
         /\ Padding \in Seq(TransferTx)
         /\ Len(Padding) = ToPad
<1>1. ToPad \in Nat
  BY KeeperConstants DEF ToPad, TypeOK
<1>2. Leaf(ledger, PaddingId).nonce \in Nat
  BY KeeperConstants, LeafType DEF TypeOK, Account
<1>3. \A n \in Nat : PaddingTx(n) \in TransferTx
  BY KeeperConstants, LedgerConstants DEF PaddingTx, TransferTx
<1>4. \A i \in 1 .. ToPad : Leaf(ledger, PaddingId).nonce + i - 1 \in Nat
  BY <1>1, <1>2
<1>5. \A i \in 1 .. ToPad : PaddingTx(Leaf(ledger, PaddingId).nonce + i - 1) \in TransferTx
  BY <1>3, <1>4
<1> QED
  BY <1>1, <1>5 DEF Padding

LEMMA PaddedLedgerType ==
  ASSUME TypeOK, Len(transferQueue) <= BatchSize, CanPad
  PROVE  PaddedLedger \in Ledgers
<1>1. ToPad \in Nat
  BY PaddingType
<1>2. ledger[PaddingId] # Absent
  BY DEF CanPad, TransferValid, PaddingTx
<1>3. ledger[PaddingId] \in Account
  BY <1>2, KeeperConstants DEF TypeOK, Ledgers
<1>4. [ledger[PaddingId] EXCEPT !.nonce = @ + ToPad] \in Account
  BY <1>1, <1>3 DEF Account
<1>5. Leaf(ledger, ExitId) \in Account
  BY LedgerConstants, LeafType DEF TypeOK
<1> QED
  BY <1>4, <1>5, KeeperConstants, LedgerConstants DEF PaddedLedger, Ledgers, TypeOK

LEMMA RequestedAreProto == Requested \subseteq ProtoBlock /\ TransferProto \in ProtoBlock
BY DEF ProtoBlock

LEMMA BatchFirstType ==
  ASSUME blockQueue \in Seq(Requested)
  PROVE  /\ BatchFirst \in Seq(ProtoBlock)
         /\ BatchFirst # <<>>
         /\ Head(BatchFirst) = TransferProto
         /\ Tail(BatchFirst) \in Seq(Requested)
<1>1. blockQueue \in Seq(ProtoBlock)
  BY RequestedAreProto, SeqMonotonic
<1>2. <<TransferProto>> \in Seq(ProtoBlock)
  BY RequestedAreProto
<1>3. /\ BatchFirst \in Seq(ProtoBlock)
      /\ Len(BatchFirst) = 1 + Len(blockQueue)
      /\ \A i \in 1 .. 1 + Len(blockQueue) :
           BatchFirst[i] = IF i <= 1 THEN TransferProto ELSE blockQueue[i - 1]
  BY <1>1, <1>2, ConcatProperties DEF BatchFirst
<1>4. Len(blockQueue) \in Nat
  BY <1>1, LenProperties
<1>5. BatchFirst # <<>>
  BY <1>3, <1>4
<1>6. Head(BatchFirst) = TransferProto
  BY <1>3, <1>4, <1>5
<1>7. /\ Tail(BatchFirst) \in Seq(ProtoBlock)
      /\ Len(Tail(BatchFirst)) = Len(blockQueue)
      /\ \A i \in 1 .. Len(blockQueue) : Tail(BatchFirst)[i] = blockQueue[i]
  BY <1>3, <1>4, <1>5, HeadTailProperties
<1>8. Tail(BatchFirst) = blockQueue
  BY <1>1, <1>7, SeqEqual
<1> QED
  BY <1>3, <1>5, <1>6, <1>8

----------------------------------------------------------------------------
\* The inductive invariant: one lemma per action

KeeperInv == TypeOK /\ DrainInv /\ BatchDiscipline

LEMMA EmptySeqType == \A S : <<>> \in Seq(S)
BY EmptySeq

LEMMA KeeperInvInit == Init => KeeperInv
<1> SUFFICES ASSUME Init PROVE KeeperInv
  OBVIOUS
<1>1. Len(transferQueue) = 0
  BY EmptySeq DEF Init
<1>2. TypeOK
  BY EmptySeqType, KeeperConstants DEF Init, TypeOK, Status
<1>3. DrainInv /\ BatchDiscipline
  BY <1>1, KeeperConstants DEF Init, DrainInv, BatchDiscipline
<1> QED
  BY <1>2, <1>3 DEF KeeperInv

LEMMA KeeperInvAccept ==
  ASSUME KeeperInv, NEW tx \in Transfers, AcceptTransfer(tx)
  PROVE  KeeperInv'
<1> USE DEF KeeperInv
<1>1. tx \in TransferTx
  BY KeeperConstants
<1>2. ledger' \in Ledgers
  BY <1>1, ApplyTransferType DEF AcceptTransfer, TypeOK
<1>3. transferQueue' \in Seq(TransferTx) /\ Len(transferQueue') = Len(transferQueue) + 1
      /\ transferQueue' # <<>>
  <2>1. transferQueue \in Seq(TransferTx) /\ transferQueue' = Append(transferQueue, tx)
    BY DEF AcceptTransfer, TypeOK
  <2> QED
    BY <1>1, <2>1, AppendProperties
<1>4. timeLeft' \in Nat
  BY KeeperConstants DEF AcceptTransfer, Armed, TypeOK
<1>5. confirmed' \subseteq [tx : TransferTx, block : Nat]
  BY <1>1 DEF AcceptTransfer, TypeOK
<1>6. blockQueue \in Seq(Requested) /\ Len(transferQueue) \in Nat /\ Len(transferQueue) < BatchSize
  BY LenProperties DEF AcceptTransfer, TypeOK, BatchDiscipline
<1>7. CASE Len(transferQueue') = BatchSize
  <2>1. draining' = BatchFirst /\ blockQueue' = <<>> /\ status' = "finalizing"
    BY <1>7 DEF AcceptTransfer
  <2>2. TypeOK'
    BY <1>2, <1>3, <1>4, <1>5, <1>6, <2>1, BatchFirstType, EmptySeqType
    DEF AcceptTransfer, TypeOK, Status
  <2>3. DrainInv'
    BY <1>3, <1>6, <1>7, <2>1, BatchFirstType, KeeperConstants DEF DrainInv
  <2>4. BatchDiscipline'
    BY <2>1 DEF BatchDiscipline
  <2> QED
    BY <2>2, <2>3, <2>4
<1>8. CASE Len(transferQueue') # BatchSize
  <2>1. UNCHANGED <<draining, blockQueue, status>> /\ status = "idle"
    BY <1>8 DEF AcceptTransfer
  <2>2. TypeOK'
    BY <1>2, <1>3, <1>4, <1>5, <2>1 DEF AcceptTransfer, TypeOK
  <2>3. Len(transferQueue') < BatchSize
    BY <1>3, <1>6, <1>8, KeeperConstants
  <2>4. DrainInv' /\ BatchDiscipline'
    BY <1>3, <1>4, <2>1, <2>3, KeeperConstants DEF DrainInv, BatchDiscipline
  <2> QED
    BY <2>2, <2>4
<1> QED
  BY <1>7, <1>8

LEMMA KeeperInvAddBlock ==
  ASSUME KeeperInv, NEW proto \in Requested, AddBlock(proto)
  PROVE  KeeperInv'
<1> USE DEF KeeperInv
<1>1. Append(blockQueue, proto) \in Seq(Requested) /\ Append(blockQueue, proto) # <<>>
  BY AppendProperties DEF TypeOK
<1>2. Append(blockQueue, proto) \in Seq(ProtoBlock)
  BY <1>1, RequestedAreProto, SeqMonotonic
<1>3. TypeOK'
  BY <1>1, <1>2, EmptySeqType DEF AddBlock, TypeOK, Status
<1>4. CASE BatchOpen
  BY <1>1, <1>3, <1>4 DEF AddBlock, BatchOpen, DrainInv, BatchDiscipline
<1>5. CASE ~BatchOpen
  BY <1>1, <1>3, <1>5 DEF AddBlock, BatchOpen, DrainInv, BatchDiscipline
<1> QED
  BY <1>3, <1>4, <1>5

LEMMA KeeperInvFinalize ==
  ASSUME KeeperInv, FinalizeBatch
  PROVE  KeeperInv'
<1> USE DEF KeeperInv
<1>1. Len(transferQueue) \in Nat /\ Len(transferQueue) < BatchSize
  BY LenProperties DEF FinalizeBatch, TypeOK, BatchDiscipline
<1>2. Len(transferQueue) <= BatchSize
  BY DEF DrainInv
<1>3. ToPad \in Nat /\ Padding \in Seq(TransferTx) /\ Len(Padding) = ToPad
  BY <1>2, PaddingType
<1>4. transferQueue' \in Seq(TransferTx) /\ Len(transferQueue') = Len(transferQueue) + ToPad
  BY <1>3, ConcatProperties DEF FinalizeBatch, TypeOK
<1>5. Len(transferQueue') = BatchSize
  BY <1>1, <1>3, <1>4, KeeperConstants DEF ToPad
<1>6. ledger' \in Ledgers
  BY <1>2, PaddedLedgerType DEF FinalizeBatch
<1>7. draining' = BatchFirst /\ blockQueue' = <<>> /\ status' = "finalizing"
  BY DEF FinalizeBatch
<1>8. blockQueue \in Seq(Requested)
  BY DEF TypeOK
<1>9. TypeOK'
  BY <1>4, <1>6, <1>7, <1>8, BatchFirstType, EmptySeqType DEF FinalizeBatch, TypeOK, Status
<1>10. transferQueue' # <<>>
  BY <1>5, KeeperConstants, EmptySeq
<1>11. DrainInv'
  BY <1>5, <1>7, <1>8, <1>10, BatchFirstType, KeeperConstants DEF DrainInv
<1> QED
  BY <1>7, <1>9, <1>11 DEF BatchDiscipline

LEMMA KeeperInvTransferBlock ==
  ASSUME KeeperInv, CreateTransferBlock
  PROVE  KeeperInv'
<1> USE DEF KeeperInv
<1>1. status \in {"draining", "finalizing"} /\ draining # <<>> /\ Head(draining).kind = "transfer"
  BY DEF CreateTransferBlock, Draining
<1>2. transferQueue \in Seq(LoggedTx)
  BY SeqMonotonic DEF TypeOK, LoggedTx
<1> DEFINE r == CommitRequest("transfer", transferQueue, ledger, Touched(transferQueue))
<1>3. r \in CommitRequests
  BY <1>2, CommitRequestType DEF TypeOK
<1>4. Send(r)
  BY DEF CreateTransferBlock
<1> HIDE DEF r
<1>5. TypeOK'
  BY <1>1, <1>3, <1>4, SendType, EmptySeqType DEF CreateTransferBlock, TypeOK
<1>6. draining' = Tail(draining) /\ transferQueue' = <<>> /\ status' = status
      /\ UNCHANGED <<blockQueue, timeLeft>>
  BY <1>4 DEF Send, CreateTransferBlock
<1>7. Tail(draining) \in Seq(Requested)
  <2>1. CASE draining \in Seq(Requested)
    BY <1>1, <2>1, HeadTailProperties
  <2>2. CASE draining \notin Seq(Requested)
    BY <1>1, <2>2 DEF DrainInv
  <2> QED
    BY <2>1, <2>2
<1>8. DrainInv' /\ BatchDiscipline'
  BY <1>1, <1>6, <1>7, KeeperConstants, EmptySeq DEF DrainInv, BatchDiscipline
<1> QED
  BY <1>5, <1>8

\* A deposit or exit is taken from the loop only when no transfer is pending.
LEMMA NoBatchBehindRequest ==
  ASSUME KeeperInv, NEW kind \in {"deposit", "exit"}, Draining(kind)
  PROVE  /\ transferQueue = <<>>
         /\ Head(draining) \in Requested
         /\ Tail(draining) \in Seq(Requested)
<1>1. transferQueue = <<>>
  BY DEF KeeperInv, DrainInv, Draining, TransferProto
<1>2. draining \in Seq(Requested) /\ draining # <<>>
  BY <1>1 DEF KeeperInv, DrainInv, Draining
<1> QED
  BY <1>1, <1>2, HeadTailProperties

LEMMA KeeperInvDepositBlock ==
  ASSUME KeeperInv, CreateDepositBlock
  PROVE  KeeperInv'
<1> USE DEF KeeperInv
<1> DEFINE tx == Head(draining).tx
           r == CommitRequest("deposit", <<tx>>, ledger', {tx.account})
<1>1. Draining("deposit") /\ Head(draining).kind = "deposit" /\ draining # <<>>
      /\ status \in {"draining", "finalizing"}
  BY DEF CreateDepositBlock, Draining
<1>2. transferQueue = <<>> /\ Tail(draining) \in Seq(Requested) /\ Head(draining) \in Requested
  BY <1>1, NoBatchBehindRequest
<1>3. tx \in DepositTx
  BY <1>1, <1>2, KeeperConstants DEF Requested, DepositProto, ExitProto
<1> HIDE DEF tx
<1>4. CASE InTree(tx.account)
  <2>1. ledger' = ApplyDeposit(ledger, tx) /\ Send(r)
        /\ UNCHANGED <<status, blockQueue, transferQueue, timeLeft, confirmed>>
    BY <1>4 DEF CreateDepositBlock, tx
  <2>2. ledger' \in Ledgers
    BY <1>3, <2>1, ApplyDepositType DEF TypeOK
  <2>3. <<tx>> \in Seq(LoggedTx)
    BY <1>3 DEF LoggedTx
  <2>4. r \in CommitRequests
    BY <2>2, <2>3, CommitRequestType DEF TypeOK
  <2> HIDE DEF r
  <2>5. TypeOK'
    BY <1>1, <2>1, <2>2, <2>4, SendType DEF TypeOK
  <2>6. draining' = Tail(draining)
    BY <2>1 DEF Send
  <2>7. DrainInv' /\ BatchDiscipline'
    BY <1>1, <1>2, <2>1, <2>6 DEF DrainInv, BatchDiscipline
  <2> QED
    BY <2>5, <2>7
<1>5. CASE ~InTree(tx.account)
  BY <1>5 DEF CreateDepositBlock, TypeOK, DrainInv, BatchDiscipline, Status, tx
<1> QED
  BY <1>4, <1>5

LEMMA KeeperInvExitBlock ==
  ASSUME KeeperInv, CreateExitBlock
  PROVE  KeeperInv'
<1> USE DEF KeeperInv
<1> DEFINE id == Head(draining).account
           exit == [account |-> id, amount |-> ledger[id].balance]
           r == CommitRequest("exit", <<exit>>, ledger', {id})
<1>1. Draining("exit") /\ Head(draining).kind = "exit" /\ draining # <<>>
      /\ status \in {"draining", "finalizing"}
  BY DEF CreateExitBlock, Draining
<1>2. transferQueue = <<>> /\ Tail(draining) \in Seq(Requested) /\ Head(draining) \in Requested
  BY <1>1, NoBatchBehindRequest
<1>3. id \in AccountId
  BY <1>1, <1>2, KeeperConstants DEF Requested, DepositProto, ExitProto
<1> HIDE DEF id
<1>4. CASE ExitValid(ledger, id)
  <2>1. ledger' = ApplyExit(ledger, id) /\ Send(r)
        /\ UNCHANGED <<status, blockQueue, transferQueue, timeLeft, confirmed>>
    BY <1>4 DEF CreateExitBlock, id
  <2>2. ledger' \in Ledgers
    BY <1>3, <2>1, ApplyExitType DEF TypeOK
  <2>3. ledger[id] \in Account
    BY <1>3, <1>4 DEF ExitValid, TypeOK, Ledgers
  <2>4. exit \in [account : AccountId, amount : Nat]
    BY <1>3, <2>3 DEF Account
  <2>5. <<exit>> \in Seq(LoggedTx)
    BY <2>4 DEF LoggedTx
  <2> HIDE DEF exit
  <2>6. r \in CommitRequests
    BY <2>2, <2>5, CommitRequestType DEF TypeOK
  <2> HIDE DEF r
  <2>7. TypeOK'
    BY <1>1, <2>1, <2>2, <2>6, SendType DEF TypeOK
  <2>8. draining' = Tail(draining)
    BY <2>1 DEF Send
  <2>9. DrainInv' /\ BatchDiscipline'
    BY <1>1, <1>2, <2>1, <2>8 DEF DrainInv, BatchDiscipline
  <2> QED
    BY <2>7, <2>9
<1>5. CASE ~ExitValid(ledger, id)
  BY <1>5 DEF CreateExitBlock, TypeOK, DrainInv, BatchDiscipline, Status, id
<1> QED
  BY <1>4, <1>5

LEMMA KeeperInvOther ==
  ASSUME KeeperInv,
         \/ \E tx \in Transfers : RejectTransfer(tx) \/ TransferOutsideTree(tx)
         \/ FailPadding \/ EndDraining \/ PassTime \/ UNCHANGED vars
  PROVE  KeeperInv'
<1> USE DEF KeeperInv
<1>1. CASE \E tx \in Transfers : TransferOutsideTree(tx)
  BY <1>1 DEF TransferOutsideTree, TypeOK, DrainInv, BatchDiscipline, Status
<1>2. CASE FailPadding
  BY <1>2 DEF FailPadding, TypeOK, DrainInv, BatchDiscipline, Status
<1>3. CASE EndDraining
  <2>1. transferQueue = <<>> /\ blockQueue = <<>> /\ timeLeft' = NoDeadline
    BY <1>3 DEF EndDraining, DrainInv, DeadlineAfterDraining
  <2>2. Len(transferQueue) = 0
    BY <2>1, EmptySeq
  <2>3. TypeOK'
    BY <1>3, <2>1 DEF EndDraining, TypeOK, Status
  <2>4. DrainInv' /\ BatchDiscipline'
    BY <1>3, <2>1, <2>2, KeeperConstants DEF EndDraining, DrainInv, BatchDiscipline
  <2> QED
    BY <2>3, <2>4
<1>4. CASE PassTime
  <2>1. timeLeft \in Nat /\ timeLeft' \in Nat
    BY <1>4 DEF PassTime, TypeOK
  <2>2. TypeOK'
    BY <1>4, <2>1 DEF PassTime, TypeOK
  <2>3. timeLeft # NoDeadline /\ timeLeft' # NoDeadline
    BY <2>1, KeeperConstants
  <2>4. DrainInv' /\ BatchDiscipline'
    BY <1>4, <2>3 DEF PassTime, DrainInv, BatchDiscipline
  <2> QED
    BY <2>2, <2>4
<1>5. CASE UNCHANGED vars
  BY <1>5 DEF vars, TypeOK, DrainInv, BatchDiscipline
<1>6. CASE \E tx \in Transfers : RejectTransfer(tx)
  BY <1>5, <1>6 DEF RejectTransfer
<1> QED
  BY <1>1, <1>2, <1>3, <1>4, <1>5, <1>6

LEMMA KeeperInvNext == KeeperInv /\ [Next]_vars => KeeperInv'
<1> SUFFICES ASSUME KeeperInv, [Next]_vars PROVE KeeperInv'
  OBVIOUS
<1>1. CASE \E tx \in Transfers : AcceptTransfer(tx)
  BY <1>1, KeeperInvAccept
<1>2. CASE \E proto \in Requested : AddBlock(proto)
  BY <1>2, KeeperInvAddBlock
<1>3. CASE FinalizeBatch
  BY <1>3, KeeperInvFinalize
<1>4. CASE CreateTransferBlock
  BY <1>4, KeeperInvTransferBlock
<1>5. CASE CreateDepositBlock
  BY <1>5, KeeperInvDepositBlock
<1>6. CASE CreateExitBlock
  BY <1>6, KeeperInvExitBlock
<1> QED
  BY <1>1, <1>2, <1>3, <1>4, <1>5, <1>6, KeeperInvOther
  DEF Next, Request, TimerTick, ProcessBlockQueue

LEMMA KeeperInvariant == Spec => []KeeperInv
BY KeeperInvInit, KeeperInvNext, PTL DEF Spec

\* The variables of the keeper keep their types, the padding count never
\* underflows and no balance goes below zero.
THEOREM TypeCorrect == Spec => []TypeOK
<1>1. KeeperInv => TypeOK
  BY DEF KeeperInv
<1> QED
  BY <1>1, KeeperInvariant, PTL

\* Between two requests the batch is short of full, a deadline is promised
\* exactly while it is open, and blocks wait only for an open batch.
THEOREM BatchDisciplined == Spec => []BatchDiscipline
<1>1. KeeperInv => BatchDiscipline
  BY DEF KeeperInv
<1> QED
  BY <1>1, KeeperInvariant, PTL

----------------------------------------------------------------------------
\* Confirmations are kept

\* A transfer of the open batch is in the block of the next number as long as
\* no other block takes that number: NoBatchBehindRequest.
LEMMA ConfirmationKeptNext ==
  KeeperInv /\ ConfirmationKept /\ [Next]_vars => ConfirmationKept'
<1> SUFFICES ASSUME KeeperInv, ConfirmationKept, [Next]_vars,
                    NEW c \in confirmed'
             PROVE  \/ /\ c.block = blockNumber'
                       /\ \E i \in DOMAIN transferQueue' : transferQueue'[i] = c.tx
                    \/ \E i \in DOMAIN commits' : InBlock(c, commits'[i])
  BY DEF ConfirmationKept
<1> DEFINE Kept == \/ /\ c.block = blockNumber'
                      /\ \E i \in DOMAIN transferQueue' : transferQueue'[i] = c.tx
                   \/ \E i \in DOMAIN commits' : InBlock(c, commits'[i])
<1>t. /\ transferQueue \in Seq(TransferTx) /\ commits \in Seq(CommitRequests)
      /\ draining \in Seq(ProtoBlock) /\ blockNumber \in Nat
      /\ DOMAIN transferQueue = 1 .. Len(transferQueue) /\ Len(transferQueue) \in Nat
      /\ DOMAIN commits = 1 .. Len(commits) /\ Len(commits) \in Nat
  BY LenProperties DEF KeeperInv, TypeOK
<1>s. ASSUME NEW r, commits' = Append(commits, r)
      PROVE  /\ \A i \in DOMAIN commits : i \in DOMAIN commits' /\ commits'[i] = commits[i]
             /\ Len(commits) + 1 \in DOMAIN commits' /\ commits'[Len(commits) + 1] = r
  BY <1>t, <1>s
<1>1. CASE UNCHANGED <<confirmed, blockNumber, transferQueue, commits>>
  BY <1>1 DEF ConfirmationKept
<1>2. CASE \E tx \in Transfers : AcceptTransfer(tx)
  <2> PICK tx \in Transfers : AcceptTransfer(tx)
    BY <1>2
  <2>1. transferQueue' = Append(transferQueue, tx) /\ UNCHANGED <<blockNumber, commits>>
        /\ confirmed' = confirmed \cup {[tx |-> tx, block |-> blockNumber]}
    BY DEF AcceptTransfer
  <2>2. /\ \A i \in DOMAIN transferQueue :
             i \in DOMAIN transferQueue' /\ transferQueue'[i] = transferQueue[i]
        /\ Len(transferQueue) + 1 \in DOMAIN transferQueue'
        /\ transferQueue'[Len(transferQueue) + 1] = tx
    BY <1>t, <2>1
  <2>3. CASE c \in confirmed
    BY <2>1, <2>2, <2>3 DEF ConfirmationKept
  <2>4. CASE c = [tx |-> tx, block |-> blockNumber]
    BY <2>1, <2>2, <2>4
  <2> QED
    BY <2>1, <2>3, <2>4
<1>3. CASE FinalizeBatch
  <2>1. Len(transferQueue) <= BatchSize
    BY DEF KeeperInv, DrainInv
  <2>2. Padding \in Seq(TransferTx)
    BY <2>1, PaddingType DEF KeeperInv
  <2>3. transferQueue' = transferQueue \o Padding
        /\ UNCHANGED <<blockNumber, commits, confirmed>>
    BY <1>3 DEF FinalizeBatch
  <2>4. \A i \in DOMAIN transferQueue :
           i \in DOMAIN transferQueue' /\ transferQueue'[i] = transferQueue[i]
    <3>1. /\ transferQueue' \in Seq(TransferTx)
          /\ Len(transferQueue') = Len(transferQueue) + Len(Padding)
          /\ \A i \in 1 .. Len(transferQueue) + Len(Padding) : transferQueue'[i] =
                IF i <= Len(transferQueue) THEN transferQueue[i]
                ELSE Padding[i - Len(transferQueue)]
      BY <1>t, <2>2, <2>3, ConcatProperties
    <3>2. Len(Padding) \in Nat /\ DOMAIN transferQueue' = 1 .. Len(transferQueue')
      BY <2>2, <3>1, LenProperties
    <3> QED
      BY <1>t, <3>1, <3>2
  <2> QED
    BY <2>3, <2>4 DEF ConfirmationKept
<1>4. CASE CreateTransferBlock
  <2> DEFINE r == CommitRequest("transfer", transferQueue, ledger, Touched(transferQueue))
  <2>1. commits' = Append(commits, r) /\ confirmed' = confirmed
    BY <1>4 DEF CreateTransferBlock, Send
  <2>2. r.kind = "transfer" /\ r.number = blockNumber /\ r.txs = transferQueue
    BY DEF CommitRequest, CommittedBlock
  <2> HIDE DEF r
  <2>3. CASE c.block = blockNumber /\ \E i \in DOMAIN transferQueue : transferQueue[i] = c.tx
    <3>1. InBlock(c, r)
      BY <2>2, <2>3 DEF InBlock
    <3> QED
      BY <1>s, <2>1, <3>1
  <2>4. CASE \E i \in DOMAIN commits : InBlock(c, commits[i])
    BY <1>s, <2>1, <2>4
  <2> QED
    BY <2>1, <2>3, <2>4 DEF ConfirmationKept
<1>5. ASSUME CreateDepositBlock \/ CreateExitBlock
      PROVE  Kept
  <2>1. transferQueue = <<>> /\ confirmed' = confirmed
    BY <1>5, NoBatchBehindRequest DEF CreateDepositBlock, CreateExitBlock
  <2>2. DOMAIN transferQueue = {}
    BY <1>t, <2>1, EmptySeq
  <2>3. \E i \in DOMAIN commits : InBlock(c, commits[i])
    BY <2>1, <2>2 DEF ConfirmationKept
  <2>4. commits' = commits \/ \E r : commits' = Append(commits, r)
    BY <1>5 DEF CreateDepositBlock, CreateExitBlock, Send
  <2> QED
    BY <1>s, <2>3, <2>4
<1> QED
  BY <1>1, <1>2, <1>3, <1>4, <1>5
  DEF Next, Request, TimerTick, ProcessBlockQueue, RejectTransfer, TransferOutsideTree,
      AddBlock, FailPadding, EndDraining, PassTime, vars

\* A client that was told block n finds its transfer in block n.
THEOREM ConfirmationsAreKept == Spec => []ConfirmationKept
<1>1. Init => ConfirmationKept
  BY DEF Init, ConfirmationKept
<1> QED
  BY <1>1, ConfirmationKeptNext, KeeperInvariant, PTL DEF Spec

----------------------------------------------------------------------------
\* The account updates of a block give its root

LastRoot == RootBefore(Len(commits) + 1)

\* Between two blocks the ledger differs from the last root only on accounts
\* that a transfer of the open batch mentions.
ChangesAreTouched ==
  \A id \in AccountId : Leaf(ledger, id) # LastRoot[id] => id \in Touched(transferQueue)

UpdatesInv == UpdatesYieldRoot /\ ChangesAreTouched

LEMMA TouchedAppend ==
  ASSUME NEW q \in Seq(TransferTx), NEW tx \in TransferTx
  PROVE  Touched(q) \cup {tx.from, tx.to} \subseteq Touched(Append(q, tx))
<1>1. /\ \A i \in DOMAIN q : i \in DOMAIN Append(q, tx) /\ Append(q, tx)[i] = q[i]
      /\ Len(q) + 1 \in DOMAIN Append(q, tx)
      /\ Append(q, tx)[Len(q) + 1] = tx
  BY LenProperties
<1> QED
  BY <1>1 DEF Touched

LEMMA TouchedConcat ==
  ASSUME NEW q \in Seq(TransferTx), NEW p \in Seq(TransferTx)
  PROVE  Touched(q) \cup Touched(p) \subseteq Touched(q \o p)
<1>1. /\ Len(q) \in Nat /\ DOMAIN q = 1 .. Len(q)
      /\ Len(p) \in Nat /\ DOMAIN p = 1 .. Len(p)
  BY LenProperties
<1>2. /\ q \o p \in Seq(TransferTx)
      /\ Len(q \o p) = Len(q) + Len(p)
      /\ \A i \in 1 .. Len(q) + Len(p) : (q \o p)[i] =
           IF i <= Len(q) THEN q[i] ELSE p[i - Len(q)]
  BY ConcatProperties
<1>3. DOMAIN (q \o p) = 1 .. Len(q) + Len(p)
  BY <1>2, LenProperties
<1>4. \A i \in DOMAIN q : i \in DOMAIN (q \o p) /\ (q \o p)[i] = q[i]
  BY <1>1, <1>2, <1>3
<1>5. \A i \in DOMAIN p : Len(q) + i \in DOMAIN (q \o p) /\ (q \o p)[Len(q) + i] = p[i]
  BY <1>1, <1>2, <1>3
<1>6. Touched(q) \subseteq Touched(q \o p)
  BY <1>4 DEF Touched
<1>7. Touched(p) \subseteq Touched(q \o p)
  BY <1>5, Zenon DEF Touched
<1> QED
  BY <1>6, <1>7

LEMMA TransferTouches ==
  ASSUME NEW l \in Ledgers, NEW tx \in TransferTx, NEW id \in AccountId,
         id \notin {tx.from, tx.to}
  PROVE  Leaf(ApplyTransfer(l, tx), id) = Leaf(l, id)
BY DEF ApplyTransfer, Leaf, Ledgers, TransferTx

\* A request sent for the committer whose updates cover the changes.
LEMMA SendUpdates ==
  ASSUME TypeOK, UpdatesYieldRoot, NEW kind, NEW txs, NEW l \in Ledgers, NEW touched,
         \A id \in AccountId : Leaf(l, id) # LastRoot[id] => id \in touched,
         commits' = Append(commits, CommitRequest(kind, txs, l, touched))
  PROVE  UpdatesYieldRoot' /\ LastRoot' = Leaves(l)
<1> DEFINE r == CommitRequest(kind, txs, l, touched)
<1>1. /\ commits \in Seq(CommitRequests)
      /\ DOMAIN commits = 1 .. Len(commits) /\ Len(commits) \in Nat
  BY LenProperties DEF TypeOK
<1>2. /\ DOMAIN commits' = 1 .. Len(commits) + 1
      /\ \A i \in DOMAIN commits : commits'[i] = commits[i]
      /\ commits'[Len(commits) + 1] = r
      /\ Len(commits') = Len(commits) + 1
  BY <1>1
<1>3. /\ r.root = Leaves(l)
      /\ r.updated = [id \in AccountId |-> IF id \in touched THEN Leaf(l, id) ELSE Absent]
  BY DEF CommitRequest, CommittedBlock
<1> HIDE DEF r
<1>4. LastRoot' = Leaves(l)
  BY <1>1, <1>2, <1>3 DEF LastRoot, RootBefore
<1>5. \A i \in 1 .. Len(commits) + 1 : RootBefore(i)' = RootBefore(i)
  BY <1>1, <1>2 DEF RootBefore
<1>6. Overwritten(LastRoot, r.updated) = Leaves(l)
  BY <1>3, LeafType, AbsentIsNoAccount DEF Overwritten, Leaves
<1>7. ASSUME NEW i \in DOMAIN commits'
      PROVE  commits'[i].root = Overwritten(RootBefore(i)', commits'[i].updated)
  <2>1. CASE i = Len(commits) + 1
    BY <1>1, <1>2, <1>3, <1>5, <1>6, <2>1 DEF LastRoot
  <2>2. CASE i # Len(commits) + 1
    <3>1. i \in DOMAIN commits
      BY <1>1, <1>2, <2>2
    <3> QED
      BY <1>1, <1>2, <1>5, <3>1 DEF UpdatesYieldRoot
  <2> QED
    BY <2>1, <2>2
<1> QED
  BY <1>4, <1>7 DEF UpdatesYieldRoot

LEMMA UpdatesInvNext == KeeperInv /\ UpdatesInv /\ [Next]_vars => UpdatesInv'
<1> SUFFICES ASSUME KeeperInv, UpdatesInv, [Next]_vars PROVE UpdatesInv'
  OBVIOUS
<1> USE DEF UpdatesInv
<1>t. TypeOK /\ ledger \in Ledgers /\ transferQueue \in Seq(TransferTx)
  BY DEF KeeperInv, TypeOK
<1>1. CASE UNCHANGED <<ledger, transferQueue, commits>>
  BY <1>1 DEF UpdatesYieldRoot, ChangesAreTouched, LastRoot, RootBefore
<1>2. CASE \E tx \in Transfers : AcceptTransfer(tx)
  <2> PICK tx \in Transfers : AcceptTransfer(tx)
    BY <1>2
  <2>1. tx \in TransferTx
    BY KeeperConstants
  <2>2. ledger' = ApplyTransfer(ledger, tx) /\ transferQueue' = Append(transferQueue, tx)
        /\ commits' = commits
    BY DEF AcceptTransfer
  <2>3. UpdatesYieldRoot' /\ LastRoot' = LastRoot
    BY <2>2 DEF UpdatesYieldRoot, LastRoot, RootBefore
  <2>4. ASSUME NEW id \in AccountId, Leaf(ledger', id) # LastRoot[id]
        PROVE  id \in Touched(transferQueue')
    <3>1. CASE id \in {tx.from, tx.to}
      BY <1>t, <2>1, <2>2, <3>1, TouchedAppend
    <3>2. CASE id \notin {tx.from, tx.to}
      <4>1. id \in Touched(transferQueue)
        BY <1>t, <2>1, <2>2, <2>4, <3>2, TransferTouches DEF ChangesAreTouched
      <4> QED
        BY <1>t, <2>1, <2>2, <4>1, TouchedAppend
    <3> QED
      BY <3>1, <3>2
  <2> QED
    BY <2>3, <2>4 DEF ChangesAreTouched
<1>3. CASE FinalizeBatch
  <2>1. Len(transferQueue) <= BatchSize /\ Len(transferQueue) \in Nat
        /\ Len(transferQueue) < BatchSize
    BY <1>3, <1>t, LenProperties DEF FinalizeBatch, KeeperInv, DrainInv, BatchDiscipline
  <2>2. ToPad \in Nat /\ Padding \in Seq(TransferTx) /\ Len(Padding) = ToPad
    BY <1>t, <2>1, PaddingType
  <2>3. ledger' = PaddedLedger /\ transferQueue' = transferQueue \o Padding
        /\ commits' = commits
    BY <1>3 DEF FinalizeBatch
  <2>4. UpdatesYieldRoot' /\ LastRoot' = LastRoot
    BY <2>3 DEF UpdatesYieldRoot, LastRoot, RootBefore
  <2>5. PaddingId \in Touched(Padding)
    <3>1. 1 \in 1 .. ToPad
      BY <2>1, <2>2, KeeperConstants DEF ToPad
    <3>2. DOMAIN Padding = 1 .. ToPad
          /\ Padding[1] = PaddingTx(Leaf(ledger, PaddingId).nonce + 1 - 1)
      BY <3>1 DEF Padding
    <3>3. Padding[1].from = PaddingId
      BY <3>2 DEF PaddingTx
    <3> QED
      BY <3>1, <3>2, <3>3 DEF Touched
  <2>6. \A id \in AccountId \ {PaddingId} : Leaf(PaddedLedger, id) = Leaf(ledger, id)
    <3>1. Leaf(ledger, ExitId) # Absent
      BY <1>t, LedgerConstants, LeafType, AbsentIsNoAccount
    <3> QED
      BY <1>t, <3>1, LedgerConstants, KeeperConstants DEF PaddedLedger, Leaf, Ledgers
  <2>7. Touched(transferQueue) \cup Touched(Padding) \subseteq Touched(transferQueue')
    BY <1>t, <2>2, <2>3, TouchedConcat
  <2> QED
    BY <2>3, <2>4, <2>5, <2>6, <2>7 DEF ChangesAreTouched
<1>4. CASE CreateTransferBlock
  <2>1. commits' = Append(commits,
                     CommitRequest("transfer", transferQueue, ledger, Touched(transferQueue)))
        /\ ledger' = ledger
    BY <1>4 DEF CreateTransferBlock, Send
  <2>2. UpdatesYieldRoot' /\ LastRoot' = Leaves(ledger)
    BY <1>t, <2>1, SendUpdates DEF ChangesAreTouched
  <2> QED
    BY <2>1, <2>2 DEF ChangesAreTouched, Leaves
<1>5. CASE CreateDepositBlock
  <2> DEFINE tx == Head(draining).tx
  <2>1. transferQueue = <<>> /\ Head(draining) \in Requested
        /\ Head(draining).kind = "deposit"
    BY <1>5, NoBatchBehindRequest DEF CreateDepositBlock, Draining
  <2>2. tx \in DepositTx
    BY <2>1, KeeperConstants DEF Requested, DepositProto, ExitProto
  <2> HIDE DEF tx
  <2>3. CASE InTree(tx.account)
    <3>1. ledger' = ApplyDeposit(ledger, tx) /\ commits' =
            Append(commits, CommitRequest("deposit", <<tx>>, ledger', {tx.account}))
      BY <1>5, <2>3 DEF CreateDepositBlock, Send, tx
    <3>2. ledger' \in Ledgers
      BY <1>t, <2>2, <3>1, ApplyDepositType
    <3>3. Touched(transferQueue) = {}
      BY <2>1, EmptySeq DEF Touched
    <3>4. \A id \in AccountId : Leaf(ledger', id) # LastRoot[id] => id \in {tx.account}
      BY <1>t, <2>2, <3>1, <3>3 DEF ChangesAreTouched, ApplyDeposit, Leaf, Ledgers, DepositTx
    <3>5. UpdatesYieldRoot' /\ LastRoot' = Leaves(ledger')
      BY <1>t, <3>1, <3>2, <3>4, SendUpdates
    <3> QED
      BY <3>5 DEF ChangesAreTouched, Leaves
  <2>4. CASE ~InTree(tx.account)
    BY <1>1, <1>5, <2>4 DEF CreateDepositBlock, tx
  <2> QED
    BY <2>3, <2>4
<1>6. CASE CreateExitBlock
  <2> DEFINE id0 == Head(draining).account
             exit == [account |-> id0, amount |-> ledger[id0].balance]
  <2>1. transferQueue = <<>> /\ Head(draining) \in Requested
        /\ Head(draining).kind = "exit"
    BY <1>6, NoBatchBehindRequest DEF CreateExitBlock, Draining
  <2>2. id0 \in AccountId
    BY <2>1, KeeperConstants DEF Requested, DepositProto, ExitProto
  <2> HIDE DEF id0
  <2>3. CASE ExitValid(ledger, id0)
    <3>1. ledger' = ApplyExit(ledger, id0) /\ commits' =
            Append(commits, CommitRequest("exit", <<exit>>, ledger', {id0}))
      BY <1>6, <2>3 DEF CreateExitBlock, Send, id0
    <3>2. ledger' \in Ledgers
      BY <1>t, <2>2, <3>1, ApplyExitType
    <3>3. Touched(transferQueue) = {}
      BY <2>1, EmptySeq DEF Touched
    <3>4. \A id \in AccountId : Leaf(ledger', id) # LastRoot[id] => id \in {id0}
      BY <1>t, <2>2, <3>1, <3>3 DEF ChangesAreTouched, ApplyExit, Leaf, Ledgers
    <3>5. UpdatesYieldRoot' /\ LastRoot' = Leaves(ledger')
      BY <1>t, <3>1, <3>2, <3>4, SendUpdates
    <3> QED
      BY <3>5 DEF ChangesAreTouched, Leaves
  <2>4. CASE ~ExitValid(ledger, id0)
    BY <1>1, <1>6, <2>4 DEF CreateExitBlock, id0
  <2> QED
    BY <2>3, <2>4
<1> QED
  BY <1>1, <1>2, <1>3, <1>4, <1>5, <1>6
  DEF Next, Request, TimerTick, ProcessBlockQueue, RejectTransfer, TransferOutsideTree,
      AddBlock, FailPadding, EndDraining, PassTime, vars

LEMMA UpdatesInvInit == Init => UpdatesInv
<1> SUFFICES ASSUME Init PROVE UpdatesInv
  OBVIOUS
<1>1. commits = <<>> /\ ledger = StartLedger
  BY DEF Init
<1>2. LastRoot = Leaves(StartLedger)
  BY <1>1, EmptySeq DEF LastRoot, RootBefore
<1> QED
  BY <1>1, <1>2 DEF UpdatesInv, UpdatesYieldRoot, ChangesAreTouched, Leaves

\* The account updates sent with a block, which is all the database learns of
\* the new state, give exactly the state whose root the block carries.
THEOREM UpdatesAreExact == Spec => []UpdatesYieldRoot
<1>1. UpdatesInv => UpdatesYieldRoot
  BY DEF UpdatesInv
<1> QED
  BY <1>1, UpdatesInvInit, UpdatesInvNext, KeeperInvariant, PTL DEF Spec

----------------------------------------------------------------------------
\* Funds are conserved

LEMMA TotalIsInt ==
  ASSUME NEW l \in LeafMaps
  PROVE  Total(l) \in Int
<1>1. \A id \in AccountId : l[id].balance \in Int
  BY DEF LeafMaps, Account
<1> QED
  BY <1>1, FinitelyManyAccounts, SumIsInt DEF Total, SumFunction

LEMMA TotalOfChanged ==
  ASSUME NEW l \in LeafMaps, NEW m \in LeafMaps, NEW id \in AccountId,
         \A other \in AccountId \ {id} : m[other] = l[other]
  PROVE  Total(m) = Total(l) + (m[id].balance - l[id].balance)
<1> DEFINE f == [a \in AccountId |-> l[a].balance]
           g == [a \in AccountId |-> m[a].balance]
<1>1. \A a \in AccountId : f[a] \in Int /\ g[a] \in Int
  BY DEF LeafMaps, Account
<1>2. \A a \in AccountId \ {id} : f[a] = g[a]
  OBVIOUS
<1>3. f[id] = l[id].balance /\ g[id] = m[id].balance
  OBVIOUS
<1>4. DOMAIN f = AccountId /\ DOMAIN g = AccountId
  OBVIOUS
<1>5. Total(l) = SumFunction(f) /\ Total(m) = SumFunction(g)
  BY DEF Total
<1> HIDE DEF f, g
<1>6. SumFunctionOnSet(g, AccountId) = SumFunctionOnSet(f, AccountId) + (g[id] - f[id])
  BY <1>1, <1>2, FinitelyManyAccounts, SumOfChanged
<1> QED
  BY <1>3, <1>4, <1>5, <1>6 DEF SumFunction

\* A transfer takes the fee out of the rollup, and the amount if it goes to
\* account 0; the rest moves between two accounts.
LEMMA TransferTotal ==
  ASSUME NEW l \in Ledgers, NEW tx \in TransferTx, tx.from # tx.to,
         NEW n, TransferValid(l, tx, n)
  PROVE  Total(Leaves(ApplyTransfer(l, tx)))
           = Total(Leaves(l)) - (tx.fee + (IF tx.to = ExitId THEN tx.amount ELSE 0))
<1> DEFINE m == ApplyTransfer(l, tx)
           out == IF tx.to = ExitId THEN tx.amount ELSE 0
           k == [Leaves(l) EXCEPT ![tx.to] = Leaf(m, tx.to)]
<1>1. /\ tx.from \in AccountId /\ tx.to \in AccountId
      /\ tx.amount \in Nat /\ tx.fee \in Nat /\ out \in Nat
  BY DEF TransferTx
<1>2. /\ m \in Ledgers
      /\ m[tx.from] # Absent /\ m[tx.to] # Absent
      /\ \A id \in AccountId \ {tx.from, tx.to} : m[id] = l[id]
  BY <1>1, ApplyTransferType
<1>3. /\ l[tx.from] \in Account /\ Leaf(l, tx.from) = l[tx.from]
      /\ Leaf(l, tx.to) \in Account
  BY <1>1, LeafType DEF TransferValid, Ledgers, Leaf
<1>4. Leaf(m, tx.from).balance = Leaf(l, tx.from).balance - (tx.amount + tx.fee)
  BY <1>1, <1>2, <1>3 DEF ApplyTransfer, Ledgers, Leaf, Account
<1>5. Leaf(m, tx.to).balance = Leaf(l, tx.to).balance + (tx.amount - out)
  BY <1>1, <1>2, <1>3 DEF ApplyTransfer, Ledgers, Leaf, Account
<1>6. \A id \in AccountId \ {tx.from, tx.to} : Leaf(m, id) = Leaf(l, id)
  BY <1>2 DEF Leaf
<1> HIDE DEF m, out
<1>7. Leaves(l) \in LeafMaps /\ Leaves(m) \in LeafMaps /\ Leaf(m, tx.to) \in Account
  BY <1>1, <1>2, LeavesType, LeafType
<1>8. /\ k \in LeafMaps /\ k[tx.to] = Leaf(m, tx.to)
      /\ \A id \in AccountId \ {tx.to} : k[id] = Leaf(l, id)
  BY <1>1, <1>7 DEF LeafMaps, Leaves
<1> HIDE DEF k
<1>9. \A id \in AccountId : Leaves(l)[id] = Leaf(l, id) /\ Leaves(m)[id] = Leaf(m, id)
  BY DEF Leaves
<1>10. Total(k) = Total(Leaves(l)) + (Leaf(m, tx.to).balance - Leaf(l, tx.to).balance)
  <2>1. Total(k) = Total(Leaves(l)) + (k[tx.to].balance - Leaves(l)[tx.to].balance)
    BY <1>1, <1>7, <1>8, <1>9, TotalOfChanged
  <2> QED
    BY <1>1, <1>8, <1>9, <2>1
<1>11. Total(Leaves(m)) = Total(k) + (Leaf(m, tx.from).balance - Leaf(l, tx.from).balance)
  <2>1. \A id \in AccountId \ {tx.from} : Leaves(m)[id] = k[id]
    BY <1>6, <1>8, <1>9
  <2>2. Total(Leaves(m)) = Total(k) + (Leaves(m)[tx.from].balance - k[tx.from].balance)
    BY <1>1, <1>7, <1>8, <2>1, TotalOfChanged
  <2> QED
    BY <1>1, <1>8, <1>9, <2>2
<1>12. /\ Total(Leaves(l)) \in Int
       /\ Leaf(l, tx.to).balance \in Int /\ Leaf(l, tx.from).balance \in Int
  BY <1>3, <1>7, TotalIsInt DEF Account
<1>13. Leaf(m, tx.to).balance - Leaf(l, tx.to).balance = tx.amount - out
  BY <1>1, <1>5, <1>12
<1>14. Leaf(m, tx.from).balance - Leaf(l, tx.from).balance = 0 - (tx.amount + tx.fee)
  BY <1>1, <1>4, <1>12
<1>15. Total(Leaves(m)) = Total(Leaves(l)) + (tx.amount - out) + (0 - (tx.amount + tx.fee))
  BY <1>10, <1>11, <1>13, <1>14
<1>16. Total(Leaves(m)) = Total(Leaves(l)) - (tx.fee + out)
  BY <1>1, <1>12, <1>15
<1> QED
  BY <1>16 DEF m, out

LEMMA DepositTotal ==
  ASSUME NEW l \in Ledgers, NEW tx \in DepositTx
  PROVE  Total(Leaves(ApplyDeposit(l, tx))) = Total(Leaves(l)) + tx.amount
<1> DEFINE m == ApplyDeposit(l, tx)
<1>1. tx.account \in AccountId /\ tx.amount \in Nat
  BY DEF DepositTx
<1>2. m \in Ledgers /\ \A id \in AccountId \ {tx.account} : m[id] = l[id]
  BY ApplyDepositType
<1>3. Leaf(l, tx.account) \in Account /\ m[tx.account] # Absent
  BY <1>1, ApplyDepositType, LeafType
<1>4. Leaf(m, tx.account).balance = Leaf(l, tx.account).balance + tx.amount
  <2>1. CASE Leaf(l, tx.account).balance = 0
    BY <1>1, <1>2, <1>3, <2>1 DEF ApplyDeposit, Ledgers, Leaf
  <2>2. CASE Leaf(l, tx.account).balance # 0
    <3>1. l[tx.account] \in Account /\ Leaf(l, tx.account) = l[tx.account]
      BY <1>3, <2>2 DEF Leaf, DefaultAccount
    <3> QED
      BY <1>1, <1>2, <1>3, <2>2, <3>1 DEF ApplyDeposit, Ledgers, Leaf, Account
  <2> QED
    BY <2>1, <2>2
<1> HIDE DEF m
<1>5. /\ Leaves(l) \in LeafMaps /\ Leaves(m) \in LeafMaps
      /\ \A id \in AccountId \ {tx.account} : Leaves(m)[id] = Leaves(l)[id]
      /\ Leaves(m)[tx.account].balance = Leaves(l)[tx.account].balance + tx.amount
  BY <1>1, <1>2, <1>4, LeavesType DEF Leaves, Leaf
<1>6. Total(Leaves(m)) =
        Total(Leaves(l)) + (Leaves(m)[tx.account].balance - Leaves(l)[tx.account].balance)
  BY <1>1, <1>5, TotalOfChanged
<1>7. Total(Leaves(l)) \in Int /\ Leaves(l)[tx.account].balance \in Int
  BY <1>1, <1>5, TotalIsInt DEF LeafMaps, Account
<1>8. Total(Leaves(m)) = Total(Leaves(l)) + tx.amount
  BY <1>1, <1>5, <1>6, <1>7
<1> QED
  BY <1>8 DEF m

LEMMA ExitTotal ==
  ASSUME NEW l \in Ledgers, NEW account \in AccountId, ExitValid(l, account)
  PROVE  Total(Leaves(ApplyExit(l, account))) = Total(Leaves(l)) - l[account].balance
<1> DEFINE m == ApplyExit(l, account)
<1>1. m \in Ledgers /\ \A id \in AccountId \ {account} : m[id] = l[id]
  BY ApplyExitType
<1>2. l[account] \in Account /\ Leaf(l, account) = l[account]
  BY DEF ExitValid, Ledgers, Leaf
<1>3. Leaf(m, account).balance = 0
  BY DEF ApplyExit, Ledgers, Leaf, DefaultAccount
<1> HIDE DEF m
<1>4. /\ Leaves(l) \in LeafMaps /\ Leaves(m) \in LeafMaps
      /\ \A id \in AccountId \ {account} : Leaves(m)[id] = Leaves(l)[id]
      /\ Leaves(m)[account].balance = 0 /\ Leaves(l)[account].balance = l[account].balance
  BY <1>1, <1>2, <1>3, LeavesType DEF Leaves, Leaf
<1>5. Total(Leaves(m)) =
        Total(Leaves(l)) + (Leaves(m)[account].balance - Leaves(l)[account].balance)
  BY <1>4, TotalOfChanged
<1>6. Total(Leaves(l)) \in Int /\ l[account].balance \in Int
  BY <1>2, <1>4, TotalIsInt DEF Account
<1>7. Total(Leaves(m)) = Total(Leaves(l)) - l[account].balance
  BY <1>4, <1>5, <1>6
<1> QED
  BY <1>7 DEF m

LEMMA SpentAppended ==
  ASSUME NEW q \in Seq(TransferTx), NEW tx \in TransferTx
  PROVE  /\ Spent(q) \in Int
         /\ Spent(Append(q, tx))
              = Spent(q) + (tx.fee + (IF tx.to = ExitId THEN tx.amount ELSE 0))
<1> DEFINE out(t) == t.fee + (IF t.to = ExitId THEN t.amount ELSE 0)
           f == [i \in DOMAIN q |-> out(q[i])]
           p == Append(q, tx)
           g == [i \in DOMAIN p |-> out(p[i])]
           n == Len(q)
<1>1. /\ n \in Nat /\ DOMAIN q = 1 .. n
      /\ p \in Seq(TransferTx) /\ DOMAIN p = 1 .. n + 1
      /\ p[n + 1] = tx /\ \A i \in 1 .. n : p[i] = q[i]
  OBVIOUS
<1>2. \A t \in TransferTx : out(t) \in Int
  BY DEF TransferTx
<1>3. \A i \in 1 .. n + 1 : p[i] \in TransferTx
  BY <1>1
<1>4. Spent(q) = SumFunction(f) /\ Spent(p) = SumFunction(g)
  BY DEF Spent
<1> HIDE DEF n, p, out
<1>5. /\ DOMAIN f = 1 .. n /\ DOMAIN g = 1 .. n + 1
      /\ \A i \in 1 .. n + 1 : g[i] \in Int
      /\ \A i \in 1 .. n : f[i] = g[i]
      /\ g[n + 1] = out(tx)
  BY <1>1, <1>2, <1>3
<1> HIDE DEF f, g
<1>6. SumFunction(g) = SumFunction(f) + g[n + 1]
  BY <1>1, <1>5, SumOfAppended
<1>7. SumFunction(f) \in Int
  <2>1. IsFiniteSet(1 .. n)
    BY <1>1, FS_Interval
  <2>2. \A i \in 1 .. n : f[i] \in Int
    BY <1>1, <1>5
  <2> QED
    BY <1>5, <2>1, <2>2, SumIsInt DEF SumFunction
<1> QED
  BY <1>4, <1>5, <1>6, <1>7 DEF out, p

\* Padding spends nothing.
LEMMA SpentPadded ==
  ASSUME TypeOK, Len(transferQueue) <= BatchSize
  PROVE  Spent(transferQueue \o Padding) = Spent(transferQueue)
<1> DEFINE out(t) == t.fee + (IF t.to = ExitId THEN t.amount ELSE 0)
<1>1. PICK q : q = transferQueue
  OBVIOUS
<1>2. PICK pad : pad = Padding
  OBVIOUS
<1>3. PICK p : p = q \o pad
  OBVIOUS
<1>4. PICK n \in Nat : n = Len(q)
  BY <1>1 DEF TypeOK
<1>5. PICK k \in Nat : k = ToPad
  BY PaddingType
<1>6. /\ q \in Seq(TransferTx) /\ DOMAIN q = 1 .. n
      /\ pad \in Seq(TransferTx) /\ Len(pad) = k
  BY <1>1, <1>2, <1>4, <1>5, PaddingType DEF TypeOK
<1>7. /\ p \in Seq(TransferTx) /\ Len(p) = n + k
      /\ \A i \in 1 .. n + k : p[i] = IF i <= n THEN q[i] ELSE pad[i - n]
  BY <1>3, <1>4, <1>6, ConcatProperties
<1>8. DOMAIN p = 1 .. n + k
  BY <1>7
<1>9. \A j \in 1 .. k : out(pad[j]) = 0
  BY <1>2, <1>5 DEF Padding, PaddingTx
<1>10. \A t \in TransferTx : out(t) \in Int
  BY DEF TransferTx
<1>11. PICK f : f = [i \in DOMAIN q |-> out(q[i])]
  OBVIOUS
<1>12. PICK g : g = [i \in DOMAIN p |-> out(p[i])]
  OBVIOUS
<1>13. Spent(q) = SumFunction(f) /\ Spent(p) = SumFunction(g)
  BY <1>11, <1>12 DEF Spent
<1> HIDE DEF out
<1>14. \A i \in 1 .. n : p[i] = q[i] /\ q[i] \in TransferTx
  BY <1>6, <1>7
<1>15. /\ DOMAIN f = 1 .. n /\ DOMAIN g = 1 .. n + k
       /\ \A i \in 1 .. n : f[i] = g[i] /\ g[i] \in Int
  BY <1>6, <1>8, <1>10, <1>11, <1>12, <1>14
<1>16. \A i \in n + 1 .. n + k : g[i] = 0
  <2> SUFFICES ASSUME NEW i \in n + 1 .. n + k PROVE g[i] = 0
    OBVIOUS
  <2>1. i \in 1 .. n + k /\ ~(i <= n) /\ i - n \in 1 .. k
    OBVIOUS
  <2> QED
    BY <1>7, <1>8, <1>9, <1>12, <2>1
<1>17. /\ IsFiniteSet(1 .. n) /\ IsFiniteSet(n + 1 .. n + k)
       /\ (1 .. n) \cap (n + 1 .. n + k) = {}
       /\ (1 .. n) \cup (n + 1 .. n + k) = 1 .. n + k
  BY FS_Interval
<1>18. SumFunctionOnSet(g, 1 .. n + k) = SumFunctionOnSet(g, 1 .. n)
  BY <1>15, <1>16, <1>17, SumIgnoresZeros
<1>19. SumFunctionOnSet(f, 1 .. n) = SumFunctionOnSet(g, 1 .. n)
  BY <1>15, <1>17, SumsEqual
<1>20. Spent(p) = Spent(q)
  BY <1>13, <1>15, <1>18, <1>19 DEF SumFunction
<1> QED
  BY <1>1, <1>2, <1>3, <1>20

LEMMA SpentNothing == Spent(<<>>) = 0
<1>1. DOMAIN <<>> = {}
  BY EmptySeq
<1> QED
  BY <1>1, SumOfEmpty DEF Spent, SumFunction

LEMMA PaidOne ==
  ASSUME NEW tx, tx.amount \in Int
  PROVE  Paid(<<tx>>) = tx.amount
<1> DEFINE f == [i \in {} |-> 0]
           g == [i \in DOMAIN <<tx>> |-> <<tx>>[i].amount]
<1>1. DOMAIN <<tx>> = 1 .. 0 + 1 /\ g[0 + 1] = tx.amount
  OBVIOUS
<1>2. \A i \in 1 .. 0 + 1 : g[i] \in Int
  OBVIOUS
<1>3. DOMAIN f = 1 .. 0 /\ DOMAIN g = 1 .. 0 + 1 /\ \A i \in 1 .. 0 : f[i] = g[i]
  OBVIOUS
<1>4. Paid(<<tx>>) = SumFunction(g)
  BY DEF Paid
<1>5. SumFunction(f) = 0
  BY SumOfEmpty DEF SumFunction
<1> HIDE DEF f, g
<1>6. SumFunction(g) = SumFunction(f) + g[0 + 1]
  BY <1>2, <1>3, SumOfAppended
<1> QED
  BY <1>1, <1>4, <1>5, <1>6

\* What a block lets in and out is counted in integers.
FlowsAreInt ==
  \A i \in DOMAIN commits : Outflow(commits[i]) \in Int /\ Inflow(commits[i]) \in Int

LEMMA FlowsAppended ==
  ASSUME TypeOK, FlowsAreInt, NEW r, Outflow(r) \in Int, Inflow(r) \in Int,
         commits' = Append(commits, r)
  PROVE  /\ FlowsAreInt'
         /\ Outflows' = Outflows + Outflow(r)
         /\ Inflows' = Inflows + Inflow(r)
         /\ Outflows \in Int /\ Inflows \in Int
<1>1. PICK n \in Nat : n = Len(commits)
  BY DEF TypeOK
<1>2. /\ DOMAIN commits = 1 .. n /\ DOMAIN commits' = 1 .. n + 1
      /\ commits'[n + 1] = r /\ \A i \in 1 .. n : commits'[i] = commits[i]
  BY <1>1 DEF TypeOK
<1>3. FlowsAreInt'
  BY <1>1, <1>2 DEF FlowsAreInt
<1>4. IsFiniteSet(1 .. n)
  BY FS_Interval
<1>5. PICK f : f = [i \in DOMAIN commits |-> Outflow(commits[i])]
  OBVIOUS
<1>6. PICK g : g = [i \in DOMAIN commits' |-> Outflow(commits'[i])]
  OBVIOUS
<1>7. SumFunction(g) = SumFunction(f) + g[n + 1] /\ SumFunction(f) \in Int /\ g[n + 1] = Outflow(r)
  <2>1. /\ DOMAIN f = 1 .. n /\ DOMAIN g = 1 .. n + 1
        /\ \A i \in 1 .. n : f[i] = g[i] /\ f[i] \in Int
        /\ g[n + 1] = Outflow(r)
    BY <1>2, <1>5, <1>6 DEF FlowsAreInt
  <2>2. \A i \in 1 .. n + 1 : g[i] \in Int
    BY <2>1
  <2>3. SumFunction(g) = SumFunction(f) + g[n + 1]
    BY <2>1, <2>2, SumOfAppended
  <2>4. SumFunction(f) \in Int
    BY <1>4, <2>1, SumIsInt DEF SumFunction
  <2> QED
    BY <2>1, <2>3, <2>4
<1>8. PICK d : d = [i \in DOMAIN commits |-> Inflow(commits[i])]
  OBVIOUS
<1>9. PICK e : e = [i \in DOMAIN commits' |-> Inflow(commits'[i])]
  OBVIOUS
<1>10. SumFunction(e) = SumFunction(d) + e[n + 1] /\ SumFunction(d) \in Int /\ e[n + 1] = Inflow(r)
  <2>1. /\ DOMAIN d = 1 .. n /\ DOMAIN e = 1 .. n + 1
        /\ \A i \in 1 .. n : d[i] = e[i] /\ d[i] \in Int
        /\ e[n + 1] = Inflow(r)
    BY <1>2, <1>8, <1>9 DEF FlowsAreInt
  <2>2. \A i \in 1 .. n + 1 : e[i] \in Int
    BY <2>1
  <2>3. SumFunction(e) = SumFunction(d) + e[n + 1]
    BY <2>1, <2>2, SumOfAppended
  <2>4. SumFunction(d) \in Int
    BY <1>4, <2>1, SumIsInt DEF SumFunction
  <2> QED
    BY <2>1, <2>3, <2>4
<1> QED
  BY <1>3, <1>5, <1>6, <1>7, <1>8, <1>9, <1>10 DEF Outflows, Inflows

\* Padding moves nothing.
LEMMA PaddedTotal ==
  ASSUME TypeOK, Len(transferQueue) <= BatchSize, CanPad
  PROVE  Total(Leaves(PaddedLedger)) = Total(Leaves(ledger))
<1>1. ledger \in Ledgers /\ PaddingId \in AccountId /\ ExitId \in AccountId
  BY KeeperConstants, LedgerConstants DEF TypeOK
<1>2. ledger[PaddingId] \in Account /\ ToPad \in Nat /\ PaddingId # ExitId
  BY <1>1, PaddingType, KeeperConstants DEF CanPad, TransferValid, PaddingTx, Ledgers
<1>3. PaddedLedger \in Ledgers
  BY PaddedLedgerType
<1>4. \A id \in AccountId : Leaf(PaddedLedger, id).balance = Leaf(ledger, id).balance
  <2> SUFFICES ASSUME NEW id \in AccountId
               PROVE  Leaf(PaddedLedger, id).balance = Leaf(ledger, id).balance
    OBVIOUS
  <2>1. CASE id = PaddingId
    <3>1. PaddedLedger[id] = [ledger[PaddingId] EXCEPT !.nonce = @ + ToPad]
      BY <1>1, <2>1 DEF PaddedLedger, Ledgers
    <3>2. PaddedLedger[id] \in Account /\ PaddedLedger[id].balance = ledger[id].balance
      BY <1>2, <2>1, <3>1 DEF Account
    <3> QED
      BY <1>2, <2>1, <3>2, AbsentIsNoAccount DEF Leaf
  <2>2. CASE id = ExitId
    <3>1. PaddedLedger[id] = Leaf(ledger, id)
      BY <1>1, <1>2, <2>2 DEF PaddedLedger, Ledgers
    <3> QED
      BY <3>1, <1>1, LeafType, AbsentIsNoAccount DEF Leaf
  <2>3. CASE id \notin {PaddingId, ExitId}
    BY <1>1, <2>3 DEF PaddedLedger, Ledgers, Leaf
  <2> QED
    BY <2>1, <2>2, <2>3
<1>5. [id \in AccountId |-> Leaves(PaddedLedger)[id].balance]
        = [id \in AccountId |-> Leaves(ledger)[id].balance]
  BY <1>4 DEF Leaves
<1> QED
  BY <1>5 DEF Total

FundsInv == FundsConserved /\ FlowsAreInt

LEMMA FundsInvNext == KeeperInv /\ FundsInv /\ [Next]_vars => FundsInv'
<1> SUFFICES ASSUME KeeperInv, FundsInv, [Next]_vars PROVE FundsInv'
  OBVIOUS
<1>t. /\ TypeOK /\ ledger \in Ledgers /\ transferQueue \in Seq(TransferTx)
      /\ Total(Leaves(ledger)) \in Int /\ Total(Leaves(StartLedger)) \in Int
  BY LeavesType, TotalIsInt, KeeperConstants DEF KeeperInv, TypeOK
<1>f. /\ Total(Leaves(ledger)) + Spent(transferQueue) + Outflows
           = Total(Leaves(StartLedger)) + Inflows
      /\ FlowsAreInt
  BY DEF FundsInv, FundsConserved
<1>i. Outflows \in Int /\ Inflows \in Int /\ Spent(transferQueue) \in Int
  <2>1. IsFiniteSet(DOMAIN commits)
    <3>1. PICK n \in Nat : DOMAIN commits = 1 .. n
      BY <1>t DEF TypeOK
    <3> QED
      BY <3>1, FS_Interval
  <2>2. PICK f : f = [i \in DOMAIN commits |-> Outflow(commits[i])]
    OBVIOUS
  <2>3. PICK d : d = [i \in DOMAIN commits |-> Inflow(commits[i])]
    OBVIOUS
  <2>4. PICK D : D = DOMAIN commits
    OBVIOUS
  <2>5. IsFiniteSet(D) /\ DOMAIN f = D /\ DOMAIN d = D
        /\ \A i \in D : f[i] \in Int /\ d[i] \in Int
    BY <1>f, <2>1, <2>2, <2>3, <2>4 DEF FlowsAreInt
  <2>6. SumFunction(f) \in Int /\ SumFunction(d) \in Int
    BY <2>5, SumIsInt DEF SumFunction
  <2>7. Outflows \in Int /\ Inflows \in Int
    BY <2>2, <2>3, <2>6 DEF Outflows, Inflows
  <2>8. PaddingTx(0) \in TransferTx
    BY KeeperConstants, LedgerConstants DEF PaddingTx, TransferTx
  <2>9. Spent(transferQueue) \in Int
    BY <1>t, <2>8, SpentAppended
  <2> QED
    BY <2>7, <2>9
<1>1. CASE UNCHANGED <<ledger, transferQueue, commits>>
  BY <1>1, <1>f DEF FundsInv, FundsConserved, FlowsAreInt, Outflows, Inflows
<1>2. CASE \E tx \in Transfers : AcceptTransfer(tx)
  <2> PICK tx \in Transfers : AcceptTransfer(tx)
    BY <1>2
  <2>1. tx \in TransferTx /\ tx.from # tx.to
    BY KeeperConstants
  <2>2. /\ TransferValid(ledger, tx, blockNumber)
        /\ ledger' = ApplyTransfer(ledger, tx) /\ transferQueue' = Append(transferQueue, tx)
        /\ commits' = commits
    BY DEF AcceptTransfer
  <2>3. PICK out : out = tx.fee + (IF tx.to = ExitId THEN tx.amount ELSE 0)
    OBVIOUS
  <2>4. out \in Int
    BY <2>1, <2>3 DEF TransferTx
  <2>5. Total(Leaves(ledger')) = Total(Leaves(ledger)) - out
    BY <1>t, <2>1, <2>2, <2>3, TransferTotal
  <2>6. Spent(transferQueue') = Spent(transferQueue) + out
    BY <1>t, <2>1, <2>2, <2>3, SpentAppended
  <2>7. UNCHANGED <<Outflows, Inflows>> /\ FlowsAreInt'
    BY <1>f, <2>2 DEF Outflows, Inflows, FlowsAreInt
  <2>8. Total(Leaves(ledger')) + Spent(transferQueue') + Outflows
          = Total(Leaves(ledger)) + Spent(transferQueue) + Outflows
    BY <1>t, <1>i, <2>4, <2>5, <2>6
  <2> QED
    BY <1>f, <2>7, <2>8 DEF FundsInv, FundsConserved
<1>3. CASE FinalizeBatch
  <2>1. Len(transferQueue) <= BatchSize /\ CanPad
    BY <1>3 DEF FinalizeBatch, KeeperInv, DrainInv
  <2>2. ledger' = PaddedLedger /\ transferQueue' = transferQueue \o Padding
        /\ commits' = commits
    BY <1>3 DEF FinalizeBatch
  <2>3. Total(Leaves(ledger')) = Total(Leaves(ledger))
    BY <1>t, <2>1, <2>2, PaddedTotal
  <2>4. Spent(transferQueue') = Spent(transferQueue)
    BY <1>t, <2>1, <2>2, SpentPadded
  <2>5. UNCHANGED <<Outflows, Inflows>> /\ FlowsAreInt'
    BY <1>f, <2>2 DEF Outflows, Inflows, FlowsAreInt
  <2> QED
    BY <1>f, <2>3, <2>4, <2>5 DEF FundsInv, FundsConserved
<1>4. CASE CreateTransferBlock
  <2> DEFINE r == CommitRequest("transfer", transferQueue, ledger, Touched(transferQueue))
  <2>1. commits' = Append(commits, r) /\ ledger' = ledger /\ transferQueue' = <<>>
    BY <1>4 DEF CreateTransferBlock, Send
  <2>2. r.kind = "transfer" /\ r.txs = transferQueue
    BY DEF CommitRequest, CommittedBlock
  <2> HIDE DEF r
  <2>3. Outflow(r) = Spent(transferQueue) /\ Inflow(r) = 0
    BY <2>2 DEF Outflow, Inflow
  <2>4. /\ FlowsAreInt'
        /\ Outflows' = Outflows + Spent(transferQueue)
        /\ Inflows' = Inflows + 0
    BY <1>t, <1>f, <1>i, <2>1, <2>3, FlowsAppended
  <2>5. Spent(transferQueue') = 0
    BY <2>1, SpentNothing
  <2>6. Total(Leaves(ledger)) + Spent(transferQueue') + Outflows'
          = Total(Leaves(StartLedger)) + Inflows'
    BY <1>t, <1>f, <1>i, <2>4, <2>5
  <2> QED
    BY <2>1, <2>4, <2>6 DEF FundsInv, FundsConserved
<1>5. CASE CreateDepositBlock
  <2> DEFINE tx == Head(draining).tx
  <2>1. transferQueue = <<>> /\ Head(draining) \in Requested
        /\ Head(draining).kind = "deposit"
    BY <1>5, NoBatchBehindRequest DEF CreateDepositBlock, Draining
  <2>2. tx \in DepositTx
    BY <2>1, KeeperConstants DEF Requested, DepositProto, ExitProto
  <2> DEFINE r == CommitRequest("deposit", <<tx>>, ledger', {tx.account})
  <2> HIDE DEF tx
  <2>3. CASE InTree(tx.account)
    <3>1. /\ ledger' = ApplyDeposit(ledger, tx) /\ commits' = Append(commits, r)
          /\ transferQueue' = transferQueue
      BY <1>5, <2>3 DEF CreateDepositBlock, Send, tx
    <3>2. r.kind = "deposit" /\ r.txs = <<tx>>
      BY DEF CommitRequest, CommittedBlock
    <3> HIDE DEF r
    <3>3. tx.amount \in Int
      BY <2>2 DEF DepositTx
    <3>4. Outflow(r) = 0 /\ Inflow(r) = tx.amount
      BY <3>2, <3>3, PaidOne DEF Outflow, Inflow
    <3>5. PICK rr : rr = r
      OBVIOUS
    <3>6. /\ FlowsAreInt' /\ Outflows' = Outflows + 0 /\ Inflows' = Inflows + tx.amount
      BY <1>t, <1>f, <3>1, <3>3, <3>4, <3>5, FlowsAppended
    <3>7. Total(Leaves(ledger')) = Total(Leaves(ledger)) + tx.amount
      BY <1>t, <2>2, <3>1, DepositTotal
    <3>8. PICK amount \in Int : amount = tx.amount
      BY <3>3
    <3>9. Outflows' = Outflows
      BY <1>i, <3>6
    <3>10. Total(Leaves(ledger')) + Spent(transferQueue) + Outflows
             = Total(Leaves(ledger)) + Spent(transferQueue) + Outflows + amount
      BY <1>t, <1>i, <3>7, <3>8
    <3>11. Total(Leaves(ledger')) + Spent(transferQueue) + Outflows'
             = Total(Leaves(StartLedger)) + Inflows'
      BY <1>t, <1>f, <1>i, <3>6, <3>8, <3>9, <3>10
    <3> QED
      BY <3>1, <3>6, <3>11 DEF FundsInv, FundsConserved
  <2>4. CASE ~InTree(tx.account)
    BY <1>1, <1>5, <2>4 DEF CreateDepositBlock, tx
  <2> QED
    BY <2>3, <2>4
<1>6. CASE CreateExitBlock
  <2> DEFINE id == Head(draining).account
             exit == [account |-> id, amount |-> ledger[id].balance]
             r == CommitRequest("exit", <<exit>>, ledger', {id})
  <2>1. transferQueue = <<>> /\ Head(draining) \in Requested
        /\ Head(draining).kind = "exit"
    BY <1>6, NoBatchBehindRequest DEF CreateExitBlock, Draining
  <2>2. id \in AccountId
    BY <2>1, KeeperConstants DEF Requested, DepositProto, ExitProto
  <2> HIDE DEF id
  <2>3. CASE ExitValid(ledger, id)
    <3>1. /\ ledger' = ApplyExit(ledger, id) /\ commits' = Append(commits, r)
          /\ transferQueue' = transferQueue
      BY <1>6, <2>3 DEF CreateExitBlock, Send, id
    <3>2. r.kind = "exit" /\ r.txs = <<exit>>
      BY DEF CommitRequest, CommittedBlock
    <3>3. exit.amount = ledger[id].balance /\ ledger[id].balance \in Int
      BY <1>t, <2>2, <2>3 DEF ExitValid, Ledgers, Account
    <3> HIDE DEF r, exit
    <3>4. Outflow(r) = ledger[id].balance /\ Inflow(r) = 0
      BY <3>2, <3>3, PaidOne DEF Outflow, Inflow
    <3>5. PICK rr : rr = r
      OBVIOUS
    <3>6. /\ FlowsAreInt' /\ Outflows' = Outflows + ledger[id].balance /\ Inflows' = Inflows + 0
      BY <1>t, <1>f, <3>1, <3>3, <3>4, <3>5, FlowsAppended
    <3>7. Total(Leaves(ledger')) = Total(Leaves(ledger)) - ledger[id].balance
      BY <1>t, <2>2, <2>3, <3>1, ExitTotal
    <3>8. Total(Leaves(ledger')) + Spent(transferQueue) + Outflows'
            = Total(Leaves(StartLedger)) + Inflows'
      BY <1>t, <1>f, <1>i, <3>3, <3>6, <3>7
    <3> QED
      BY <3>1, <3>6, <3>8 DEF FundsInv, FundsConserved
  <2>4. CASE ~ExitValid(ledger, id)
    BY <1>1, <1>6, <2>4 DEF CreateExitBlock, id
  <2> QED
    BY <2>3, <2>4
<1> QED
  BY <1>1, <1>2, <1>3, <1>4, <1>5, <1>6
  DEF Next, Request, TimerTick, ProcessBlockQueue, RejectTransfer, TransferOutsideTree,
      AddBlock, FailPadding, EndDraining, PassTime, vars

\* No funds appear or vanish: the accounts hold what was there at the start
\* and was deposited, less what exits, transfers to account 0 and fees took out.
THEOREM FundsAreConserved == Spec => []FundsConserved
<1>1. Init => FundsInv
  <2> SUFFICES ASSUME Init PROVE FundsInv
    OBVIOUS
  <2>1. commits = <<>> /\ ledger = StartLedger /\ transferQueue = <<>>
    BY DEF Init
  <2>2. DOMAIN commits = {}
    BY <2>1, EmptySeq
  <2>3. Outflows = 0 /\ Inflows = 0
    BY <2>2, SumOfEmpty DEF Outflows, Inflows, SumFunction
  <2>4. Spent(transferQueue) = 0
    BY <2>1, SpentNothing
  <2>5. Total(Leaves(StartLedger)) \in Int
    BY KeeperConstants, LeavesType, TotalIsInt
  <2> QED
    BY <2>1, <2>2, <2>3, <2>4, <2>5 DEF FundsInv, FundsConserved, FlowsAreInt
<1>2. FundsInv => FundsConserved
  BY DEF FundsInv
<1> QED
  BY <1>1, <1>2, FundsInvNext, KeeperInvariant, PTL DEF Spec

----------------------------------------------------------------------------
\* The blocks sent are the rollup chain

\* One step of the fold that Replay is, and the fold over the first transfers.
ReplayStep(iter, leaves, txs, number, s) ==
  IF s = {} THEN [ok |-> TRUE, leaves |-> leaves]
  ELSE [ok     |-> iter[s \ {Max(s)}].ok
                    /\ TransferValid(iter[s \ {Max(s)}].leaves, txs[Max(s)], number),
        leaves |-> ApplyTransfer(iter[s \ {Max(s)}].leaves, txs[Max(s)])]

IsReplay(iter, leaves, txs, number, S) ==
  iter = [s \in SUBSET S |-> ReplayStep(iter, leaves, txs, number, s)]

LEMMA SameLedger ==
  /\ \A l, tx, n : Chain!TransferValid(l, tx, n) = TransferValid(l, tx, n)
  /\ \A l, tx : Chain!ApplyTransfer(l, tx) = ApplyTransfer(l, tx)
  /\ \A l, tx : Chain!ApplyDeposit(l, tx) = ApplyDeposit(l, tx)
  /\ \A l, id : Chain!ApplyExit(l, id) = ApplyExit(l, id)
  /\ \A l, u : Chain!Overwritten(l, u) = Overwritten(l, u)
  /\ \A l : Chain!Leaves(l) = Leaves(l)
BY DEF Chain!TransferValid, TransferValid, Chain!ApplyTransfer, ApplyTransfer, Chain!Leaf, Leaf,
       Chain!ExitId, ExitId, Chain!ApplyDeposit, ApplyDeposit, Chain!ApplyExit, ApplyExit,
       Chain!DefaultAccount, DefaultAccount, Chain!Overwritten, Overwritten, Chain!Leaves, Leaves

LEMMA MaxOfInterval ==
  ASSUME NEW n \in Nat
  PROVE  Max(1 .. n + 1) = n + 1 /\ (1 .. n + 1) \ {n + 1} = 1 .. n /\ 1 .. n + 1 # {}
<1>1. n + 1 \in 1 .. n + 1 /\ \A y \in 1 .. n + 1 : n + 1 >= y
  OBVIOUS
<1>2. \A x \in 1 .. n + 1 : (\A y \in 1 .. n + 1 : x >= y) => x = n + 1
  <2> SUFFICES ASSUME NEW x \in 1 .. n + 1, \A y \in 1 .. n + 1 : x >= y PROVE x = n + 1
    OBVIOUS
  <2>1. x >= n + 1
    BY <1>1
  <2> QED
    BY <2>1
<1>3. Max(1 .. n + 1) = n + 1
  BY <1>1, <1>2 DEF Max
<1>4. (1 .. n + 1) \ {n + 1} = 1 .. n
  OBVIOUS
<1> QED
  BY <1>1, <1>3, <1>4

\* The fold exists: it is built transfer by transfer.
LEMMA ReplayExists ==
  ASSUME NEW leaves, NEW txs, NEW number, NEW n \in Nat
  PROVE  \E iter : IsReplay(iter, leaves, txs, number, 1 .. n)
<1> DEFINE T == {k \in Nat : \E g : IsReplay(g, leaves, txs, number, 1 .. k)}
<1>1. 0 \in T
  <2> DEFINE g == [s \in SUBSET (1 .. 0) |-> [ok |-> TRUE, leaves |-> leaves]]
  <2>1. \A s \in SUBSET (1 .. 0) : s = {}
    OBVIOUS
  <2>2. IsReplay(g, leaves, txs, number, 1 .. 0)
    BY <2>1 DEF IsReplay, ReplayStep
  <2> QED
    BY <2>2
<1>2. ASSUME NEW k \in Nat, k \in T PROVE k + 1 \in T
  <2>1. PICK g : IsReplay(g, leaves, txs, number, 1 .. k)
    BY <1>2
  <2> DEFINE h == [s \in SUBSET (1 .. k + 1) |->
                     IF k + 1 \in s THEN ReplayStep(g, leaves, txs, number, s) ELSE g[s]]
  <2>2. ASSUME NEW s \in SUBSET (1 .. k + 1)
        PROVE  h[s] = ReplayStep(h, leaves, txs, number, s)
    <3>1. h[s] = ReplayStep(g, leaves, txs, number, s)
      <4>1. CASE k + 1 \in s
        BY <4>1
      <4>2. CASE k + 1 \notin s
        <5>1. s \in SUBSET (1 .. k)
          BY <4>2, <1>2
        <5> QED
          BY <2>1, <4>2, <5>1 DEF IsReplay
      <4> QED
        BY <4>1, <4>2
    <3>2. s # {} => g[s \ {Max(s)}] = h[s \ {Max(s)}]
      <4> SUFFICES ASSUME s # {} PROVE g[s \ {Max(s)}] = h[s \ {Max(s)}]
        OBVIOUS
      <4>1. k + 1 \in s => Max(s) = k + 1
        <5> SUFFICES ASSUME k + 1 \in s PROVE Max(s) = k + 1
          OBVIOUS
        <5>1. \A y \in s : k + 1 >= y /\ y \in Int
          BY <1>2
        <5>2. \A x \in s : (\A y \in s : x >= y) => x = k + 1
          BY <5>1
        <5> QED
          BY <5>1, <5>2 DEF Max
      <4>2. k + 1 \notin s \ {Max(s)} /\ s \ {Max(s)} \in SUBSET (1 .. k + 1)
        BY <4>1
      <4> QED
        BY <4>2
    <3> HIDE DEF h
    <3> QED
      BY <3>1, <3>2 DEF ReplayStep
  <2>3. h = [s \in SUBSET (1 .. k + 1) |-> ReplayStep(h, leaves, txs, number, s)]
    BY <2>2
  <2> HIDE DEF h
  <2>4. IsReplay(h, leaves, txs, number, 1 .. k + 1)
    BY <2>3 DEF IsReplay
  <2> QED
    BY <2>4
<1> HIDE DEF T
<1>3. n \in T
  BY <1>1, <1>2, NatSetInduction
<1> QED
  BY <1>3 DEF T

LEMMA ReplayUnfolds ==
  ASSUME NEW leaves, NEW txs, NEW number, NEW n \in Nat, DOMAIN txs = 1 .. n
  PROVE  \E iter : /\ IsReplay(iter, leaves, txs, number, 1 .. n)
                   /\ Chain!Replay(leaves, txs, number) = iter[1 .. n]
<1> DEFINE chosen == CHOOSE iter : IsReplay(iter, leaves, txs, number, DOMAIN txs)
<1>1. Chain!Replay(leaves, txs, number) = chosen[DOMAIN txs]
  BY DEF Chain!Replay, Chain!FoldLeft, Chain!MapThenFoldSet, Chain!Max, Max, IsReplay, ReplayStep, 
  Chain!TransferValid, TransferValid, Chain!ApplyTransfer, ApplyTransfer, Chain!Leaf, Leaf,
       Chain!ExitId, ExitId, Chain!DefaultAccount, DefaultAccount
<1>2. \E iter : IsReplay(iter, leaves, txs, number, DOMAIN txs)
  BY ReplayExists
<1>3. IsReplay(chosen, leaves, txs, number, DOMAIN txs)
  BY <1>2
<1> HIDE DEF chosen
<1> QED
  BY <1>1, <1>3

\* Two replays of lists that begin alike agree on their common beginning.
LEMMA ReplaysAgree ==
  ASSUME NEW leaves, NEW number, NEW q, NEW p, NEW n \in Nat, NEW m \in Nat, n <= m,
         \A i \in 1 .. n : q[i] = p[i],
         NEW g, IsReplay(g, leaves, q, number, 1 .. n),
         NEW h, IsReplay(h, leaves, p, number, 1 .. m)
  PROVE  g[1 .. n] = h[1 .. n]
<1> DEFINE T == {j \in Nat : j <= n => g[1 .. j] = h[1 .. j]}
<1>1. \A j \in 0 .. n : /\ g[1 .. j] = ReplayStep(g, leaves, q, number, 1 .. j)
                        /\ h[1 .. j] = ReplayStep(h, leaves, p, number, 1 .. j)
  <2> SUFFICES ASSUME NEW j \in 0 .. n
               PROVE  /\ g[1 .. j] = ReplayStep(g, leaves, q, number, 1 .. j)
                      /\ h[1 .. j] = ReplayStep(h, leaves, p, number, 1 .. j)
    OBVIOUS
  <2>1. 1 .. j \in SUBSET (1 .. n) /\ 1 .. j \in SUBSET (1 .. m)
    OBVIOUS
  <2> QED
    BY <2>1 DEF IsReplay
<1>2. 0 \in T
  <2>1. 1 .. 0 = {} /\ 0 \in 0 .. n
    OBVIOUS
  <2> QED
    BY <1>1, <2>1 DEF ReplayStep
<1>3. ASSUME NEW j \in Nat, j \in T PROVE j + 1 \in T
  <2> SUFFICES ASSUME j + 1 <= n PROVE g[1 .. j + 1] = h[1 .. j + 1]
    BY <1>3 DEF T
  <2>1. g[1 .. j] = h[1 .. j]
    BY <1>3
  <2>2. q[j + 1] = p[j + 1] /\ j + 1 \in 0 .. n
    BY <1>3
  <2>3. ReplayStep(g, leaves, q, number, 1 .. j + 1) = ReplayStep(h, leaves, p, number, 1 .. j + 1)
    BY <1>3, <2>1, <2>2, MaxOfInterval DEF ReplayStep
  <2> QED
    BY <1>1, <2>2, <2>3
<1> HIDE DEF T
<1>4. n \in T
  BY <1>2, <1>3, NatSetInduction
<1> QED
  BY <1>4 DEF T

\* Replaying nothing, and one transfer more.
LEMMA ReplayNothing ==
  ASSUME NEW leaves, NEW number
  PROVE  Chain!Replay(leaves, <<>>, number) = [ok |-> TRUE, leaves |-> leaves]
<1>1. DOMAIN <<>> = 1 .. 0
  OBVIOUS
<1>2. PICK g : IsReplay(g, leaves, <<>>, number, 1 .. 0)
               /\ Chain!Replay(leaves, <<>>, number) = g[1 .. 0]
  BY <1>1, ReplayUnfolds
<1>3. 1 .. 0 = {}
  OBVIOUS
<1> QED
  BY <1>2, <1>3 DEF IsReplay, ReplayStep

LEMMA ReplayAppended ==
  ASSUME NEW leaves, NEW number, NEW q, NEW n \in Nat, DOMAIN q = 1 .. n,
         NEW p, DOMAIN p = 1 .. n + 1, \A i \in 1 .. n : p[i] = q[i]
  PROVE  Chain!Replay(leaves, p, number) =
           [ok     |-> Chain!Replay(leaves, q, number).ok
                       /\ TransferValid(Chain!Replay(leaves, q, number).leaves, p[n + 1], number),
            leaves |-> ApplyTransfer(Chain!Replay(leaves, q, number).leaves, p[n + 1])]
<1>1. PICK g : IsReplay(g, leaves, q, number, 1 .. n)
               /\ Chain!Replay(leaves, q, number) = g[1 .. n]
  BY ReplayUnfolds
<1>2. PICK h : IsReplay(h, leaves, p, number, 1 .. n + 1)
               /\ Chain!Replay(leaves, p, number) = h[1 .. n + 1]
  <2>1. n + 1 \in Nat
    OBVIOUS
  <2> QED
    BY <2>1, ReplayUnfolds
<1>3. g[1 .. n] = h[1 .. n]
  <2>1. n + 1 \in Nat /\ n <= n + 1
    OBVIOUS
  <2> QED
    BY <1>1, <1>2, <2>1, ReplaysAgree
<1>4. h[1 .. n + 1] = ReplayStep(h, leaves, p, number, 1 .. n + 1)
  BY <1>2 DEF IsReplay
<1> QED
  BY <1>1, <1>2, <1>3, <1>4, MaxOfInterval DEF ReplayStep


\* Since the last block the transfers of the open batch, each valid in its
\* turn, made the ledger what it is.
ChainInv ==
  /\ blockNumber = StartBlock + Len(commits)
  /\ Chain!Replay(LastRoot, transferQueue, blockNumber) = [ok |-> TRUE, leaves |-> Leaves(ledger)]

LEMMA AccountUpdated ==
  ASSUME NEW p \in Account, NEW q \in Account, NEW b \in Nat, NEW n \in Nat,
         q.balance = b, q.nonce = n, q.key = p.key
  PROVE  [p EXCEPT !.balance = b, !.nonce = n] = q
<1> DEFINE w == [p EXCEPT !.balance = b, !.nonce = n]
<1>1. w \in Account /\ w.balance = b /\ w.nonce = n /\ w.key = p.key
  BY DEF Account
<1>2. \A x, y \in Account :
        x.balance = y.balance /\ x.nonce = y.nonce /\ x.key = y.key => x = y
  BY DEF Account
<1> HIDE DEF w
<1>3. w = q
  BY <1>1, <1>2
<1> QED
  BY <1>3 DEF w

\* A padding transfer, on leaves that already paid for j of them.
LEMMA PaddingStep ==
  ASSUME TypeOK, CanPad, NEW j \in Nat, NEW nonce, nonce = Leaf(ledger, PaddingId).nonce,
         NEW l, l = [Leaves(ledger) EXCEPT ![PaddingId].nonce = @ + j],
         NEW m, m = [Leaves(ledger) EXCEPT ![PaddingId].nonce = @ + (j + 1)]
  PROVE  /\ TransferValid(l, PaddingTx(nonce + j), blockNumber)
         /\ ApplyTransfer(l, PaddingTx(nonce + j)) = m
<1>1. PICK base \in LeafMaps : base = Leaves(ledger)
  BY LeavesType DEF TypeOK
<1>2. PaddingId \in AccountId /\ ExitId \in AccountId /\ PaddingId # ExitId
  BY KeeperConstants, LedgerConstants
<1>3. base[PaddingId] = Leaf(ledger, PaddingId) /\ base[PaddingId] \in Account
      /\ base[PaddingId] = ledger[PaddingId]
  BY <1>1, <1>2 DEF LeafMaps, Leaves, Leaf, CanPad, TransferValid, PaddingTx
<1>4. /\ base[PaddingId].key = PaddingKey /\ PaddingKey # NoKey /\ FarBlock >= blockNumber
      /\ nonce = base[PaddingId].nonce /\ nonce \in Nat /\ base[PaddingId].balance \in Nat
  BY <1>3 DEF CanPad, TransferValid, PaddingTx, Account
<1>5. /\ l \in LeafMaps /\ m \in LeafMaps
      /\ l[PaddingId] = [base[PaddingId] EXCEPT !.nonce = @ + j]
      /\ m[PaddingId] = [base[PaddingId] EXCEPT !.nonce = @ + (j + 1)]
      /\ \A id \in AccountId \ {PaddingId} : l[id] = base[id] /\ m[id] = base[id]
  <2>1. /\ [base[PaddingId] EXCEPT !.nonce = @ + j] \in Account
        /\ [base[PaddingId] EXCEPT !.nonce = @ + (j + 1)] \in Account
    BY <1>3 DEF Account
  <2> QED
    BY <1>1, <1>2, <2>1 DEF LeafMaps
<1>6. l[PaddingId].nonce = nonce + j /\ m[PaddingId].nonce = (nonce + j) + 1
      /\ l[PaddingId].balance = base[PaddingId].balance /\ l[PaddingId].key = PaddingKey
      /\ l[PaddingId] \in Account /\ m[PaddingId] \in Account
  BY <1>2, <1>3, <1>4, <1>5 DEF Account, LeafMaps
<1>7. TransferValid(l, PaddingTx(nonce + j), blockNumber)
  <2>1. l[PaddingId] # Absent
    BY <1>6, AbsentIsNoAccount
  <2>2. l[PaddingId].balance >= 0 + 0
    BY <1>4, <1>6
  <2> QED
    BY <1>4, <1>6, <2>1, <2>2 DEF TransferValid, PaddingTx
<1>8. ApplyTransfer(l, PaddingTx(nonce + j)) = m
  <2>1. Leaf(l, ExitId) = l[ExitId]
    BY <1>2, <1>5, AbsentIsNoAccount DEF Leaf, LeafMaps
  <2>2. [l[PaddingId] EXCEPT !.balance = @ - (0 + 0), !.nonce = @ + 1] = m[PaddingId]
    <3>1. PICK lp, mp : lp = l[PaddingId] /\ mp = m[PaddingId]
      OBVIOUS
    <3>2. lp \in Account /\ mp \in Account
      BY <1>6, <3>1
    <3>3. PICK b, n : b = lp.balance - (0 + 0) /\ n = lp.nonce + 1
      OBVIOUS
    <3>4. b \in Nat /\ n \in Nat /\ mp.balance = b /\ mp.nonce = n /\ mp.key = lp.key
      <4>1. lp.balance \in Nat /\ lp.nonce \in Nat
        BY <3>2 DEF Account
      <4>2. mp.balance = lp.balance /\ mp.key = lp.key
        BY <1>3, <1>5, <3>1 DEF Account
      <4>3. lp.nonce = nonce + j /\ mp.nonce = (nonce + j) + 1
        BY <1>6, <3>1
      <4> QED
        BY <3>3, <4>1, <4>2, <4>3
    <3>5. [lp EXCEPT !.balance = @ - (0 + 0), !.nonce = @ + 1] = [lp EXCEPT !.balance = b, !.nonce = n]
      BY <3>3
    <3>6. [lp EXCEPT !.balance = b, !.nonce = n] = mp
      BY <3>2, <3>4, AccountUpdated
    <3>7. [lp EXCEPT !.balance = @ - (0 + 0), !.nonce = @ + 1] = mp
      BY <3>5, <3>6
    <3> QED
      BY <3>1, <3>7
  <2>3. ApplyTransfer(l, PaddingTx(nonce + j)) =
          [l EXCEPT ![ExitId] = l[ExitId], ![PaddingId] = m[PaddingId]]
    BY <2>1, <2>2 DEF ApplyTransfer, PaddingTx
  <2> QED
    BY <1>2, <1>5, <2>3 DEF LeafMaps
<1> QED
  BY <1>7, <1>8

\* A padded batch replays to the padded ledger.
LEMMA PaddingReplays ==
  ASSUME TypeOK, Len(transferQueue) <= BatchSize, CanPad, ChainInv
  PROVE  Chain!Replay(LastRoot, transferQueue \o Padding, blockNumber)
           = [ok |-> TRUE, leaves |-> Leaves(PaddedLedger)]
<1>1. PICK q : q = transferQueue
  OBVIOUS
<1>2. PICK n \in Nat : n = Len(q) /\ DOMAIN q = 1 .. n /\ q \in Seq(TransferTx)
  BY <1>1 DEF TypeOK
<1>3. PICK nonce : nonce = Leaf(ledger, PaddingId).nonce
  OBVIOUS
<1>4. PICK root, number : root = LastRoot /\ number = blockNumber
  OBVIOUS
<1>5. PICK base : base = Leaves(ledger) /\ base \in LeafMaps
  BY LeavesType DEF TypeOK
<1> DEFINE P(j) == [i \in 1 .. n + j |-> IF i <= n THEN q[i]
                                         ELSE PaddingTx(nonce + (i - n) - 1)]
           L(j) == [base EXCEPT ![PaddingId].nonce = @ + j]
           T == {j \in Nat : Chain!Replay(root, P(j), number) = [ok |-> TRUE, leaves |-> L(j)]}
<1>6. nonce \in Nat /\ base[PaddingId] \in Account /\ PaddingId \in AccountId
      /\ base[PaddingId].nonce = nonce
  BY <1>3, <1>5, KeeperConstants, LeafType DEF TypeOK, LeafMaps, Account, Leaves
<1>7. 0 \in T
  <2>1. P(0) = q
    <3>1. /\ DOMAIN P(0) = 1 .. n /\ \A i \in 1 .. n : P(0)[i] = q[i]
      OBVIOUS
    <3>2. q = [i \in 1 .. n |-> q[i]]
      BY <1>2
    <3> QED
      BY <3>2
  <2>2. L(0) = base
    BY <1>5, <1>6 DEF LeafMaps, Account
  <2> QED
    BY <1>1, <1>4, <1>5, <2>1, <2>2 DEF ChainInv
<1>8. ASSUME NEW j \in Nat, j \in T PROVE j + 1 \in T
  <2>1. /\ DOMAIN P(j) = 1 .. n + j /\ DOMAIN P(j + 1) = 1 .. (n + j) + 1 /\ n + j \in Nat
        /\ \A i \in 1 .. n + j : P(j + 1)[i] = P(j)[i]
    BY <1>8
  <2>2. P(j + 1)[(n + j) + 1] = PaddingTx(nonce + j)
    <3>1. (n + j) + 1 \in 1 .. n + (j + 1) /\ ~((n + j) + 1 <= n)
          /\ nonce + (((n + j) + 1) - n) - 1 = nonce + j
      BY <1>6, <1>8
    <3>2. P(j + 1)[(n + j) + 1] = PaddingTx(nonce + (((n + j) + 1) - n) - 1)
      BY <3>1
    <3> QED
      BY <3>1, <3>2
  <2>3. /\ Chain!Replay(root, P(j), number).ok = TRUE
        /\ Chain!Replay(root, P(j), number).leaves = L(j)
    <3>1. Chain!Replay(root, P(j), number) = [ok |-> TRUE, leaves |-> L(j)]
      BY <1>8
    <3> HIDE DEF P, L
    <3> QED
      BY <3>1
  <2>4. /\ TransferValid(L(j), PaddingTx(nonce + j), number)
        /\ ApplyTransfer(L(j), PaddingTx(nonce + j)) = L(j + 1)
    BY <1>3, <1>4, <1>5, PaddingStep
  <2>5. PICK p, p1 : p = P(j) /\ p1 = P(j + 1)
    OBVIOUS
  <2>a. PICK nj \in Nat : nj = n + j
    BY <2>1
  <2> HIDE DEF P, L
  <2>b. DOMAIN p = 1 .. nj /\ DOMAIN p1 = 1 .. nj + 1 /\ \A i \in 1 .. nj : p1[i] = p[i]
    BY <2>1, <2>5, <2>a
  <2>6. Chain!Replay(root, p1, number) =
          [ok     |-> Chain!Replay(root, p, number).ok
                      /\ TransferValid(Chain!Replay(root, p, number).leaves, p1[nj + 1], number),
           leaves |-> ApplyTransfer(Chain!Replay(root, p, number).leaves, p1[nj + 1])]
    BY <2>b, ReplayAppended
  <2>7. Chain!Replay(root, p1, number) = [ok |-> TRUE, leaves |-> L(j + 1)]
    BY <2>2, <2>3, <2>4, <2>5, <2>6, <2>a
  <2> QED
    BY <2>5, <2>7
<1> HIDE DEF T
<1>9. PICK k \in Nat : k = ToPad
  BY PaddingType
<1>10. k \in T
  BY <1>7, <1>8, NatSetInduction
<1>11. P(k) = transferQueue \o Padding
  <2>1. Padding \in Seq(TransferTx) /\ Len(Padding) = k
        /\ \A i \in 1 .. k : Padding[i] = PaddingTx(nonce + i - 1)
    BY <1>3, <1>9, PaddingType DEF Padding
  <2>2. PICK pad : pad = Padding
    OBVIOUS
  <2>3. PICK c : c = q \o pad
    OBVIOUS
  <2>4. /\ c \in Seq(TransferTx) /\ Len(c) = n + k
        /\ \A i \in 1 .. n + k : c[i] = IF i <= n THEN q[i] ELSE pad[i - n]
    BY <1>2, <2>1, <2>2, <2>3, ConcatProperties
  <2>5. \A i \in 1 .. n + k : c[i] = IF i <= n THEN q[i] ELSE PaddingTx(nonce + (i - n) - 1)
    <3> SUFFICES ASSUME NEW i \in 1 .. n + k, ~(i <= n)
                 PROVE  pad[i - n] = PaddingTx(nonce + (i - n) - 1)
      BY <2>4
    <3>1. i - n \in 1 .. k
      OBVIOUS
    <3> QED
      BY <2>1, <2>2, <3>1
  <2>6. c = [i \in 1 .. n + k |-> c[i]]
    BY <2>4
  <2> QED
    BY <1>1, <2>2, <2>3, <2>5, <2>6
<1>12. L(k) = Leaves(PaddedLedger)
  <2>1. ledger \in Ledgers /\ PaddingId \in AccountId /\ ExitId \in AccountId
        /\ PaddingId # ExitId /\ ledger[PaddingId] \in Account
    BY KeeperConstants, LedgerConstants DEF TypeOK, CanPad, TransferValid, PaddingTx, Ledgers
  <2>2. PaddedLedger \in Ledgers
    BY PaddedLedgerType
  <2>3. PaddedLedger[PaddingId] = [ledger[PaddingId] EXCEPT !.nonce = @ + k]
    BY <1>9, <2>1 DEF PaddedLedger, Ledgers
  <2>4. PaddedLedger[PaddingId] \in Account
    BY <2>1, <2>3 DEF Account
  <2>5. Leaf(PaddedLedger, PaddingId) = [base[PaddingId] EXCEPT !.nonce = @ + k]
    BY <1>5, <2>1, <2>3, <2>4, AbsentIsNoAccount DEF Leaf, Leaves
  <2>6. \A id \in AccountId \ {PaddingId} : Leaf(PaddedLedger, id) = base[id]
    <3>1. PaddedLedger[ExitId] = Leaf(ledger, ExitId) /\ Leaf(ledger, ExitId) # Absent
      BY <2>1, LeafType, AbsentIsNoAccount DEF PaddedLedger, Ledgers
    <3>2. \A id \in AccountId \ {PaddingId, ExitId} : PaddedLedger[id] = ledger[id]
      BY <2>1 DEF PaddedLedger, Ledgers
    <3> QED
      BY <1>5, <3>1, <3>2 DEF Leaf, Leaves
  <2> QED
    BY <1>5, <1>6, <2>5, <2>6 DEF Leaves, LeafMaps
<1> HIDE DEF P, L
<1> QED
  BY <1>4, <1>10, <1>11, <1>12 DEF T

LEMMA RootIsLast ==
  ASSUME TypeOK
  PROVE  Chain!Root(commits) = LastRoot
<1>1. commits \in Seq(CommitRequests) /\ Len(commits) \in Nat
  BY DEF TypeOK
<1>2. CASE commits = <<>>
  BY <1>2, EmptySeq, SameLedger DEF Chain!Root, LastRoot, RootBefore
<1>3. CASE commits # <<>>
  BY <1>1, <1>3 DEF Chain!Root, Chain!Last, LastRoot, RootBefore
<1> QED
  BY <1>2, <1>3

\* A request sent that is a block on the last root extends the chain.
LEMMA SendExtends ==
  ASSUME TypeOK, UpdatesYieldRoot', blockNumber = StartBlock + Len(commits), NEW r,
         commits' = Append(commits, r), r.number = blockNumber,
         \/ Chain!TransferBlockOn(LastRoot, r)
         \/ Chain!DepositBlockOn(LastRoot, r)
         \/ Chain!ExitBlockOn(LastRoot, r)
  PROVE  Chain!Extend
<1>1. PICK n \in Nat : n = Len(commits)
  BY DEF TypeOK
<1>2. /\ commits \in Seq(CommitRequests)
      /\ Len(commits') = n + 1 /\ DOMAIN commits' = 1 .. n + 1
      /\ commits'[n + 1] = r /\ \A i \in 1 .. n : commits'[i] = commits[i]
  BY <1>1 DEF TypeOK
<1>3. Chain!IsPrefix(commits, commits')
  <2>1. SubSeq(commits, 1, n) = SubSeq(commits', 1, n)
    <3>1. /\ SubSeq(commits, 1, n) = [i \in 1 .. n |-> commits[i]]
          /\ SubSeq(commits', 1, n) = [i \in 1 .. n |-> commits'[i]]
      BY <1>1, <1>2
    <3> QED
      BY <1>2, <3>1
  <2> QED
    BY <1>1, <1>2, <2>1 DEF Chain!IsPrefix
<1>4. Chain!Last(commits') = r
  BY <1>2 DEF Chain!Last
<1>5. r.root = Overwritten(LastRoot, r.updated)
  <2>1. commits'[n + 1].root = Overwritten(RootBefore(n + 1)', commits'[n + 1].updated)
    BY <1>1, <1>2 DEF UpdatesYieldRoot
  <2>2. RootBefore(n + 1)' = LastRoot
    BY <1>1, <1>2 DEF RootBefore, LastRoot
  <2> QED
    BY <1>2, <2>1, <2>2
<1>6. Chain!BlockOn(Chain!Root(commits), r)
  BY <1>5, RootIsLast, SameLedger DEF Chain!BlockOn
<1>7. Len(commits') = Len(commits) + 1 /\ r.number = StartBlock + Len(commits)
  BY <1>1, <1>2
<1> QED
  BY <1>3, <1>4, <1>6, <1>7 DEF Chain!Extend


LEMMA LastRootSent ==
  ASSUME TypeOK, NEW r, commits' = Append(commits, r)
  PROVE  LastRoot' = r.root
<1>1. PICK n \in Nat : n = Len(commits)
  BY DEF TypeOK
<1>2. Len(commits') = n + 1 /\ commits'[n + 1] = r
  BY <1>1 DEF TypeOK
<1> QED
  BY <1>1, <1>2 DEF LastRoot, RootBefore

\* After a request was sent with an empty batch, nothing is to be replayed.
LEMMA ChainAfterSend ==
  ASSUME TypeOK, ChainInv, NEW r, commits' = Append(commits, r), blockNumber' = blockNumber + 1,
         transferQueue' = <<>>, LastRoot' = Leaves(ledger')
  PROVE  ChainInv'
<1>1. blockNumber' = StartBlock + Len(commits')
  <2>1. Len(commits') = Len(commits) + 1 /\ Len(commits) \in Nat
    BY DEF TypeOK
  <2> QED
    BY <2>1, KeeperConstants DEF ChainInv
<1>2. PICK root, number : root = LastRoot' /\ number = blockNumber'
  OBVIOUS
<1>3. Chain!Replay(root, <<>>, number) = [ok |-> TRUE, leaves |-> root]
  BY ReplayNothing
<1> QED
  BY <1>1, <1>2, <1>3 DEF ChainInv

LEMMA ChainNext ==
  KeeperInv /\ UpdatesInv /\ ChainInv /\ [Next]_vars => ChainInv' /\ [Chain!Extend]_commits
<1> SUFFICES ASSUME KeeperInv, UpdatesInv, ChainInv, [Next]_vars
             PROVE  ChainInv' /\ [Chain!Extend]_commits
  OBVIOUS
<1>t. /\ TypeOK /\ ledger \in Ledgers /\ transferQueue \in Seq(TransferTx)
      /\ UpdatesYieldRoot
      /\ blockNumber = StartBlock + Len(commits)
      /\ Chain!Replay(LastRoot, transferQueue, blockNumber)
           = [ok |-> TRUE, leaves |-> Leaves(ledger)]
  BY DEF KeeperInv, TypeOK, UpdatesInv, ChainInv
<1>u. UpdatesYieldRoot'
  BY UpdatesInvNext DEF UpdatesInv
<1>1. CASE UNCHANGED <<ledger, transferQueue, commits, blockNumber>>
  <2>1. LastRoot' = LastRoot
    BY <1>1 DEF LastRoot, RootBefore
  <2> QED
    BY <1>1, <1>t, <2>1 DEF ChainInv
<1>2. CASE \E tx \in Transfers : AcceptTransfer(tx)
  <2> PICK tx \in Transfers : AcceptTransfer(tx)
    BY <1>2
  <2>1. tx \in TransferTx
    BY KeeperConstants
  <2>2. /\ TransferValid(ledger, tx, blockNumber)
        /\ ledger' = ApplyTransfer(ledger, tx) /\ transferQueue' = Append(transferQueue, tx)
        /\ commits' = commits /\ blockNumber' = blockNumber
    BY DEF AcceptTransfer
  <2>3. LastRoot' = LastRoot
    BY <2>2 DEF LastRoot, RootBefore
  <2>4. /\ TransferValid(Leaves(ledger), tx, blockNumber)
        /\ ApplyTransfer(Leaves(ledger), tx) = Leaves(ledger')
    BY <1>t, <2>1, <2>2, LeavesOfTransfer
  <2>n. PICK n \in Nat : n = Len(transferQueue)
    BY <1>t
  <2>5. PICK q, p, root, number :
          q = transferQueue /\ p = transferQueue' /\ root = LastRoot /\ number = blockNumber
    OBVIOUS
  <2>6. DOMAIN q = 1 .. n /\ DOMAIN p = 1 .. n + 1 /\ p[n + 1] = tx
        /\ \A i \in 1 .. n : p[i] = q[i]
    BY <1>t, <2>2, <2>5, <2>n
  <2>7. Chain!Replay(root, p, number) =
          [ok     |-> Chain!Replay(root, q, number).ok
                      /\ TransferValid(Chain!Replay(root, q, number).leaves, tx, number),
           leaves |-> ApplyTransfer(Chain!Replay(root, q, number).leaves, tx)]
    BY <2>6, ReplayAppended
  <2>8. PICK leaves : leaves = Leaves(ledger)
    OBVIOUS
  <2>9. Chain!Replay(root, q, number).ok = TRUE /\ Chain!Replay(root, q, number).leaves = leaves
    BY <1>t, <2>5, <2>8
  <2>10. Chain!Replay(root, p, number) = [ok |-> TRUE, leaves |-> Leaves(ledger')]
    BY <2>4, <2>5, <2>7, <2>8, <2>9
  <2>11. ChainInv'
    BY <1>t, <2>2, <2>3, <2>5, <2>10 DEF ChainInv
  <2> QED
    BY <2>2, <2>11
<1>3. CASE FinalizeBatch
  <2>1. Len(transferQueue) <= BatchSize /\ CanPad
    BY <1>3 DEF FinalizeBatch, KeeperInv, DrainInv
  <2>2. ledger' = PaddedLedger /\ transferQueue' = transferQueue \o Padding
        /\ commits' = commits /\ blockNumber' = blockNumber
    BY <1>3 DEF FinalizeBatch
  <2>3. LastRoot' = LastRoot
    BY <2>2 DEF LastRoot, RootBefore
  <2>4. Chain!Replay(LastRoot, transferQueue', blockNumber) = [ok |-> TRUE, leaves |-> Leaves(ledger')]
    BY <1>t, <2>1, <2>2, PaddingReplays
  <2> QED
    BY <1>t, <2>2, <2>3, <2>4 DEF ChainInv
<1>4. CASE CreateTransferBlock
  <2> DEFINE r == CommitRequest("transfer", transferQueue, ledger, Touched(transferQueue))
  <2>1. /\ commits' = Append(commits, r) /\ blockNumber' = blockNumber + 1
        /\ ledger' = ledger /\ transferQueue' = <<>>
    BY <1>4 DEF CreateTransferBlock, Send
  <2>3. /\ r.number = blockNumber /\ r.kind = "transfer" /\ r.txs = transferQueue
        /\ r.root = Leaves(ledger)
    BY DEF CommitRequest, CommittedBlock
  <2> HIDE DEF r
  <2>2. LastRoot' = Leaves(ledger')
    BY <1>t, <2>1, <2>3, LastRootSent
  <2>4. Len(transferQueue) = BatchSize
    <3>1. status \in {"draining", "finalizing"} /\ draining # <<>> /\ Head(draining).kind = "transfer"
      BY <1>4 DEF CreateTransferBlock, Draining
    <3>2. draining \notin Seq(Requested)
      <4> SUFFICES ASSUME draining \in Seq(Requested) PROVE FALSE
        OBVIOUS
      <4>1. Head(draining) \in Requested
        BY <3>1, HeadTailProperties
      <4>2. Head(draining).kind # "transfer"
        BY <4>1 DEF Requested, DepositProto, ExitProto
      <4> QED
        BY <3>1, <4>2
    <3> QED
      BY <3>1, <3>2 DEF KeeperInv, DrainInv
  <2>5. Chain!TransferBlockOn(LastRoot, r)
    BY <1>t, <2>3, <2>4 DEF Chain!TransferBlockOn
  <2>6. ChainInv'
    BY <1>t, <2>1, <2>2, ChainAfterSend
  <2>7. Chain!Extend
    BY <1>t, <1>u, <2>1, <2>3, <2>5, SendExtends
  <2> QED
    BY <2>6, <2>7
<1>r. ASSUME transferQueue = <<>> PROVE LastRoot = Leaves(ledger)
  <2>1. PICK root, number : root = LastRoot /\ number = blockNumber
    OBVIOUS
  <2>2. Chain!Replay(root, <<>>, number) = [ok |-> TRUE, leaves |-> root]
    BY ReplayNothing
  <2>3. Chain!Replay(root, <<>>, number) = [ok |-> TRUE, leaves |-> Leaves(ledger)]
    BY <1>t, <1>r, <2>1
  <2>4. Chain!Replay(root, <<>>, number).leaves = root
    BY <2>2
  <2>5. Chain!Replay(root, <<>>, number).leaves = Leaves(ledger)
    BY <2>3
  <2> QED
    BY <2>1, <2>4, <2>5
<1>5. CASE CreateDepositBlock
  <2> DEFINE tx == Head(draining).tx
  <2>1. transferQueue = <<>> /\ Head(draining) \in Requested
        /\ Head(draining).kind = "deposit"
    BY <1>5, NoBatchBehindRequest DEF CreateDepositBlock, Draining
  <2>2. tx \in DepositTx
    BY <2>1, KeeperConstants DEF Requested, DepositProto, ExitProto
  <2> DEFINE r == CommitRequest("deposit", <<tx>>, ledger', {tx.account})
  <2> HIDE DEF tx
  <2>3. CASE InTree(tx.account)
    <3>1. /\ ledger' = ApplyDeposit(ledger, tx) /\ commits' = Append(commits, r)
          /\ transferQueue' = transferQueue /\ blockNumber' = blockNumber + 1
      BY <1>5, <2>3 DEF CreateDepositBlock, Send, tx
    <3>2. /\ r.number = blockNumber /\ r.kind = "deposit" /\ r.txs = <<tx>>
          /\ r.root = Leaves(ledger')
      BY DEF CommitRequest, CommittedBlock
    <3>3. LastRoot = Leaves(ledger)
      BY <1>r, <2>1
    <3> HIDE DEF r
    <3>4. LastRoot' = Leaves(ledger')
      <4>1. PICK rr : rr = r
        OBVIOUS
      <4> QED
        BY <1>t, <3>1, <3>2, <4>1, LastRootSent
    <3>5. r.root = ApplyDeposit(LastRoot, tx)
      BY <1>t, <2>2, <3>1, <3>2, <3>3, LeavesOfDeposit
    <3>6. Chain!DepositBlockOn(LastRoot, r)
      <4>1. Len(<<tx>>) = 1 /\ <<tx>>[1] = tx
        OBVIOUS
      <4> QED
        BY <3>2, <3>5, <4>1, SameLedger DEF Chain!DepositBlockOn
    <3>7. PICK rr : rr = r
      OBVIOUS
    <3>8. ChainInv'
      BY <1>t, <2>1, <3>1, <3>4, <3>7, ChainAfterSend
    <3>9. Chain!Extend
      BY <1>t, <1>u, <3>1, <3>2, <3>6, <3>7, SendExtends
    <3> QED
      BY <3>8, <3>9
  <2>4. CASE ~InTree(tx.account)
    BY <1>1, <1>5, <2>4 DEF CreateDepositBlock, tx
  <2> QED
    BY <2>3, <2>4
<1>6. CASE CreateExitBlock
  <2> DEFINE id == Head(draining).account
             exit == [account |-> id, amount |-> ledger[id].balance]
             r == CommitRequest("exit", <<exit>>, ledger', {id})
  <2>1. transferQueue = <<>> /\ Head(draining) \in Requested
        /\ Head(draining).kind = "exit"
    BY <1>6, NoBatchBehindRequest DEF CreateExitBlock, Draining
  <2>2. id \in AccountId
    BY <2>1, KeeperConstants DEF Requested, DepositProto, ExitProto
  <2> HIDE DEF id
  <2>3. CASE ExitValid(ledger, id)
    <3>1. /\ ledger' = ApplyExit(ledger, id) /\ commits' = Append(commits, r)
          /\ transferQueue' = transferQueue /\ blockNumber' = blockNumber + 1
      BY <1>6, <2>3 DEF CreateExitBlock, Send, id
    <3>2. /\ r.number = blockNumber /\ r.kind = "exit" /\ r.txs = <<exit>>
          /\ r.root = Leaves(ledger')
      BY DEF CommitRequest, CommittedBlock
    <3>3. LastRoot = Leaves(ledger)
      BY <1>r, <2>1
    <3> HIDE DEF r
    <3>4. LastRoot' = Leaves(ledger')
      <4>1. PICK rr : rr = r
        OBVIOUS
      <4> QED
        BY <1>t, <3>1, <3>2, <4>1, LastRootSent
    <3>5. exit.account = id /\ exit.amount = ledger[id].balance
      OBVIOUS
    <3>6. r.root = ApplyExit(LastRoot, id)
      BY <1>t, <2>2, <3>1, <3>2, <3>3, LeavesOfExit
    <3>7. LastRoot[id].balance = ledger[id].balance
      BY <2>2, <2>3, <3>3 DEF ExitValid, Leaves, Leaf
    <3> HIDE DEF exit
    <3>8. Chain!ExitBlockOn(LastRoot, r)
      <4>1. Len(<<exit>>) = 1 /\ <<exit>>[1] = exit
        OBVIOUS
      <4> QED
        BY <3>2, <3>5, <3>6, <3>7, <4>1, SameLedger DEF Chain!ExitBlockOn
    <3>9. PICK rr : rr = r
      OBVIOUS
    <3>10. ChainInv'
      BY <1>t, <2>1, <3>1, <3>4, <3>9, ChainAfterSend
    <3>11. Chain!Extend
      BY <1>t, <1>u, <3>1, <3>2, <3>8, <3>9, SendExtends
    <3> QED
      BY <3>10, <3>11
  <2>4. CASE ~ExitValid(ledger, id)
    BY <1>1, <1>6, <2>4 DEF CreateExitBlock, id
  <2> QED
    BY <2>3, <2>4
<1> QED
  BY <1>1, <1>2, <1>3, <1>4, <1>5, <1>6
  DEF Next, Request, TimerTick, ProcessBlockQueue, RejectTransfer, TransferOutsideTree,
      AddBlock, FailPadding, EndDraining, PassTime, vars

\* The blocks sent to the committer are a serial history of the ledger: each
\* is numbered after the one before and, replayed on its root, gives its own.
THEOREM ImplementsTheChain == Spec => ImplementsChain
<1>1. Init => ChainInv /\ Chain!Init
  <2> SUFFICES ASSUME Init PROVE ChainInv /\ Chain!Init
    OBVIOUS
  <2>1. /\ commits = <<>> /\ ledger = StartLedger /\ transferQueue = <<>>
        /\ blockNumber = StartBlock /\ Len(commits) = 0
    BY DEF Init
  <2>2. LastRoot = Leaves(StartLedger)
    BY <2>1 DEF LastRoot, RootBefore
  <2>3. blockNumber = StartBlock + Len(commits)
    BY <2>1, KeeperConstants
  <2> QED
    BY <2>1, <2>2, <2>3, ReplayNothing DEF ChainInv, Chain!Init
<1>2. Init => UpdatesInv
  BY UpdatesInvInit
<1> QED
  BY <1>1, <1>2, KeeperInvariant, UpdatesInvNext, ChainNext, PTL
  DEF Spec, ImplementsChain, Chain!Spec

----------------------------------------------------------------------------
\* Nonces are used once

\* The account of transfer tx has used its nonce up.
UsedUp(tx) == tx.nonce < Leaf(ledger, tx.from).nonce

ResetSince(i, id) == \E k \in DOMAIN commits : i < k /\ Resets(commits[k], id)

SentTransfers ==
  \A i \in DOMAIN commits : commits[i].kind = "transfer" => commits[i].txs \in Seq(TransferTx)

\* What was sent has used its nonce up, unless its account was reset since;
\* so has the open batch, and no two transfers of it share a nonce.
SentUsedUp ==
  \A i \in DOMAIN commits : commits[i].kind = "transfer" =>
    \A a \in DOMAIN commits[i].txs :
      ResetSince(i, commits[i].txs[a].from) \/ UsedUp(commits[i].txs[a])

BatchUsedUp == \A a \in DOMAIN transferQueue : UsedUp(transferQueue[a])

BatchDistinct ==
  \A a, b \in DOMAIN transferQueue : a < b => ~SameNonce(transferQueue[a], transferQueue[b])

BatchAfterSent ==
  \A i \in DOMAIN commits : commits[i].kind = "transfer" =>
    \A a \in DOMAIN commits[i].txs, b \in DOMAIN transferQueue :
      SameNonce(commits[i].txs[a], transferQueue[b]) => ResetSince(i, commits[i].txs[a].from)

NonceInv ==
  /\ NonceReuseNeedsReset
  /\ SentTransfers
  /\ SentUsedUp
  /\ BatchUsedUp
  /\ BatchDistinct
  /\ BatchAfterSent

NonceOf(l, id) == Leaf(l, id).nonce

\* The batch grows by transfers that use nonces no smaller than their
\* accounts', which they use up, in increasing order.
LEMMA NonceBatchGrows ==
  ASSUME TypeOK, NonceInv, TypeOK', NEW n \in Nat, NEW m \in Nat, commits' = commits,
         DOMAIN transferQueue = 1 .. n, DOMAIN transferQueue' = 1 .. m, n <= m,
         \A a \in 1 .. n : transferQueue'[a] = transferQueue[a],
         \A id \in AccountId : Leaf(ledger, id).nonce <= Leaf(ledger', id).nonce,
         \A b \in n + 1 .. m : /\ transferQueue'[b].nonce >= Leaf(ledger, transferQueue'[b].from).nonce
                               /\ transferQueue'[b].nonce < Leaf(ledger', transferQueue'[b].from).nonce,
         \A a, b \in n + 1 .. m : a < b => transferQueue'[a].nonce < transferQueue'[b].nonce
  PROVE  NonceInv'
<1>1. PICK l, m1, q, p, c : l = ledger /\ m1 = ledger' /\ q = transferQueue /\ p = transferQueue' /\ c = commits
  OBVIOUS
<1>2. /\ \A a \in 1 .. m : p[a] \in TransferTx
      /\ \A id \in AccountId : Leaf(l, id).nonce \in Nat /\ Leaf(m1, id).nonce \in Nat
                               /\ Leaf(l, id).nonce <= Leaf(m1, id).nonce
  <2>1. \A a \in 1 .. m : p[a] \in TransferTx
    BY <1>1 DEF TypeOK
  <2>2. \A id \in AccountId : Leaf(l, id) \in Account /\ Leaf(m1, id) \in Account
    BY <1>1, LeafType DEF TypeOK
  <2> QED
    BY <1>1, <2>1, <2>2 DEF Account
<1>3. \A a \in 1 .. m : p[a].from \in AccountId /\ p[a].nonce \in Nat
  BY <1>2 DEF TransferTx
<1>4. NonceReuseNeedsReset' /\ SentTransfers' /\ \A i, id : ResetSince(i, id)' <=> ResetSince(i, id)
  BY DEF NonceInv, NonceReuseNeedsReset, SentTransfers, ResetSince
<1>5. SentUsedUp'
  <2> SUFFICES ASSUME NEW i \in DOMAIN commits, commits[i].kind = "transfer",
                      NEW a \in DOMAIN commits[i].txs, ~ResetSince(i, commits[i].txs[a].from)
               PROVE  UsedUp(commits[i].txs[a])'
    BY <1>4 DEF SentUsedUp
  <2>1. commits[i].txs \in Seq(TransferTx) /\ UsedUp(commits[i].txs[a])
    BY DEF NonceInv, SentTransfers, SentUsedUp
  <2>2. PICK tx \in TransferTx : tx = commits[i].txs[a]
    BY <2>1
  <2>3. tx.from \in AccountId /\ tx.nonce \in Nat
    BY DEF TransferTx
  <2>4. tx.nonce < Leaf(l, tx.from).nonce
    BY <1>1, <2>1, <2>2 DEF UsedUp
  <2>5. tx.nonce < Leaf(m1, tx.from).nonce
    BY <1>2, <2>3, <2>4
  <2> QED
    BY <1>1, <2>2, <2>5 DEF UsedUp
<1>6. \A a \in 1 .. n : p[a] = q[a] /\ p[a].nonce < Leaf(l, p[a].from).nonce
  BY <1>1 DEF NonceInv, BatchUsedUp, UsedUp
<1>7. \A b \in n + 1 .. m : /\ p[b].nonce >= Leaf(l, p[b].from).nonce
                            /\ p[b].nonce < Leaf(m1, p[b].from).nonce
  BY <1>1
<1>8. BatchUsedUp'
  <2> SUFFICES ASSUME NEW a \in 1 .. m PROVE p[a].nonce < Leaf(m1, p[a].from).nonce
    BY <1>1 DEF BatchUsedUp, UsedUp
  <2>1. CASE a <= n
    BY <1>2, <1>3, <1>6, <2>1
  <2>2. CASE ~(a <= n)
    BY <1>7, <2>2
  <2> QED
    BY <2>1, <2>2
<1>9. BatchDistinct'
  <2> SUFFICES ASSUME NEW a \in 1 .. m, NEW b \in 1 .. m, a < b, p[a].from = p[b].from
               PROVE  p[a].nonce # p[b].nonce
    BY <1>1 DEF BatchDistinct, SameNonce
  <2>1. CASE b <= n
    <3>1. a \in 1 .. n /\ b \in 1 .. n
      BY <2>1
    <3>2. ~SameNonce(q[a], q[b])
      BY <1>1, <3>1 DEF NonceInv, BatchDistinct
    <3> QED
      BY <1>6, <3>1, <3>2 DEF SameNonce
  <2>2. CASE a <= n /\ ~(b <= n)
    <3>1. a \in 1 .. n /\ b \in n + 1 .. m
      BY <2>2
    <3> QED
      BY <1>2, <1>3, <1>6, <1>7, <3>1
  <2>3. CASE ~(a <= n)
    <3>1. a \in n + 1 .. m /\ b \in n + 1 .. m
      BY <2>3
    <3>2. p[a].nonce < p[b].nonce
      BY <1>1, <3>1
    <3> QED
      BY <1>3, <3>2
  <2> QED
    BY <2>1, <2>2, <2>3
<1>10. BatchAfterSent'
  <2> SUFFICES ASSUME NEW i \in DOMAIN commits, commits[i].kind = "transfer",
                      NEW a \in DOMAIN commits[i].txs, NEW b \in 1 .. m,
                      SameNonce(commits[i].txs[a], p[b])
               PROVE  ResetSince(i, commits[i].txs[a].from)
    BY <1>1, <1>4 DEF BatchAfterSent
  <2>1. CASE b <= n
    <3>1. b \in DOMAIN transferQueue /\ p[b] = transferQueue[b]
      BY <1>1, <1>6, <2>1
    <3> QED
      BY <3>1 DEF NonceInv, BatchAfterSent
  <2>2. CASE ~(b <= n)
    <3>1. b \in n + 1 .. m
      BY <2>2
    <3>2. PICK tx : tx = commits[i].txs[a]
      OBVIOUS
    <3>3. tx.from = p[b].from /\ tx.nonce = p[b].nonce
      BY <3>2 DEF SameNonce
    <3>4. ~(tx.nonce < Leaf(l, tx.from).nonce)
      BY <1>2, <1>3, <1>7, <3>1, <3>3
    <3> QED
      BY <1>1, <3>2, <3>4 DEF NonceInv, SentUsedUp, UsedUp
  <2> QED
    BY <2>1, <2>2
<1> QED
  BY <1>4, <1>5, <1>8, <1>9, <1>10 DEF NonceInv

LEMMA CommitsAppended ==
  ASSUME TypeOK, NEW r, commits' = Append(commits, r)
  PROVE  \E n \in Nat : /\ DOMAIN commits = 1 .. n /\ DOMAIN commits' = 1 .. n + 1
                        /\ \A i \in 1 .. n : commits'[i] = commits[i]
                        /\ commits'[n + 1] = r
<1>1. PICK n \in Nat : n = Len(commits)
  BY DEF TypeOK
<1> QED
  BY <1>1 DEF TypeOK

LEMMA ResetSinceKept ==
  ASSUME TypeOK, NEW r, commits' = Append(commits, r), NEW i, NEW id, ResetSince(i, id)
  PROVE  ResetSince(i, id)'
<1>1. PICK n \in Nat : /\ DOMAIN commits = 1 .. n /\ DOMAIN commits' = 1 .. n + 1
                       /\ \A k \in 1 .. n : commits'[k] = commits[k]
  BY CommitsAppended
<1>2. PICK k \in DOMAIN commits : i < k /\ Resets(commits[k], id)
  BY DEF ResetSince
<1>3. k \in DOMAIN commits' /\ commits'[k] = commits[k]
  BY <1>1
<1> QED
  BY <1>2, <1>3 DEF ResetSince

\* The open batch is sent as a block.
LEMMA NonceBatchSent ==
  ASSUME TypeOK, NonceInv, NEW r, commits' = Append(commits, r),
         r.kind = "transfer", r.txs = transferQueue, transferQueue' = <<>>, ledger' = ledger
  PROVE  NonceInv'
<1>1. PICK n \in Nat : /\ DOMAIN commits = 1 .. n /\ DOMAIN commits' = 1 .. n + 1
                       /\ \A k \in 1 .. n : commits'[k] = commits[k]
                       /\ commits'[n + 1] = r
  BY CommitsAppended
<1>2. PICK c, d : c = commits /\ d = commits'
  OBVIOUS
<1>3. SentTransfers'
  <2> SUFFICES ASSUME NEW i \in 1 .. n + 1, d[i].kind = "transfer" PROVE d[i].txs \in Seq(TransferTx)
    BY <1>1, <1>2 DEF SentTransfers
  <2>1. CASE i = n + 1
    BY <1>1, <1>2, <2>1 DEF TypeOK
  <2>2. CASE i # n + 1
    <3>1. i \in 1 .. n
      BY <2>2
    <3> QED
      BY <1>1, <1>2, <3>1 DEF NonceInv, SentTransfers
  <2> QED
    BY <2>1, <2>2
<1>4. DOMAIN transferQueue' = {}
  BY EmptySeq
<1>5. BatchUsedUp' /\ BatchDistinct' /\ BatchAfterSent'
  BY <1>4 DEF BatchUsedUp, BatchDistinct, BatchAfterSent
<1>6. \A tx : UsedUp(tx)' <=> UsedUp(tx)
  BY DEF UsedUp
<1>7. SentUsedUp'
  <2> SUFFICES ASSUME NEW i \in 1 .. n + 1, d[i].kind = "transfer", NEW a \in DOMAIN d[i].txs
               PROVE  ResetSince(i, d[i].txs[a].from)' \/ UsedUp(d[i].txs[a])'
    BY <1>1, <1>2 DEF SentUsedUp
  <2>1. CASE i = n + 1
    <3>1. d[i].txs[a] = transferQueue[a] /\ a \in DOMAIN transferQueue
      BY <1>1, <1>2, <2>1
    <3>2. UsedUp(transferQueue[a])
      BY <3>1 DEF NonceInv, BatchUsedUp
    <3> QED
      BY <1>6, <3>1, <3>2
  <2>2. CASE i # n + 1
    <3>1. i \in 1 .. n /\ i \in DOMAIN commits
      BY <1>1, <2>2
    <3>2. d[i] = commits[i]
      BY <1>1, <1>2, <3>1
    <3>3. ResetSince(i, d[i].txs[a].from) \/ UsedUp(d[i].txs[a])
      BY <3>1, <3>2 DEF NonceInv, SentUsedUp
    <3> QED
      BY <1>6, <3>3, ResetSinceKept
  <2> QED
    BY <2>1, <2>2
<1>8. NonceReuseNeedsReset'
  <2> SUFFICES ASSUME NEW i \in 1 .. n + 1, NEW j \in 1 .. n + 1,
                      d[i].kind = "transfer", d[j].kind = "transfer",
                      NEW a \in DOMAIN d[i].txs, NEW b \in DOMAIN d[j].txs,
                      i < j \/ (i = j /\ a < b), SameNonce(d[i].txs[a], d[j].txs[b])
               PROVE  \E k \in i .. j : Resets(d[k], d[i].txs[a].from)
    BY <1>1, <1>2 DEF NonceReuseNeedsReset
  <2>1. CASE i # n + 1 /\ j # n + 1
    <3>1. i \in 1 .. n /\ j \in 1 .. n /\ d[i] = commits[i] /\ d[j] = commits[j]
      BY <1>1, <1>2, <2>1
    <3>2. PICK k \in i .. j : Resets(commits[k], commits[i].txs[a].from)
      BY <1>1, <3>1 DEF NonceInv, NonceReuseNeedsReset
    <3>3. d[k] = commits[k]
      BY <1>1, <1>2, <3>1
    <3> QED
      BY <3>1, <3>2, <3>3
  <2>2. CASE i # n + 1 /\ j = n + 1
    <3>1. i \in 1 .. n /\ i \in DOMAIN commits /\ d[i] = commits[i] /\ d[j].txs = transferQueue
      BY <1>1, <1>2, <2>2
    <3>2. ResetSince(i, commits[i].txs[a].from)
      BY <3>1 DEF NonceInv, BatchAfterSent
    <3>3. PICK k \in 1 .. n : i < k /\ Resets(commits[k], commits[i].txs[a].from)
      BY <1>1, <3>2 DEF ResetSince
    <3>4. k \in i .. j /\ d[k] = commits[k]
      BY <1>1, <1>2, <2>2, <3>3
    <3> QED
      BY <3>1, <3>3, <3>4
  <2>3. CASE i = n + 1
    <3>1. j = n + 1 /\ a < b
      BY <2>3
    <3>2. d[i].txs = transferQueue /\ d[j].txs = transferQueue
      BY <1>1, <1>2, <2>3, <3>1
    <3>3. ~SameNonce(transferQueue[a], transferQueue[b])
      BY <3>1, <3>2 DEF NonceInv, BatchDistinct
    <3> QED
      BY <3>2, <3>3
  <2> QED
    BY <2>1, <2>2, <2>3
<1> QED
  BY <1>3, <1>5, <1>7, <1>8 DEF NonceInv

\* A deposit or exit of one account is sent while no batch is open.
LEMMA NonceRequestSent ==
  ASSUME TypeOK, NonceInv, NEW r, commits' = Append(commits, r), NEW id0,
         r.kind \in {"deposit", "exit"}, r.txs[1].account = id0,
         transferQueue' = <<>>,
         \A id \in AccountId \ {id0} : Leaf(ledger', id).nonce = Leaf(ledger, id).nonce
  PROVE  NonceInv'
<1>1. PICK n \in Nat : /\ DOMAIN commits = 1 .. n /\ DOMAIN commits' = 1 .. n + 1
                       /\ \A k \in 1 .. n : commits'[k] = commits[k]
                       /\ commits'[n + 1] = r
  BY CommitsAppended
<1>2. PICK d : d = commits'
  OBVIOUS
<1>3. \A i \in 1 .. n + 1 : d[i].kind = "transfer" => i \in 1 .. n /\ i \in DOMAIN commits /\ d[i] = commits[i]
  <2> SUFFICES ASSUME NEW i \in 1 .. n + 1, d[i].kind = "transfer" PROVE i \in 1 .. n
    BY <1>1, <1>2
  <2>1. i # n + 1
    BY <1>1, <1>2
  <2> QED
    BY <2>1
<1>4. SentTransfers'
  BY <1>1, <1>2, <1>3 DEF NonceInv, SentTransfers
<1>5. DOMAIN transferQueue' = {}
  BY EmptySeq
<1>6. BatchUsedUp' /\ BatchDistinct' /\ BatchAfterSent'
  BY <1>5 DEF BatchUsedUp, BatchDistinct, BatchAfterSent
<1>7. SentUsedUp'
  <2> SUFFICES ASSUME NEW i \in 1 .. n, d[i].kind = "transfer", d[i] = commits[i], NEW a \in DOMAIN d[i].txs
               PROVE  ResetSince(i, d[i].txs[a].from)' \/ UsedUp(d[i].txs[a])'
    BY <1>1, <1>2, <1>3 DEF SentUsedUp
  <2>1. PICK tx : tx = d[i].txs[a]
    OBVIOUS
  <2>2. tx.from \in AccountId
    <3>1. d[i].txs \in Seq(TransferTx)
      BY <1>1 DEF NonceInv, SentTransfers
    <3>2. tx \in TransferTx
      BY <2>1, <3>1
    <3> QED
      BY <3>2 DEF TransferTx
  <2>3. ResetSince(i, tx.from) \/ UsedUp(tx)
    BY <1>1, <2>1 DEF NonceInv, SentUsedUp
  <2>4. CASE tx.from = id0
    <3>1. n + 1 \in DOMAIN commits' /\ i < n + 1 /\ Resets(commits'[n + 1], tx.from)
      BY <1>1, <2>4 DEF Resets
    <3> QED
      BY <2>1, <3>1 DEF ResetSince
  <2>5. CASE tx.from # id0
    <3>1. UsedUp(tx) => UsedUp(tx)'
      BY <2>2, <2>5 DEF UsedUp
    <3> QED
      BY <2>1, <2>3, <3>1, ResetSinceKept
  <2> QED
    BY <2>4, <2>5
<1>8. NonceReuseNeedsReset'
  <2> SUFFICES ASSUME NEW i \in 1 .. n, NEW j \in 1 .. n, d[i] = commits[i], d[j] = commits[j],
                      d[i].kind = "transfer", d[j].kind = "transfer",
                      NEW a \in DOMAIN d[i].txs, NEW b \in DOMAIN d[j].txs,
                      i < j \/ (i = j /\ a < b), SameNonce(d[i].txs[a], d[j].txs[b])
               PROVE  \E k \in i .. j : Resets(d[k], d[i].txs[a].from)
    BY <1>1, <1>2, <1>3 DEF NonceReuseNeedsReset
  <2>1. PICK k \in i .. j : Resets(commits[k], commits[i].txs[a].from)
    BY <1>1 DEF NonceInv, NonceReuseNeedsReset
  <2>2. d[k] = commits[k]
    BY <1>1, <1>2
  <2> QED
    BY <2>1, <2>2
<1> QED
  BY <1>4, <1>6, <1>7, <1>8 DEF NonceInv

\* What an accepted transfer does to the nonces.
LEMMA TransferNonces ==
  ASSUME NEW l \in Ledgers, NEW tx \in TransferTx, NEW number, TransferValid(l, tx, number),
         tx.from # tx.to
  PROVE  /\ Leaf(l, tx.from).nonce = tx.nonce
         /\ Leaf(ApplyTransfer(l, tx), tx.from).nonce = tx.nonce + 1
         /\ \A id \in AccountId \ {tx.from} : Leaf(ApplyTransfer(l, tx), id).nonce = Leaf(l, id).nonce
<1> DEFINE m == ApplyTransfer(l, tx)
<1>1. tx.from \in AccountId /\ tx.to \in AccountId /\ tx.amount \in Nat /\ tx.fee \in Nat
  BY DEF TransferTx
<1>2. /\ m \in Ledgers
      /\ m[tx.from] # Absent /\ m[tx.to] # Absent
      /\ \A id \in AccountId \ {tx.from, tx.to} : m[id] = l[id]
  BY <1>1, ApplyTransferType
<1>3. /\ l[tx.from] \in Account /\ Leaf(l, tx.from) = l[tx.from]
      /\ Leaf(l, tx.to) \in Account /\ l[tx.from].nonce = tx.nonce
  BY <1>1, LeafType DEF TransferValid, Ledgers, Leaf
<1>4. Leaf(m, tx.from).nonce = l[tx.from].nonce + 1
  BY <1>1, <1>2, <1>3 DEF ApplyTransfer, Ledgers, Leaf, Account
<1>5. Leaf(m, tx.to).nonce = Leaf(l, tx.to).nonce
  BY <1>1, <1>2, <1>3 DEF ApplyTransfer, Ledgers, Leaf, Account
<1>6. \A id \in AccountId \ {tx.from, tx.to} : Leaf(m, id) = Leaf(l, id)
  BY <1>2 DEF Leaf
<1> HIDE DEF m
<1>7. \A id \in AccountId \ {tx.from} : Leaf(m, id).nonce = Leaf(l, id).nonce
  BY <1>5, <1>6
<1> QED
  BY <1>3, <1>4, <1>7 DEF m

LEMMA PaddedNonces ==
  ASSUME TypeOK, CanPad, NEW k \in Nat, k = ToPad
  PROVE  /\ Leaf(PaddedLedger, PaddingId).nonce = Leaf(ledger, PaddingId).nonce + k
         /\ \A id \in AccountId \ {PaddingId} : Leaf(PaddedLedger, id) = Leaf(ledger, id)
<1>1. ledger \in Ledgers /\ PaddingId \in AccountId /\ ExitId \in AccountId
      /\ PaddingId # ExitId /\ ledger[PaddingId] \in Account
  BY KeeperConstants, LedgerConstants DEF TypeOK, CanPad, TransferValid, PaddingTx, Ledgers
<1>2. PaddedLedger[PaddingId] = [ledger[PaddingId] EXCEPT !.nonce = @ + k]
  BY <1>1 DEF PaddedLedger, Ledgers
<1>3. PaddedLedger[PaddingId] \in Account
  BY <1>1, <1>2 DEF Account
<1>4. Leaf(PaddedLedger, PaddingId).nonce = Leaf(ledger, PaddingId).nonce + k
  <2>1. Leaf(PaddedLedger, PaddingId) = PaddedLedger[PaddingId]
        /\ Leaf(ledger, PaddingId) = ledger[PaddingId]
    BY <1>1, <1>3, AbsentIsNoAccount DEF Leaf
  <2> QED
    BY <1>1, <1>2, <2>1 DEF Account
<1>5. PaddedLedger[ExitId] = Leaf(ledger, ExitId) /\ Leaf(ledger, ExitId) # Absent
  BY <1>1, LeafType, AbsentIsNoAccount DEF PaddedLedger, Ledgers
<1>6. \A id \in AccountId \ {PaddingId, ExitId} : PaddedLedger[id] = ledger[id]
  BY <1>1 DEF PaddedLedger, Ledgers
<1> QED
  BY <1>4, <1>5, <1>6 DEF Leaf

LEMMA NonceInvNext == KeeperInv /\ NonceInv /\ [Next]_vars => NonceInv'
<1> SUFFICES ASSUME KeeperInv, NonceInv, [Next]_vars PROVE NonceInv'
  OBVIOUS
<1>t. /\ TypeOK /\ TypeOK' /\ ledger \in Ledgers /\ transferQueue \in Seq(TransferTx)
  BY KeeperInvNext DEF KeeperInv, TypeOK
<1>1. CASE UNCHANGED <<ledger, transferQueue, commits>>
  BY <1>1 DEF NonceInv, NonceReuseNeedsReset, SentTransfers, SentUsedUp, BatchUsedUp, BatchDistinct,
              BatchAfterSent, ResetSince, UsedUp
<1>2. CASE \E tx \in Transfers : AcceptTransfer(tx)
  <2> PICK tx \in Transfers : AcceptTransfer(tx)
    BY <1>2
  <2>1. tx \in TransferTx /\ tx.from # tx.to
    BY KeeperConstants
  <2>2. /\ TransferValid(ledger, tx, blockNumber)
        /\ ledger' = ApplyTransfer(ledger, tx) /\ transferQueue' = Append(transferQueue, tx)
        /\ commits' = commits
    BY DEF AcceptTransfer
  <2>3. PICK n \in Nat : n = Len(transferQueue)
    BY <1>t
  <2>4. /\ DOMAIN transferQueue = 1 .. n /\ DOMAIN transferQueue' = 1 .. n + 1
        /\ \A a \in 1 .. n : transferQueue'[a] = transferQueue[a]
        /\ transferQueue'[n + 1] = tx
    BY <1>t, <2>2, <2>3
  <2>5. PICK nonce \in Nat : nonce = tx.nonce
    BY <2>1 DEF TransferTx
  <2>6. /\ tx.from \in AccountId /\ Leaf(ledger, tx.from).nonce = nonce
        /\ Leaf(ledger', tx.from).nonce = nonce + 1
        /\ \A id \in AccountId \ {tx.from} : Leaf(ledger', id).nonce = Leaf(ledger, id).nonce
    BY <1>t, <2>1, <2>2, <2>5, TransferNonces DEF TransferTx
  <2>7. \A id \in AccountId : Leaf(ledger, id).nonce \in Nat
    BY <1>t, LeafType DEF Account
  <2>8. \A id \in AccountId : Leaf(ledger, id).nonce <= Leaf(ledger', id).nonce
    BY <2>6, <2>7
  <2>9. \A b \in n + 1 .. n + 1 : b = n + 1
    OBVIOUS
  <2>10. \A b \in n + 1 .. n + 1 :
           /\ transferQueue'[b].nonce >= Leaf(ledger, transferQueue'[b].from).nonce
           /\ transferQueue'[b].nonce < Leaf(ledger', transferQueue'[b].from).nonce
    BY <2>4, <2>5, <2>6, <2>9
  <2>11. \A a, b \in n + 1 .. n + 1 : ~(a < b)
    OBVIOUS
  <2>12. n + 1 \in Nat /\ n <= n + 1
    OBVIOUS
  <2> QED
    BY <1>t, <2>2, <2>4, <2>8, <2>10, <2>11, <2>12, NonceBatchGrows
<1>3. CASE FinalizeBatch
  <2>1. Len(transferQueue) <= BatchSize /\ CanPad
    BY <1>3 DEF FinalizeBatch, KeeperInv, DrainInv
  <2>2. ledger' = PaddedLedger /\ transferQueue' = transferQueue \o Padding /\ commits' = commits
    BY <1>3 DEF FinalizeBatch
  <2>3. PICK n \in Nat : n = Len(transferQueue)
    BY <1>t
  <2>4. PICK k \in Nat : k = ToPad
    BY <1>t, <2>1, PaddingType
  <2>5. PICK nonce \in Nat : nonce = Leaf(ledger, PaddingId).nonce
    BY <1>t, KeeperConstants, LeafType DEF Account
  <2>6. Padding \in Seq(TransferTx) /\ Len(Padding) = k
        /\ \A i \in 1 .. k : Padding[i] = PaddingTx(nonce + i - 1)
    BY <1>t, <2>1, <2>4, <2>5, PaddingType DEF Padding
  <2>7. PICK p, pad, l, m : p = transferQueue' /\ pad = Padding /\ l = ledger /\ m = ledger'
    OBVIOUS
  <2>8. /\ p \in Seq(TransferTx) /\ Len(p) = n + k
        /\ \A i \in 1 .. n + k : p[i] = IF i <= n THEN transferQueue[i] ELSE pad[i - n]
    BY <1>t, <2>2, <2>3, <2>6, <2>7, ConcatProperties
  <2>9. \A b \in n + 1 .. n + k : p[b].from = PaddingId /\ p[b].nonce = nonce + (b - n) - 1
    <3> SUFFICES ASSUME NEW b \in n + 1 .. n + k
                 PROVE  p[b].from = PaddingId /\ p[b].nonce = nonce + (b - n) - 1
      OBVIOUS
    <3>1. b - n \in 1 .. k /\ b \in 1 .. n + k /\ ~(b <= n)
      OBVIOUS
    <3>2. p[b] = PaddingTx(nonce + (b - n) - 1)
      BY <2>6, <2>7, <2>8, <3>1
    <3> QED
      BY <3>2 DEF PaddingTx
  <2>10. /\ \A id \in AccountId : Leaf(l, id).nonce \in Nat
         /\ PaddingId \in AccountId /\ Leaf(l, PaddingId).nonce = nonce
         /\ Leaf(m, PaddingId).nonce = nonce + k
         /\ \A id \in AccountId \ {PaddingId} : Leaf(m, id).nonce = Leaf(l, id).nonce
    <3>1. \A id \in AccountId : Leaf(l, id) \in Account
      BY <1>t, <2>7, LeafType
    <3>2. \A id \in AccountId : Leaf(l, id).nonce \in Nat
      BY <3>1 DEF Account
    <3>3. /\ Leaf(PaddedLedger, PaddingId).nonce = Leaf(ledger, PaddingId).nonce + k
          /\ \A id \in AccountId \ {PaddingId} : Leaf(PaddedLedger, id) = Leaf(ledger, id)
      BY <1>t, <2>1, <2>4, PaddedNonces
    <3>4. PICK pl : pl = PaddedLedger
      OBVIOUS
    <3>5. m = pl
      BY <2>2, <2>7, <3>4
    <3> QED
      BY <2>5, <2>7, <3>2, <3>3, <3>4, <3>5, KeeperConstants
  <2>11. \A id \in AccountId : Leaf(l, id).nonce <= Leaf(m, id).nonce
    BY <2>10
  <2>12. \A b \in n + 1 .. n + k : p[b].nonce >= Leaf(l, p[b].from).nonce
                                  /\ p[b].nonce < Leaf(m, p[b].from).nonce
    BY <2>9, <2>10
  <2>13. \A a, b \in n + 1 .. n + k : a < b => p[a].nonce < p[b].nonce
    BY <2>9
  <2>14. /\ DOMAIN transferQueue = 1 .. n /\ DOMAIN transferQueue' = 1 .. n + k
         /\ n + k \in Nat /\ n <= n + k
         /\ \A a \in 1 .. n : transferQueue'[a] = transferQueue[a]
    <3>1. \A a \in 1 .. n : a \in 1 .. n + k /\ a <= n
      OBVIOUS
    <3> QED
      BY <1>t, <2>3, <2>7, <2>8, <3>1
  <2> QED
    BY <1>t, <2>2, <2>7, <2>11, <2>12, <2>13, <2>14, NonceBatchGrows
<1>4. CASE CreateTransferBlock
  <2> DEFINE r == CommitRequest("transfer", transferQueue, ledger, Touched(transferQueue))
  <2>1. commits' = Append(commits, r) /\ ledger' = ledger /\ transferQueue' = <<>>
    BY <1>4 DEF CreateTransferBlock, Send
  <2>2. r.kind = "transfer" /\ r.txs = transferQueue
    BY DEF CommitRequest, CommittedBlock
  <2> HIDE DEF r
  <2>3. PICK rr : rr = r
    OBVIOUS
  <2> QED
    BY <1>t, <2>1, <2>2, <2>3, NonceBatchSent
<1>5. CASE CreateDepositBlock
  <2> DEFINE tx == Head(draining).tx
  <2>1. transferQueue = <<>> /\ Head(draining) \in Requested
        /\ Head(draining).kind = "deposit"
    BY <1>5, NoBatchBehindRequest DEF CreateDepositBlock, Draining
  <2>2. tx \in DepositTx
    BY <2>1, KeeperConstants DEF Requested, DepositProto, ExitProto
  <2> DEFINE r == CommitRequest("deposit", <<tx>>, ledger', {tx.account})
  <2> HIDE DEF tx
  <2>3. CASE InTree(tx.account)
    <3>1. /\ ledger' = ApplyDeposit(ledger, tx) /\ commits' = Append(commits, r)
          /\ transferQueue' = transferQueue
      BY <1>5, <2>3 DEF CreateDepositBlock, Send, tx
    <3>2. r.kind = "deposit" /\ r.txs[1].account = tx.account
      BY DEF CommitRequest, CommittedBlock
    <3> HIDE DEF r
    <3>3. PICK rr : rr = r
      OBVIOUS
    <3>4. \A id \in AccountId \ {tx.account} : Leaf(ledger', id).nonce = Leaf(ledger, id).nonce
      BY <1>t, <2>2, <3>1, ApplyDepositType DEF Leaf
    <3>5. PICK id0 : id0 = tx.account
      OBVIOUS
    <3> QED
      BY <1>t, <2>1, <3>1, <3>2, <3>3, <3>4, <3>5, NonceRequestSent
  <2>4. CASE ~InTree(tx.account)
    BY <1>1, <1>5, <2>4 DEF CreateDepositBlock, tx
  <2> QED
    BY <2>3, <2>4
<1>6. CASE CreateExitBlock
  <2> DEFINE id0 == Head(draining).account
             exit == [account |-> id0, amount |-> ledger[id0].balance]
             r == CommitRequest("exit", <<exit>>, ledger', {id0})
  <2>1. transferQueue = <<>> /\ Head(draining) \in Requested
        /\ Head(draining).kind = "exit"
    BY <1>6, NoBatchBehindRequest DEF CreateExitBlock, Draining
  <2>2. id0 \in AccountId
    BY <2>1, KeeperConstants DEF Requested, DepositProto, ExitProto
  <2> HIDE DEF id0
  <2>3. CASE ExitValid(ledger, id0)
    <3>1. /\ ledger' = ApplyExit(ledger, id0) /\ commits' = Append(commits, r)
          /\ transferQueue' = transferQueue
      BY <1>6, <2>3 DEF CreateExitBlock, Send, id0
    <3>2. r.kind = "exit" /\ r.txs[1].account = id0
      BY DEF CommitRequest, CommittedBlock
    <3> HIDE DEF r
    <3>3. PICK rr : rr = r
      OBVIOUS
    <3>4. \A id \in AccountId \ {id0} : Leaf(ledger', id).nonce = Leaf(ledger, id).nonce
      BY <1>t, <2>2, <3>1, ApplyExitType DEF Leaf
    <3>5. PICK i : i = id0
      OBVIOUS
    <3> QED
      BY <1>t, <2>1, <3>1, <3>2, <3>3, <3>4, <3>5, NonceRequestSent
  <2>4. CASE ~ExitValid(ledger, id0)
    BY <1>1, <1>6, <2>4 DEF CreateExitBlock, id0
  <2> QED
    BY <2>3, <2>4
<1> QED
  BY <1>1, <1>2, <1>3, <1>4, <1>5, <1>6
  DEF Next, Request, TimerTick, ProcessBlockQueue, RejectTransfer, TransferOutsideTree,
      AddBlock, FailPadding, EndDraining, PassTime, vars

\* A nonce of an account is used once: no two transfers of one account in a
\* block share a nonce, and two blocks do only with a reset of it between them.
THEOREM NoncesAreUsedOnce == Spec => []NonceReuseNeedsReset
<1>1. Init => NonceInv
  <2> SUFFICES ASSUME Init PROVE NonceInv
    OBVIOUS
  <2>1. DOMAIN commits = {} /\ DOMAIN transferQueue = {}
    BY EmptySeq DEF Init
  <2> QED
    BY <2>1 DEF NonceInv, NonceReuseNeedsReset, SentTransfers, SentUsedUp, BatchUsedUp,
                BatchDistinct, BatchAfterSent
<1>2. NonceInv => NonceReuseNeedsReset
  BY DEF NonceInv
<1> QED
  BY <1>1, <1>2, NonceInvNext, KeeperInvariant, PTL DEF Spec

----------------------------------------------------------------------------
\* No request is lost

LEMMA CountUpTo ==
  ASSUME NEW n \in Nat, NEW S \in SUBSET (1 .. n)
  PROVE  /\ IsFiniteSet(S) /\ Cardinality(S) \in Nat
         /\ Cardinality(S \cup {n + 1}) = Cardinality(S) + 1
<1>1. IsFiniteSet(S)
  <2>1. IsFiniteSet(1 .. n)
    BY FS_Interval
  <2> QED
    BY <2>1, FS_Subset
<1>2. n + 1 \notin S
  OBVIOUS
<1> QED
  BY <1>1, <1>2, FS_CardinalityType, FS_AddElement

LEMMA WaitingAppended ==
  ASSUME NEW n \in Nat, NEW q, NEW p, NEW x, DOMAIN q = 1 .. n, DOMAIN p = 1 .. n + 1,
         \A i \in 1 .. n : p[i] = q[i]
  PROVE  /\ Waiting(q, x) \in Nat
         /\ Waiting(p, x) = Waiting(q, x) + (IF p[n + 1] = x THEN 1 ELSE 0)
<1> DEFINE S == {i \in 1 .. n : q[i] = x}
           T == {i \in 1 .. n + 1 : p[i] = x}
<1>1. Waiting(q, x) = Cardinality(S) /\ Waiting(p, x) = Cardinality(T)
  BY DEF Waiting
<1>2. T = IF p[n + 1] = x THEN S \cup {n + 1} ELSE S
  <2>1. \A i \in 1 .. n + 1 : i \in T <=> i \in S \/ (i = n + 1 /\ p[n + 1] = x)
    OBVIOUS
  <2>2. n + 1 \in 1 .. n + 1 /\ S \subseteq 1 .. n + 1 /\ T \subseteq 1 .. n + 1
    OBVIOUS
  <2> HIDE DEF S, T
  <2> QED
    BY <2>1, <2>2
<1>3. S \in SUBSET (1 .. n)
  OBVIOUS
<1> HIDE DEF S, T
<1>4. Cardinality(S) \in Nat /\ Cardinality(S \cup {n + 1}) = Cardinality(S) + 1
  BY <1>3, CountUpTo
<1> QED
  BY <1>1, <1>2, <1>4

LEMMA WaitingPushed ==
  ASSUME NEW n \in Nat, NEW q, NEW p, NEW x, DOMAIN q = 1 .. n, DOMAIN p = 1 .. n + 1,
         \A i \in 1 .. n : p[i + 1] = q[i]
  PROVE  /\ Waiting(q, x) \in Nat
         /\ Waiting(p, x) = Waiting(q, x) + (IF p[1] = x THEN 1 ELSE 0)
<1> DEFINE S == {i \in 1 .. n : q[i] = x}
           U == {i \in 1 .. n + 1 : i > 1 /\ i - 1 \in S}
           T == {i \in 1 .. n + 1 : p[i] = x}
<1>1. Waiting(q, x) = Cardinality(S) /\ Waiting(p, x) = Cardinality(T)
  BY DEF Waiting
<1>2. T = IF p[1] = x THEN U \cup {1} ELSE U
  <2>1. ASSUME NEW i \in 1 .. n + 1 PROVE i \in T <=> i \in U \/ (i = 1 /\ p[1] = x)
    <3>1. CASE i = 1
      BY <3>1
    <3>2. CASE i # 1
      <4>1. i - 1 \in 1 .. n /\ (i - 1) + 1 = i /\ i > 1
        BY <3>2
      <4>2. p[i] = q[i - 1]
        BY <4>1
      <4> QED
        BY <3>2, <4>1, <4>2
    <3> QED
      BY <3>1, <3>2
  <2>2. 1 \in 1 .. n + 1 /\ U \subseteq 1 .. n + 1 /\ T \subseteq 1 .. n + 1
    OBVIOUS
  <2> HIDE DEF T, U
  <2> QED
    BY <2>1, <2>2
<1>3. S \in SUBSET (1 .. n)
  OBVIOUS
<1> HIDE DEF S, T
<1>4. Cardinality(S) \in Nat
  BY <1>3, CountUpTo
<1>5. Cardinality(U) = Cardinality(S) /\ Cardinality(U \cup {1}) = Cardinality(S) + 1
  <2> DEFINE f == [i \in S |-> i + 1]
  <2>1. \A i \in S : i \in 1 .. n /\ i + 1 \in 1 .. n + 1 /\ i + 1 > 1 /\ (i + 1) - 1 = i
    BY <1>3
  <2>2. f \in [S -> U]
    BY <2>1
  <2>3. \A i, j \in S : f[i] = f[j] => i = j
    BY <2>1
  <2>4. \A j \in U : \E i \in S : f[i] = j
    <3> SUFFICES ASSUME NEW j \in U PROVE \E i \in S : f[i] = j
      OBVIOUS
    <3>1. j \in 1 .. n + 1 /\ j - 1 \in S
      OBVIOUS
    <3>2. f[j - 1] = (j - 1) + 1
      BY <3>1
    <3>3. (j - 1) + 1 = j
      BY <3>1
    <3> HIDE DEF f
    <3> QED
      BY <3>1, <3>2, <3>3
  <2>5. 1 \notin U
    OBVIOUS
  <2> HIDE DEF U, f
  <2>6. f \in Bijection(S, U)
    BY <2>2, <2>3, <2>4 DEF Bijection, Injection, Surjection, IsInjective
  <2>7. IsFiniteSet(S)
    BY <1>3, CountUpTo
  <2>8. IsFiniteSet(U) /\ Cardinality(U) = Cardinality(S)
    BY <2>6, <2>7, FS_Bijection DEF ExistsBijection
  <2>9. Cardinality(U \cup {1}) = Cardinality(U) + 1
    BY <2>5, <2>8, FS_AddElement
  <2> QED
    BY <2>8, <2>9
<1> QED
  BY <1>1, <1>2, <1>4, <1>5

LEMMA WaitingNone == \A x : Waiting(<<>>, x) = 0
<1> SUFFICES ASSUME NEW x PROVE Waiting(<<>>, x) = 0
  OBVIOUS
<1>1. {i \in DOMAIN <<>> : <<>>[i] = x} = {}
  BY EmptySeq
<1> QED
  BY <1>1, FS_EmptySet DEF Waiting

LEMMA MadeAppended ==
  ASSUME TypeOK, NEW r, NEW x, commits' = Append(commits, r)
  PROVE  Made(x) \in Nat /\ Made(x)' = Made(x) + (IF MadeFrom(x, r) THEN 1 ELSE 0)
<1>1. PICK n \in Nat : /\ DOMAIN commits = 1 .. n /\ DOMAIN commits' = 1 .. n + 1
                       /\ \A k \in 1 .. n : commits'[k] = commits[k]
                       /\ commits'[n + 1] = r
  BY CommitsAppended
<1>2. PICK c, d : c = commits /\ d = commits'
  OBVIOUS
<1> DEFINE S == {i \in 1 .. n : MadeFrom(x, c[i])}
           T == {i \in 1 .. n + 1 : MadeFrom(x, d[i])}
<1>3. Made(x) = Cardinality(S) /\ Made(x)' = Cardinality(T)
  BY <1>1, <1>2 DEF Made
<1>4. T = IF MadeFrom(x, r) THEN S \cup {n + 1} ELSE S
  <2>1. ASSUME NEW i \in 1 .. n + 1 PROVE i \in T <=> i \in S \/ (i = n + 1 /\ MadeFrom(x, r))
    <3>1. CASE i = n + 1
      BY <1>1, <1>2, <3>1
    <3>2. CASE i # n + 1
      <4>1. i \in 1 .. n
        BY <3>2
      <4>2. d[i] = c[i]
        BY <1>1, <1>2, <4>1
      <4> QED
        BY <3>2, <4>1, <4>2
    <3> QED
      BY <3>1, <3>2
  <2>2. n + 1 \in 1 .. n + 1 /\ S \subseteq 1 .. n + 1 /\ T \subseteq 1 .. n + 1
    OBVIOUS
  <2> HIDE DEF S, T
  <2> QED
    BY <2>1, <2>2
<1>5. S \in SUBSET (1 .. n)
  OBVIOUS
<1> HIDE DEF S, T
<1>6. Cardinality(S) \in Nat /\ Cardinality(S \cup {n + 1}) = Cardinality(S) + 1
  BY <1>5, CountUpTo
<1> QED
  BY <1>3, <1>4, <1>6

LEMMA WaitingType ==
  ASSUME TypeOK, NEW x
  PROVE  Waiting(blockQueue, x) \in Nat /\ Waiting(draining, x) \in Nat /\ Made(x) \in Nat
<1>1. \A n \in Nat : \A S \in SUBSET (1 .. n) : Cardinality(S) \in Nat
  BY CountUpTo
<1>l. PICK l \in Nat : DOMAIN blockQueue = 1 .. l
  BY DEF TypeOK
<1>m. PICK m \in Nat : DOMAIN draining = 1 .. m
  BY DEF TypeOK
<1>n. PICK n \in Nat : DOMAIN commits = 1 .. n
  BY DEF TypeOK
<1>3. /\ {i \in DOMAIN blockQueue : blockQueue[i] = x} \in SUBSET (1 .. l)
      /\ {i \in DOMAIN draining : draining[i] = x} \in SUBSET (1 .. m)
      /\ {i \in DOMAIN commits : MadeFrom(x, commits[i])} \in SUBSET (1 .. n)
  BY <1>l, <1>m, <1>n
<1> QED
  BY <1>1, <1>3 DEF Waiting, Made

\* What is left of a loop has been made when the thread is idle again.
IdleDrained == status = "idle" => draining = <<>>

LEMMA IdleDrainedNext == IdleDrained /\ [Next]_vars => IdleDrained'
BY DEF IdleDrained, Next, Request, TimerTick, ProcessBlockQueue, RejectTransfer, AcceptTransfer,
       TransferOutsideTree, AddBlock, FinalizeBatch, FailPadding, CreateTransferBlock,
       CreateDepositBlock, CreateExitBlock, Draining, EndDraining, PassTime, vars

\* The head of the loop leaves it.
LEMMA WaitingHead ==
  ASSUME TypeOK, draining # <<>>, NEW x
  PROVE  Waiting(draining, x) = Waiting(Tail(draining), x) + (IF Head(draining) = x THEN 1 ELSE 0)
         /\ Waiting(Tail(draining), x) \in Nat
<1>1. PICK d : d = draining
  OBVIOUS
<1>2. d \in Seq(ProtoBlock) /\ d # <<>>
  BY <1>1 DEF TypeOK
<1>3. PICK n \in Nat : Len(d) = n + 1
  <2>1. Len(d) \in Nat /\ Len(d) # 0
    BY <1>2
  <2>2. Len(d) - 1 \in Nat /\ Len(d) = (Len(d) - 1) + 1
    BY <2>1
  <2> QED
    BY <2>2
<1>4. PICK q : q = Tail(d)
  OBVIOUS
<1>5. /\ DOMAIN d = 1 .. n + 1 /\ DOMAIN q = 1 .. n /\ Head(d) = d[1]
      /\ \A i \in 1 .. n : d[i + 1] = q[i]
  BY <1>2, <1>3, <1>4
<1>6. Waiting(q, x) \in Nat /\ Waiting(d, x) = Waiting(q, x) + (IF d[1] = x THEN 1 ELSE 0)
  BY <1>5, WaitingPushed
<1> QED
  BY <1>1, <1>4, <1>5, <1>6

\* The made block is the one the request asked for.
LEMMA MadeOfHead ==
  ASSUME NEW r, NEW txs, r.txs = txs,
         NEW x \in Requested, NEW head \in Requested, r.kind = head.kind,
         head.kind = "deposit" => txs = <<head.tx>>,
         head.kind = "exit" => txs[1].account = head.account
  PROVE  MadeFrom(x, r) <=> head = x
<1>1. CASE head.kind = "deposit"
  <2>1. PICK tx : head = DepositProto(tx)
    BY <1>1 DEF Requested, ExitProto
  <2>2. head.tx = tx /\ head.kind = "deposit"
    BY <2>1 DEF DepositProto
  <2>3. CASE \E ty : x = DepositProto(ty)
    <3>1. PICK ty : x = DepositProto(ty)
      BY <2>3
    <3>2. x.kind = "deposit" /\ x.tx = ty
      BY <3>1 DEF DepositProto
    <3>3. <<tx>> = <<ty>> <=> tx = ty
      OBVIOUS
    <3>4. head = x <=> tx = ty
      BY <2>1, <2>2, <3>1, <3>2
    <3> QED
      BY <1>1, <2>2, <3>2, <3>3, <3>4 DEF MadeFrom
  <2>4. CASE ~\E ty : x = DepositProto(ty)
    <3>1. x.kind = "exit"
      BY <2>4 DEF Requested, ExitProto
    <3> QED
      BY <1>1, <3>1 DEF MadeFrom
  <2> QED
    BY <2>3, <2>4
<1>2. CASE head.kind # "deposit"
  <2>1. PICK id : head = ExitProto(id)
    BY <1>2 DEF Requested, DepositProto
  <2>2. head.account = id /\ head.kind = "exit"
    BY <2>1 DEF ExitProto
  <2>3. CASE \E other : x = ExitProto(other)
    <3>1. PICK other : x = ExitProto(other)
      BY <2>3
    <3>2. x.kind = "exit" /\ x.account = other
      BY <3>1 DEF ExitProto
    <3>3. head = x <=> id = other
      BY <2>1, <2>2, <3>1, <3>2
    <3> QED
      BY <2>2, <3>2, <3>3 DEF MadeFrom
  <2>4. CASE ~\E other : x = ExitProto(other)
    <3>1. x.kind = "deposit"
      BY <2>4 DEF Requested, DepositProto
    <3> QED
      BY <2>2, <3>1 DEF MadeFrom
  <2> QED
    BY <2>3, <2>4
<1> QED
  BY <1>1, <1>2

\* A turn of the loop sends the block of its head.
LEMMA HeadIsMade ==
  ASSUME TypeOK, NEW kind \in {"transfer", "deposit", "exit"}, Draining(kind), NEW x \in Requested,
         NEW r, commits' = Append(commits, r), draining' = Tail(draining), blockQueue' = blockQueue,
         MadeFrom(x, r) <=> Head(draining) = x
  PROVE  Accounted(x)' = Accounted(x)
<1>1. /\ Waiting(draining, x) = Waiting(Tail(draining), x) + (IF Head(draining) = x THEN 1 ELSE 0)
      /\ Waiting(Tail(draining), x) \in Nat
  BY WaitingHead DEF Draining
<1>2. Made(x) \in Nat /\ Made(x)' = Made(x) + (IF MadeFrom(x, r) THEN 1 ELSE 0)
  BY MadeAppended
<1>3. Waiting(blockQueue, x) \in Nat
  BY WaitingType
<1>4. PICK w \in Nat, m \in Nat, b \in Nat :
        w = Waiting(Tail(draining), x) /\ m = Made(x) /\ b = Waiting(blockQueue, x)
  BY <1>1, <1>2, <1>3
<1>5. Accounted(x)' = b + w + Made(x)'
  BY <1>4 DEF Accounted
<1>6. Accounted(x) = b + Waiting(draining, x) + m
  BY <1>4 DEF Accounted
<1>7. PICK one : one = IF Head(draining) = x THEN 1 ELSE 0
  OBVIOUS
<1>8. /\ one \in {0, 1}
      /\ Waiting(draining, x) = w + one
      /\ Made(x)' = m + one
  BY <1>1, <1>2, <1>4, <1>7
<1>9. PICK d, o : d = Waiting(draining, x) /\ o = Made(x)'
  OBVIOUS
<1>10. b + w + o = b + d + m
  BY <1>8, <1>9
<1> QED
  BY <1>5, <1>6, <1>9, <1>10

\* The batch goes first and the waiting blocks follow.
LEMMA QueueTakenOver ==
  ASSUME TypeOK, NEW x \in Requested, draining = <<>>,
         draining' = BatchFirst, blockQueue' = <<>>, commits' = commits
  PROVE  Accounted(x)' = Accounted(x)
<1>1. PICK q, p : q = blockQueue /\ p = draining'
  OBVIOUS
<1>2. PICK n \in Nat : n = Len(q) /\ DOMAIN q = 1 .. n
  BY <1>1 DEF TypeOK
<1>3. DOMAIN p = 1 .. n + 1 /\ p[1] = TransferProto /\ \A i \in 1 .. n : p[i + 1] = q[i]
  <2>1. q \in Seq(Requested) /\ p = <<TransferProto>> \o q
    BY <1>1 DEF TypeOK, BatchFirst
  <2>2. <<TransferProto>> \in Seq({TransferProto}) /\ Len(<<TransferProto>>) = 1
    OBVIOUS
  <2> QED
    BY <1>2, <2>1, <2>2
<1>4. TransferProto # x
  BY DEF Requested, DepositProto, ExitProto, TransferProto
<1>5. Waiting(p, x) = Waiting(q, x) /\ Waiting(q, x) \in Nat
  BY <1>2, <1>3, <1>4, WaitingPushed
<1>6. Waiting(draining, x) = 0 /\ Waiting(blockQueue', x) = 0
  BY WaitingNone
<1>7. Made(x)' = Made(x) /\ Made(x) \in Nat
  BY WaitingType DEF Made
<1>8. Accounted(x)' = 0 + Waiting(q, x) + Made(x) /\ Accounted(x) = Waiting(q, x) + 0 + Made(x)
  BY <1>1, <1>5, <1>6, <1>7 DEF Accounted
<1> QED
  BY <1>5, <1>7, <1>8

\* A request is taken in once.
LEMMA RequestTakenIn ==
  ASSUME TypeOK, IdleDrained, NEW proto \in Requested, AddBlock(proto), NEW x \in Requested
  PROVE  Accounted(x)' - Accounted(x) \in {0, 1}
<1>1. PICK q : q = blockQueue
  OBVIOUS
<1>2. PICK n \in Nat : n = Len(q) /\ DOMAIN q = 1 .. n /\ q \in Seq(Requested)
  BY <1>1 DEF TypeOK
<1>3. PICK p : p = Append(q, proto)
  OBVIOUS
<1>4. DOMAIN p = 1 .. n + 1 /\ \A i \in 1 .. n : p[i] = q[i]
  BY <1>2, <1>3
<1>5. Waiting(q, x) \in Nat /\ Waiting(p, x) = Waiting(q, x) + (IF p[n + 1] = x THEN 1 ELSE 0)
  BY <1>2, <1>4, WaitingAppended
<1>6. draining = <<>> /\ Waiting(draining, x) = 0
  BY WaitingNone DEF AddBlock, IdleDrained
<1>7. Made(x)' = Made(x) /\ Made(x) \in Nat
  BY WaitingType DEF Made, AddBlock
<1>8. Accounted(x)' = Waiting(p, x) + Made(x)
  <2>1. CASE BatchOpen
    <3>1. blockQueue' = p /\ draining' = draining
      BY <1>1, <1>3, <2>1 DEF AddBlock
    <3>2. Accounted(x)' = Waiting(p, x) + 0 + Made(x)
      BY <1>6, <1>7, <3>1 DEF Accounted
    <3> QED
      BY <1>5, <1>7, <3>2
  <2>2. CASE ~BatchOpen
    <3>1. draining' = p /\ blockQueue' = <<>>
      BY <1>1, <1>3, <2>2 DEF AddBlock
    <3>2. Accounted(x)' = 0 + Waiting(p, x) + Made(x)
      BY <1>7, <3>1, WaitingNone DEF Accounted
    <3> QED
      BY <1>5, <1>7, <3>2
  <2> QED
    BY <2>1, <2>2
<1>9. Accounted(x) = Waiting(q, x) + Made(x)
  BY <1>1, <1>5, <1>6, <1>7 DEF Accounted
<1> QED
  BY <1>5, <1>7, <1>8, <1>9

LEMMA AccountedType ==
  ASSUME TypeOK, NEW x
  PROVE  Accounted(x) \in Nat
<1>1. Waiting(blockQueue, x) \in Nat /\ Waiting(draining, x) \in Nat /\ Made(x) \in Nat
  BY WaitingType
<1> QED
  BY <1>1 DEF Accounted

LEMMA NoBlockLostNext ==
  ASSUME KeeperInv, IdleDrained, [Next]_vars, NEW x \in Requested
  PROVE  Accounted(x)' - Accounted(x) \in (IF status = "idle" THEN {0, 1} ELSE {0})
<1>t. TypeOK /\ Accounted(x) \in Nat
  BY AccountedType DEF KeeperInv
<1> SUFFICES \/ Accounted(x)' = Accounted(x)
             \/ status = "idle" /\ Accounted(x)' - Accounted(x) \in {0, 1}
  <2>1. PICK n, m : n = Accounted(x) /\ m = Accounted(x)' /\ n \in Nat
    BY <1>t
  <2>2. (m = n \/ (status = "idle" /\ m - n \in {0, 1}))
          => m - n \in (IF status = "idle" THEN {0, 1} ELSE {0})
    BY <2>1
  <2> QED
    BY <2>1, <2>2
<1>1. CASE UNCHANGED <<blockQueue, draining, commits>>
  BY <1>1 DEF Accounted, Made
<1>2. CASE \E tx \in Transfers : AcceptTransfer(tx)
  <2>1. \/ UNCHANGED <<blockQueue, draining, commits>>
        \/ draining' = BatchFirst /\ blockQueue' = <<>> /\ commits' = commits
    BY <1>2 DEF AcceptTransfer
  <2>2. draining = <<>>
    BY <1>2 DEF AcceptTransfer, IdleDrained
  <2> QED
    BY <1>1, <1>t, <2>1, <2>2, QueueTakenOver
<1>3. CASE \E proto \in Requested : AddBlock(proto)
  BY <1>3, <1>t, RequestTakenIn DEF AddBlock
<1>4. CASE FinalizeBatch
  BY <1>4, <1>t, QueueTakenOver DEF FinalizeBatch, IdleDrained
<1>5. CASE CreateTransferBlock
  <2> DEFINE r == CommitRequest("transfer", transferQueue, ledger, Touched(transferQueue))
  <2>1. /\ commits' = Append(commits, r) /\ draining' = Tail(draining) /\ blockQueue' = blockQueue
        /\ Draining("transfer")
    BY <1>5 DEF CreateTransferBlock, Send
  <2>2. r.kind = "transfer"
    BY DEF CommitRequest, CommittedBlock
  <2>3. x.kind # "transfer" /\ Head(draining).kind = "transfer"
    BY <2>1 DEF Draining, Requested, DepositProto, ExitProto
  <2> HIDE DEF r
  <2>4. MadeFrom(x, r) <=> Head(draining) = x
    BY <2>2, <2>3 DEF MadeFrom
  <2>5. PICK rr : rr = r
    OBVIOUS
  <2> QED
    BY <1>t, <2>1, <2>4, <2>5, HeadIsMade
<1>6. CASE CreateDepositBlock
  <2> DEFINE tx == Head(draining).tx
             r == CommitRequest("deposit", <<tx>>, ledger', {tx.account})
  <2>1. Draining("deposit") /\ Head(draining) \in Requested /\ Head(draining).kind = "deposit"
    BY <1>6, NoBatchBehindRequest DEF CreateDepositBlock, Draining
  <2>2. CASE InTree(tx.account)
    <3>1. commits' = Append(commits, r) /\ draining' = Tail(draining) /\ blockQueue' = blockQueue
      BY <1>6, <2>2 DEF CreateDepositBlock, Send
    <3>2. r.kind = "deposit" /\ r.txs = <<tx>>
      BY DEF CommitRequest, CommittedBlock
    <3> HIDE DEF r
    <3>3. PICK rr, head : rr = r /\ head = Head(draining)
      OBVIOUS
    <3>4. PICK txs : txs = <<head.tx>>
      OBVIOUS
    <3>5. MadeFrom(x, rr) <=> head = x
      BY <2>1, <3>2, <3>3, <3>4, MadeOfHead
    <3> QED
      BY <1>t, <2>1, <3>1, <3>3, <3>5, HeadIsMade
  <2>3. CASE ~InTree(tx.account)
    BY <1>1, <1>6, <2>3 DEF CreateDepositBlock
  <2> QED
    BY <2>2, <2>3
<1>7. CASE CreateExitBlock
  <2> DEFINE id == Head(draining).account
             exit == [account |-> id, amount |-> ledger[id].balance]
             r == CommitRequest("exit", <<exit>>, ledger', {id})
  <2>1. Draining("exit") /\ Head(draining) \in Requested /\ Head(draining).kind = "exit"
    BY <1>7, NoBatchBehindRequest DEF CreateExitBlock, Draining
  <2>2. CASE ExitValid(ledger, id)
    <3>1. commits' = Append(commits, r) /\ draining' = Tail(draining) /\ blockQueue' = blockQueue
      BY <1>7, <2>2 DEF CreateExitBlock, Send
    <3>2. r.kind = "exit" /\ r.txs[1].account = Head(draining).account
      BY DEF CommitRequest, CommittedBlock
    <3> HIDE DEF r
    <3>3. PICK rr, head : rr = r /\ head = Head(draining)
      OBVIOUS
    <3>4. PICK txs : txs = rr.txs
      OBVIOUS
    <3>5. MadeFrom(x, rr) <=> head = x
      BY <2>1, <3>2, <3>3, <3>4, MadeOfHead
    <3> QED
      BY <1>t, <2>1, <3>1, <3>3, <3>5, HeadIsMade
  <2>3. CASE ~ExitValid(ledger, id)
    BY <1>1, <1>7, <2>3 DEF CreateExitBlock
  <2> QED
    BY <2>2, <2>3
<1> QED
  BY <1>1, <1>2, <1>3, <1>4, <1>5, <1>6, <1>7
  DEF Next, Request, TimerTick, ProcessBlockQueue, RejectTransfer, TransferOutsideTree,
      FailPadding, EndDraining, PassTime, vars

\* No deposit or exit request is lost on its way through the queues, or made
\* twice: a step takes in at most one, while the thread is idle, and drops none.
THEOREM RequestsAreKept == Spec => NoBlockLost
<1>1. Init => IdleDrained
  BY DEF Init, IdleDrained
<1>2. KeeperInv /\ IdleDrained /\ [Next]_vars =>
        [\A proto \in Requested :
           Accounted(proto)' - Accounted(proto) \in (IF status = "idle" THEN {0, 1} ELSE {0})]_vars
  BY NoBlockLostNext
<1> QED
  BY <1>1, <1>2, IdleDrainedNext, KeeperInvariant, PTL DEF Spec, NoBlockLost

=============================================================================
