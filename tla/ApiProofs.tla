----------------------------- MODULE ApiProofs -----------------------------
(***************************************************************************)
(* Proofs about the handlers of deposits and exits, for every number of    *)
(* threads, every set of addresses and any ids they share, and any number  *)
(* of stops and database errors.                                           *)
(***************************************************************************)
EXTENDS Api, LedgerLemmas, SequenceTheorems

----------------------------------------------------------------------------
\* What a start reads from the database

HasNewest(rows) ==
  rows = {} \/ \E row \in rows : \A other \in rows : other.block <= row.block

RowsOf(id) == {row \in accountUpdates : row.id = id}

TablesOK ==
  /\ accounts = [id \in AccountId |-> Absent]
  /\ accountUpdates \subseteq [id : AccountId, block : Nat, account : Account]
  /\ HasNewest(accountUpdates)
  /\ \A id \in AccountId : HasNewest(RowsOf(id))

LEMMA NothingVerified ==
  ASSUME TablesOK
  PROVE  /\ VerifiedRowsBlock = 0
         /\ \A id \in AccountId : LoadVerifiedState.ledger[id] = Absent
<1>1. {accounts[id].lastBlock : id \in {i \in AccountId : accounts[i] # Absent}} = {}
  BY DEF TablesOK
<1>2. Newest({}) = 0
  BY DEF Newest
<1> QED
  BY <1>1, <1>2 DEF TablesOK, VerifiedRowsBlock, LoadVerifiedState

\* Leaving out the rows of early blocks leaves the newest row in, if any.
LEMMA NewestAfter ==
  ASSUME NEW rows, rows \subseteq [id : AccountId, block : Nat, account : Account],
         HasNewest(rows), NEW n \in Nat
  PROVE  HasNewest({row \in rows : row.block > n})
<1>1. CASE rows = {}
  BY <1>1 DEF HasNewest
<1>2. ASSUME NEW row \in rows, \A other \in rows : other.block <= row.block
      PROVE  HasNewest({r \in rows : r.block > n})
  <2>1. \A other \in rows : other.block \in Nat
    OBVIOUS
  <2>2. CASE row.block > n
    BY <1>2, <2>2 DEF HasNewest
  <2>3. CASE ~(row.block > n)
    <3>1. {r \in rows : r.block > n} = {}
      BY <1>2, <2>1, <2>3
    <3> QED
      BY <3>1 DEF HasNewest
  <2> QED
    BY <2>2, <2>3
<1> QED
  BY <1>1, <1>2 DEF HasNewest

LEMMA ResumedType ==
  ASSUME TablesOK
  PROVE  Resumed.ledger \in Ledgers /\ Resumed.block \in Nat
<1>1. \A id \in AccountId : UnverifiedUpdates(id) = {row \in RowsOf(id) : row.block > 0}
  BY NothingVerified DEF UnverifiedUpdates, RowsOf
<1>2. \A id \in AccountId : RowsOf(id) \subseteq [id : AccountId, block : Nat, account : Account]
  BY DEF TablesOK, RowsOf
<1>3. ASSUME NEW id \in AccountId PROVE HasNewest(UnverifiedUpdates(id))
  <2>1. HasNewest(RowsOf(id))
    BY DEF TablesOK
  <2>2. HasNewest({row \in RowsOf(id) : row.block > 0})
    BY <1>2, <2>1, NewestAfter
  <2> QED
    BY <1>1, <2>2
<1>4. ASSUME NEW id \in AccountId
      PROVE  NewestUpdate(UnverifiedUpdates(id), LoadVerifiedState.ledger[id]) \in Account \cup {Absent}
  <2>1. CASE UnverifiedUpdates(id) = {}
    BY <2>1, NothingVerified DEF NewestUpdate
  <2>2. CASE UnverifiedUpdates(id) # {}
    <3>1. \E row \in UnverifiedUpdates(id) :
            \A other \in UnverifiedUpdates(id) : other.block <= row.block
      BY <1>3, <2>2 DEF HasNewest
    <3>2. \A row \in UnverifiedUpdates(id) : row.account \in Account
      BY <1>1, <1>2
    <3> QED
      BY <2>2, <3>1, <3>2 DEF NewestUpdate
  <2> QED
    BY <2>1, <2>2
<1>5. Resumed.ledger \in Ledgers
  BY <1>4 DEF Resumed, LoadCommittedState, Ledgers
<1> DEFINE late == {row \in accountUpdates : row.block > 0}
           numbers == {VerifiedRowsBlock} \cup
                      {row.block : row \in UNION {UnverifiedUpdates(id) : id \in AccountId}}
<1>6. UNION {UnverifiedUpdates(id) : id \in AccountId} = late
  BY NothingVerified DEF UnverifiedUpdates, TablesOK
<1>7. HasNewest(late)
  BY NewestAfter DEF TablesOK
<1>8. numbers = {0} \cup {row.block : row \in late}
  BY <1>6, NothingVerified
<1>9. numbers \subseteq Nat
  BY <1>8 DEF TablesOK
<1>10. \E n \in numbers \cup {0} : \A m \in numbers : m <= n
  <2>1. CASE late = {}
    BY <1>8, <2>1
  <2>2. ASSUME NEW row \in late, \A other \in late : other.block <= row.block
        PROVE  \E n \in numbers \cup {0} : \A m \in numbers : m <= n
    <3>1. row.block \in numbers /\ row.block > 0 /\ row.block \in Nat
      BY <1>8, <1>9
    <3>2. \A m \in numbers : m <= row.block
      BY <1>8, <2>2, <3>1
    <3> QED
      BY <3>1, <3>2
  <2> QED
    BY <1>7, <2>1, <2>2 DEF HasNewest
<1>11. Newest(numbers) \in Nat
  BY <1>9, <1>10 DEF Newest
<1> QED
  BY <1>5, <1>11 DEF Resumed, LoadCommittedState

LEMMA CommitKeepsTables ==
  ASSUME TablesOK, NEW block \in Blocks, CommitOperation(block)
  PROVE  TablesOK'
<1> DEFINE new == UpdateRows(block)
<1>1. /\ accountUpdates' = accountUpdates \cup new
      /\ accounts' = accounts
  BY DEF CommitOperation
<1>2. /\ block.number \in Nat
      /\ new \subseteq [id : AccountId, block : Nat, account : Account]
      /\ \A row \in new : row.block = block.number
  BY DEF Blocks, UpdateRows, Ledgers
<1>3. \A row \in accountUpdates : row.block \in Nat
  BY DEF TablesOK
<1>4. ASSUME NEW old \in SUBSET accountUpdates, HasNewest(old), NEW some \in SUBSET new
      PROVE  HasNewest(old \cup some)
  <2>1. CASE some = {}
    BY <1>4, <2>1 DEF HasNewest
  <2>2. CASE old = {} /\ some # {}
    BY <1>2, <2>2 DEF HasNewest
  <2>3. ASSUME NEW row \in old, \A other \in old : other.block <= row.block,
               NEW added \in some
        PROVE  HasNewest(old \cup some)
    <3>1. row.block \in Nat /\ added.block = block.number /\ \A o \in old : o.block \in Nat
      BY <1>2, <1>3
    <3>2. CASE row.block <= block.number
      <4>1. \A other \in old \cup some : other.block <= added.block
        BY <1>2, <2>3, <3>1, <3>2
      <4> QED
        BY <4>1 DEF HasNewest
    <3>3. CASE block.number <= row.block
      <4>1. \A other \in old \cup some : other.block <= row.block
        BY <1>2, <2>3, <3>1, <3>3
      <4> QED
        BY <4>1 DEF HasNewest
    <3> QED
      BY <1>2, <3>1, <3>2, <3>3
  <2> QED
    BY <1>4, <2>1, <2>2, <2>3 DEF HasNewest
<1>5. HasNewest(accountUpdates')
  BY <1>1, <1>4 DEF TablesOK
<1>6. ASSUME NEW id \in AccountId PROVE HasNewest(RowsOf(id)')
  <2>1. RowsOf(id)' = RowsOf(id) \cup {row \in new : row.id = id}
    BY <1>1 DEF RowsOf
  <2>2. HasNewest(RowsOf(id)) /\ RowsOf(id) \subseteq accountUpdates
    BY DEF TablesOK, RowsOf
  <2> QED
    BY <1>4, <2>1, <2>2
<1> QED
  BY <1>1, <1>2, <1>5, <1>6 DEF TablesOK

----------------------------------------------------------------------------
\* Types

TypeInv == TypeOK /\ TablesOK

LEMMA TypeInvInit == Init => TypeInv
<1> SUFFICES ASSUME Init PROVE TypeInv
  OBVIOUS
<1> USE DEF Init, EmptyTables, ServerInit, ApiInit
<1>1. TablesOK
  BY DEF TablesOK, HasNewest, RowsOf
<1>2. memory \in Ledgers /\ nextBlock \in Nat
  BY <1>1, ResumedType
<1>3. requests \in Seq(Requests) /\ channel \in Seq(Blocks)
  BY EmptySeq
<1>4. HandlersOK
  BY DEF HandlersOK
<1>5. DOMAIN book = {} /\ depositors \in [AccountId -> SUBSET Address] /\ raced \subseteq Address
  OBVIOUS
<1>6. accountUpdates = {} /\ keeper = "running" /\ startup = "pending"
  OBVIOUS
<1>7. \A a \in DOMAIN book : book[a] = IdOf[a]
  BY <1>5
<1> HIDE DEF Init, EmptyTables, ServerInit, ApiInit
<1> QED
  BY <1>1, <1>2, <1>3, <1>4, <1>5, <1>6, <1>7 DEF TypeInv, TypeOK, TablesOK

LEMMA SendBlockType ==
  ASSUME TypeOK, NEW kind \in {"transfer", "deposit", "exit"},
         NEW txs \in Seq(TransferTx \cup DepositTx \cup [account : AccountId, amount : Nat]),
         NEW l \in Ledgers, NEW touched, SendBlock(kind, txs, l, touched)
  PROVE  /\ memory' = l /\ nextBlock' \in Nat /\ channel' \in Seq(Blocks)
         /\ keeper = "running" /\ keeper' \in {"running", "stopped"}
         /\ UNCHANGED tables
<1>1. Leaves(l) \in LeafMaps
  BY LeavesType
<1>2. [id \in AccountId |-> IF id \in touched THEN Leaf(l, id) ELSE Absent] \in Ledgers
  BY LeafType DEF Ledgers
<1>3. CommittedBlock(nextBlock, kind, txs, l, touched) \in Blocks
  BY <1>1, <1>2 DEF CommittedBlock, Blocks, TypeOK
<1>4. Append(channel, CommittedBlock(nextBlock, kind, txs, l, touched)) \in Seq(Blocks)
  BY <1>3, AppendProperties DEF TypeOK
<1>5. nextBlock \in Nat /\ channel \in Seq(Blocks)
  BY DEF TypeOK
<1> QED
  BY <1>4, <1>5 DEF SendBlock

\* What a block makes of the ledger: no item disappears, and the accounts of
\* deposits and exits have one.
LEMMA DepositBlockType ==
  ASSUME TypeOK, NEW tx \in DepositTx, MakeDepositBlock(tx)
  PROVE  /\ memory' \in Ledgers /\ nextBlock' \in Nat /\ channel' \in Seq(Blocks)
         /\ keeper = "running" /\ keeper' \in {"running", "stopped"}
         /\ UNCHANGED tables
         /\ \A id \in AccountId : memory[id] # Absent \/ id = tx.account => memory'[id] # Absent
<1>1. ApplyDeposit(memory, tx) \in Ledgers
  BY ApplyDepositType DEF TypeOK
<1>2. <<tx>> \in Seq(TransferTx \cup DepositTx \cup [account : AccountId, amount : Nat])
  OBVIOUS
<1>3. SendBlock("deposit", <<tx>>, ApplyDeposit(memory, tx), {tx.account})
  BY DEF MakeDepositBlock
<1>4. /\ memory' = ApplyDeposit(memory, tx) /\ nextBlock' \in Nat /\ channel' \in Seq(Blocks)
      /\ keeper = "running" /\ keeper' \in {"running", "stopped"}
      /\ UNCHANGED tables
  BY <1>1, <1>2, <1>3, SendBlockType
<1> QED
  BY <1>1, <1>4, ApplyDepositType DEF TypeOK

LEMMA ExitBlockType ==
  ASSUME TypeOK, NEW account \in AccountId, MakeExitBlock(account)
  PROVE  /\ memory' \in Ledgers /\ nextBlock' \in Nat /\ channel' \in Seq(Blocks)
         /\ keeper = "running" /\ keeper' \in {"running", "stopped"}
         /\ UNCHANGED tables
         /\ \A id \in AccountId : memory[id] # Absent => memory'[id] # Absent
<1> DEFINE txs == <<[account |-> account, amount |-> memory[account].balance]>>
<1>1. ApplyExit(memory, account) \in Ledgers
  BY ApplyExitType DEF TypeOK
<1>2. txs \in Seq(TransferTx \cup DepositTx \cup [account : AccountId, amount : Nat])
  <2>1. memory[account] \in Account
    BY DEF MakeExitBlock, ExitValid, TypeOK, Ledgers
  <2> QED
    BY <2>1 DEF Account
<1>3. SendBlock("exit", txs, ApplyExit(memory, account), {account})
  BY DEF MakeExitBlock
<1>4. /\ memory' = ApplyExit(memory, account) /\ nextBlock' \in Nat /\ channel' \in Seq(Blocks)
      /\ keeper = "running" /\ keeper' \in {"running", "stopped"}
      /\ UNCHANGED tables
  BY <1>1, <1>2, <1>3, SendBlockType
<1> QED
  BY <1>1, <1>4, ApplyExitType DEF TypeOK

LEMMA TransferBlockType ==
  ASSUME TypeOK, NEW tx \in Transfers, MakeTransferBlock(tx)
  PROVE  /\ memory' \in Ledgers /\ nextBlock' \in Nat /\ channel' \in Seq(Blocks)
         /\ keeper = "running" /\ keeper' \in {"running", "stopped"}
         /\ UNCHANGED tables
         /\ \A id \in AccountId : memory[id] # Absent => memory'[id] # Absent
<1>1. tx \in TransferTx /\ TransferValid(memory, tx, nextBlock)
  BY ServerConstants DEF MakeTransferBlock
<1>2. ApplyTransfer(memory, tx) \in Ledgers
  BY <1>1, ApplyTransferType DEF TypeOK
<1>3. <<tx>> \in Seq(TransferTx \cup DepositTx \cup [account : AccountId, amount : Nat])
  BY <1>1
<1>4. SendBlock("transfer", <<tx>>, ApplyTransfer(memory, tx), {tx.from, tx.to})
  BY DEF MakeTransferBlock
<1>5. /\ memory' = ApplyTransfer(memory, tx) /\ nextBlock' \in Nat /\ channel' \in Seq(Blocks)
      /\ keeper = "running" /\ keeper' \in {"running", "stopped"}
      /\ UNCHANGED tables
  BY <1>2, <1>3, <1>4, SendBlockType
<1> QED
  BY <1>1, <1>2, <1>5, ApplyTransferType DEF TypeOK

LEMMA HandlerMoves ==
  ASSUME HandlersOK, NEW h \in Handler, NEW step \in {"idle", "inserted", "found", "sent"},
         NEW a \in Address \cup {NoRequest}, NEW r \in Requests \cup {NoRequest},
         HandlerAt(h, step, a, r),
         step # "idle" =>
           /\ a \in Address /\ r \in Requests
           /\ r.kind = IF step = "inserted" THEN "deposit" ELSE "exit"
           /\ r.tx.account = IdOf[a]
  PROVE  HandlersOK'
BY DEF HandlersOK, HandlerAt

LEMMA SendType ==
  ASSUME TypeOK, NEW r \in Requests, Send(r)
  PROVE  requests' \in Seq(Requests)
BY AppendProperties DEF Send, TypeOK

LEMMA TakenType ==
  ASSUME TypeOK, requests # <<>>, Taken
  PROVE  /\ requests' \in Seq(Requests)
         /\ keeper' # "running" => requests' = <<>>
BY HeadTailProperties, EmptySeq DEF Taken, TypeOK

LEMMA RequestFacts ==
  /\ \A tx \in DepositTx : DepositRequest(tx) \in Requests
  /\ \A id \in AccountId : ExitRequest(id) \in Requests
  /\ PaddingDeposit \in Requests
BY ApiConstants DEF Requests, DepositRequest, ExitRequest, PaddingDeposit, DepositTx

\* What no step of a handler touches.
LEMMA HandlerStepType ==
  ASSUME TypeInv, UNCHANGED <<tables, serverVars, startup>>,
         requests' \in Seq(Requests), keeper # "running" => UNCHANGED requests,
         DOMAIN book' \subseteq Address, \A a \in DOMAIN book' : book'[a] = IdOf[a],
         HandlersOK', depositors' \in [AccountId -> SUBSET Address],
         raced' = raced \cup RacingNow'
  PROVE  TypeInv'
<1>1. RacingNow' \subseteq Address
  BY DEF RacingNow, HandlersOK
<1>2. TablesOK'
  BY DEF TypeInv, TablesOK, HasNewest, RowsOf, tables
<1> QED
  BY <1>1, <1>2 DEF TypeInv, TypeOK, serverVars, tables

LEMMA EnterDepositType ==
  ASSUME TypeInv, NEW h \in Handler, EnterDeposit(h), raced' = raced \cup RacingNow'
  PROVE  TypeInv'
<1>1. PICK a \in Address, amount \in Amount, key \in Key :
        /\ book' = [x \in DOMAIN book \cup {a} |-> IF x = a THEN IdOf[a] ELSE book[x]]
        /\ HandlerAt(h, "inserted", a,
             DepositRequest([account |-> IdOf[a], amount |-> amount, key |-> key]))
  BY DEF EnterDeposit
<1> DEFINE tx == [account |-> IdOf[a], amount |-> amount, key |-> key]
<1>2. tx \in DepositTx
  BY ApiConstants DEF DepositTx
<1>3. DepositRequest(tx) \in Requests
  BY <1>2, RequestFacts
<1>4. HandlersOK'
  BY <1>1, <1>3, HandlerMoves DEF TypeInv, TypeOK, DepositRequest
<1>5. DOMAIN book' \subseteq Address /\ \A x \in DOMAIN book' : book'[x] = IdOf[x]
  BY <1>1 DEF TypeInv, TypeOK
<1>6. /\ UNCHANGED <<tables, serverVars, startup, requests, depositors>>
      /\ requests \in Seq(Requests) /\ depositors \in [AccountId -> SUBSET Address]
  BY DEF EnterDeposit, TypeInv, TypeOK
<1> QED
  BY <1>4, <1>5, <1>6, HandlerStepType

LEMMA AnsweredType ==
  ASSUME HandlersOK, NEW h \in Handler, Answered(h)
  PROVE  HandlersOK'
BY HandlerMoves DEF Answered

LEMMA SendDepositType ==
  ASSUME TypeInv, NEW h \in Handler, SendDeposit(h), raced' = raced \cup RacingNow'
  PROVE  TypeInv'
<1>1. /\ request[h] \in Requests /\ address[h] \in Address
      /\ requests \in Seq(Requests) /\ depositors \in [AccountId -> SUBSET Address]
      /\ DOMAIN book \subseteq Address /\ \A a \in DOMAIN book : book[a] = IdOf[a]
  BY DEF SendDeposit, TypeInv, TypeOK, HandlersOK
<1>2. HandlersOK'
  BY AnsweredType DEF SendDeposit, TypeInv, TypeOK
<1>3. UNCHANGED <<tables, serverVars, startup, book>>
  BY DEF SendDeposit
<1>4. requests' \in Seq(Requests) /\ (keeper # "running" => UNCHANGED requests)
  BY <1>1, SendType DEF SendDeposit, TypeInv, KeeperListens
<1>5. depositors' \in [AccountId -> SUBSET Address]
  BY <1>1 DEF SendDeposit
<1> QED
  BY <1>1, <1>2, <1>3, <1>4, <1>5, HandlerStepType

LEMMA FindExitType ==
  ASSUME TypeInv, NEW h \in Handler, FindExit(h), raced' = raced \cup RacingNow'
  PROVE  TypeInv'
<1>1. PICK a \in Address :
        KnownAddress(a) /\ HandlerAt(h, "found", Entry(a), ExitRequest(book[Entry(a)]))
  BY DEF FindExit
<1>2. Entry(a) \in Address /\ book[Entry(a)] = IdOf[Entry(a)] /\ IdOf[Entry(a)] \in AccountId
  BY <1>1, ApiConstants DEF KnownAddress, Entry, TypeInv, TypeOK
<1>3. ExitRequest(book[Entry(a)]) \in Requests
  BY <1>2, RequestFacts
<1>4. HandlersOK'
  BY <1>1, <1>2, <1>3, HandlerMoves DEF TypeInv, TypeOK, ExitRequest
<1>5. /\ UNCHANGED <<tables, serverVars, startup, requests, depositors, book>>
      /\ requests \in Seq(Requests) /\ depositors \in [AccountId -> SUBSET Address]
      /\ DOMAIN book \subseteq Address /\ \A x \in DOMAIN book : book[x] = IdOf[x]
  BY DEF FindExit, TypeInv, TypeOK
<1> QED
  BY <1>4, <1>5, HandlerStepType

LEMMA SendExitType ==
  ASSUME TypeInv, NEW h \in Handler, SendExit(h), raced' = raced \cup RacingNow'
  PROVE  TypeInv'
<1>1. /\ request[h] \in Requests /\ address[h] \in Address
      /\ request[h].kind = "exit" /\ request[h].tx.account = IdOf[address[h]]
      /\ requests \in Seq(Requests) /\ depositors \in [AccountId -> SUBSET Address]
      /\ DOMAIN book \subseteq Address /\ \A a \in DOMAIN book : book[a] = IdOf[a]
  BY DEF SendExit, TypeInv, TypeOK, HandlersOK
<1>2. HandlersOK'
  BY <1>1, HandlerMoves, AnsweredType DEF SendExit, TypeInv, TypeOK
<1>3. UNCHANGED <<tables, serverVars, startup, book>>
  BY DEF SendExit
<1>4. requests' \in Seq(Requests) /\ (keeper # "running" => UNCHANGED requests)
  BY <1>1, SendType DEF SendExit, TypeInv, KeeperListens
<1>5. depositors' \in [AccountId -> SUBSET Address]
  BY <1>1 DEF SendExit
<1> QED
  BY <1>1, <1>2, <1>3, <1>4, <1>5, HandlerStepType

LEMMA RemoveAddressType ==
  ASSUME TypeInv, NEW h \in Handler, RemoveAddress(h), raced' = raced \cup RacingNow'
  PROVE  TypeInv'
<1>1. /\ UNCHANGED <<tables, serverVars, startup, requests, depositors>>
      /\ requests \in Seq(Requests) /\ depositors \in [AccountId -> SUBSET Address]
      /\ DOMAIN book' \subseteq Address /\ \A x \in DOMAIN book' : book'[x] = IdOf[x]
  BY DEF RemoveAddress, TypeInv, TypeOK
<1>2. HandlersOK'
  BY AnsweredType DEF RemoveAddress, TypeInv, TypeOK
<1> QED
  BY <1>1, <1>2, HandlerStepType

\* What no step of the server leaves alone but the ledger, the keeper, the
\* channel and the queue.
LEMMA ServerStepType ==
  ASSUME TypeInv, TablesOK', UNCHANGED <<book, handlerVars, depositors>>,
         memory' \in Ledgers, nextBlock' \in Nat, channel' \in Seq(Blocks),
         keeper' \in {"running", "stopped", "exit panic"},
         startup' \in {"pending", "checked", "unchecked"},
         requests' \in Seq(Requests), keeper' # "running" => requests' = <<>>,
         raced' = raced \cup RacingNow'
  PROVE  TypeInv'
<1>1. HandlersOK'
  BY DEF TypeInv, TypeOK, HandlersOK, handlerVars
<1>2. RacingNow' \subseteq Address
  BY <1>1 DEF RacingNow, HandlersOK
<1> QED
  BY <1>1, <1>2 DEF TypeInv, TypeOK, TablesOK

LEMMA TablesStay ==
  ASSUME TablesOK, UNCHANGED tables
  PROVE  TablesOK'
BY DEF TablesOK, HasNewest, RowsOf, tables

LEMMA StartType ==
  ASSUME TypeInv, StartChecked \/ StartUnchecked, raced' = raced \cup RacingNow'
  PROVE  TypeInv'
<1>1. /\ UNCHANGED <<book, handlerVars, depositors, tables, serverVars>>
      /\ startup' \in {"pending", "checked", "unchecked"}
  BY DEF StartChecked, StartUnchecked
<1>2. requests' \in Seq(Requests) /\ (keeper # "running" => UNCHANGED requests)
  BY SendType, RequestFacts DEF StartChecked, StartUnchecked, TypeInv, TypeOK, KeeperListens
<1>3. TablesOK'
  BY <1>1, TablesStay DEF TypeInv
<1> QED
  BY <1>1, <1>2, <1>3, ServerStepType DEF TypeInv, TypeOK, serverVars

LEMMA PlainDepositType ==
  ASSUME TypeInv, PlainDeposit, raced' = raced \cup RacingNow'
  PROVE  TypeInv'
<1>1. /\ UNCHANGED <<book, startup, handlerVars, depositors, tables, serverVars>>
      /\ keeper = "running"
  BY DEF PlainDeposit, KeeperListens
<1>2. requests' \in Seq(Requests)
  BY SendType, RequestFacts, ServerConstants DEF PlainDeposit, TypeInv
<1>3. TablesOK'
  BY <1>1, TablesStay DEF TypeInv
<1> QED
  BY <1>1, <1>2, <1>3, ServerStepType DEF TypeInv, TypeOK, serverVars

LEMMA NextRequestType ==
  ASSUME TypeOK, requests # <<>>
  PROVE  /\ NextRequest \in Requests
         /\ NextRequest.tx.account \in AccountId
         /\ NextRequest.kind = "deposit" => NextRequest.tx \in DepositTx
<1>1. NextRequest \in Requests
  BY HeadTailProperties DEF NextRequest, TypeOK
<1> QED
  BY <1>1 DEF Requests, DepositTx

LEMMA KeeperType ==
  ASSUME TypeInv, Keeper, raced' = raced \cup RacingNow'
  PROVE  TypeInv'
<1> USE DEF TypeInv
<1>1. /\ memory \in Ledgers /\ nextBlock \in Nat /\ channel \in Seq(Blocks)
      /\ startup \in {"pending", "checked", "unchecked"} /\ requests \in Seq(Requests)
  BY DEF TypeOK
<1>2. UNCHANGED <<book, startup, handlerVars, depositors>>
  BY DEF Keeper, ServeDeposit, ServeExit, ExitPanics, TransferBlock
<1>3. CASE ServeDeposit
  <2>1. /\ memory' \in Ledgers /\ nextBlock' \in Nat /\ channel' \in Seq(Blocks)
        /\ keeper' \in {"running", "stopped"} /\ UNCHANGED tables
    BY <1>3, NextRequestType, DepositBlockType DEF ServeDeposit
  <2>2. requests' \in Seq(Requests) /\ (keeper' # "running" => requests' = <<>>)
    BY <1>3, TakenType DEF ServeDeposit
  <2> QED
    BY <1>1, <1>2, <2>1, <2>2, TablesStay, ServerStepType
<1>4. CASE ServeExit
  <2>1. /\ memory' \in Ledgers /\ nextBlock' \in Nat /\ channel' \in Seq(Blocks)
        /\ keeper' \in {"running", "stopped"} /\ UNCHANGED tables
    BY <1>4, NextRequestType, ExitBlockType DEF ServeExit
  <2>2. requests' \in Seq(Requests) /\ (keeper' # "running" => requests' = <<>>)
    BY <1>4, TakenType DEF ServeExit
  <2> QED
    BY <1>1, <1>2, <2>1, <2>2, TablesStay, ServerStepType
<1>5. CASE ExitPanics
  <2>1. /\ UNCHANGED <<memory, nextBlock, channel, tables>> /\ keeper' = "exit panic"
    BY <1>5 DEF ExitPanics
  <2>2. requests' \in Seq(Requests) /\ (keeper' # "running" => requests' = <<>>)
    BY <1>5, TakenType DEF ExitPanics
  <2> QED
    BY <1>1, <1>2, <2>1, <2>2, TablesStay, ServerStepType
<1>6. CASE TransferBlock
  <2>1. PICK tx \in Transfers : MakeTransferBlock(tx)
    BY <1>6 DEF TransferBlock
  <2>2. /\ memory' \in Ledgers /\ nextBlock' \in Nat /\ channel' \in Seq(Blocks)
        /\ keeper' \in {"running", "stopped"} /\ UNCHANGED tables
    BY <2>1, TransferBlockType
  <2>3. requests' \in Seq(Requests) /\ (keeper' # "running" => requests' = <<>>)
    BY <1>1, <1>6, EmptySeq DEF TransferBlock
  <2> QED
    BY <1>1, <1>2, <2>2, <2>3, TablesStay, ServerStepType
<1> QED
  BY <1>3, <1>4, <1>5, <1>6 DEF Keeper

LEMMA CommitterType ==
  ASSUME TypeInv, CommitBlock \/ CommitterPanics,
         UNCHANGED <<book, requests, startup, handlerVars, depositors>>,
         raced' = raced \cup RacingNow'
  PROVE  TypeInv'
<1> USE DEF TypeInv
<1>1. UNCHANGED <<memory, nextBlock, keeper>>
  BY DEF CommitBlock, CommitterPanics
<1>2. channel' \in Seq(Blocks) /\ TablesOK'
  <2>1. CASE CommitBlock
    <3>1. channel # <<>> /\ channel \in Seq(Blocks) /\ CommitOperation(Head(channel))
      BY <2>1 DEF CommitBlock, TypeOK
    <3>2. Head(channel) \in Blocks /\ Tail(channel) \in Seq(Blocks)
      BY <3>1, HeadTailProperties
    <3> QED
      BY <2>1, <3>1, <3>2, CommitKeepsTables DEF CommitBlock
  <2>2. CASE CommitterPanics
    BY <2>2, TablesStay, EmptySeq DEF CommitterPanics
  <2> QED
    BY <2>1, <2>2
<1> QED
  BY <1>1, <1>2, ServerStepType DEF TypeOK

LEMMA RestartType ==
  ASSUME TypeInv, RestartAll
  PROVE  TypeInv'
<1> USE DEF TypeInv
<1>1. memory' \in Ledgers /\ nextBlock' \in Nat /\ UNCHANGED tables /\ keeper' = "running"
  BY ResumedType DEF RestartAll, Restart
<1>2. TablesOK'
  BY <1>1, TablesStay
<1>3. requests' \in Seq(Requests) /\ channel' \in Seq(Blocks) /\ startup' = "pending"
  BY EmptySeq DEF RestartAll, Restart
<1>4. HandlersOK'
  BY DEF RestartAll, HandlersOK
<1>5. /\ book' = [a \in {} |-> 0] /\ raced' = {}
      /\ depositors' \in [AccountId -> SUBSET Address]
  BY DEF RestartAll
<1> QED
  BY <1>1, <1>2, <1>3, <1>4, <1>5 DEF TypeOK, TablesOK

LEMMA TypeInvNext == TypeInv /\ [Next]_allVars => TypeInv'
<1> SUFFICES ASSUME TypeInv, [Next]_allVars PROVE TypeInv'
  OBVIOUS
<1>1. ASSUME Running, raced' = raced \cup RacingNow' PROVE TypeInv'
  <2>1. CASE StartChecked \/ StartUnchecked
    BY <1>1, <2>1, StartType
  <2>2. ASSUME NEW h \in Handler, Work(h) PROVE TypeInv'
    BY <1>1, <2>2, EnterDepositType, SendDepositType, FindExitType, SendExitType,
       RemoveAddressType DEF Work
  <2>3. CASE PlainDeposit
    BY <1>1, <2>3, PlainDepositType
  <2>4. CASE Keeper
    BY <1>1, <2>4, KeeperType
  <2>5. CASE /\ CommitBlock \/ CommitterPanics
             /\ UNCHANGED <<book, requests, startup, handlerVars, depositors>>
    BY <1>1, <2>5, CommitterType
  <2> QED
    BY <1>1, <2>1, <2>2, <2>3, <2>4, <2>5 DEF Running
<1>2. CASE RestartAll
  BY <1>2, RestartType
<1>3. CASE UNCHANGED allVars
  BY <1>3, TablesStay DEF TypeInv, TypeOK, HandlersOK, TablesOK,
     allVars, apiVars, handlerVars, serverVars
<1> QED
  BY <1>1, <1>2, <1>3 DEF Next

LEMMA TypeInvariant == Spec => []TypeInv
BY TypeInvInit, TypeInvNext, PTL DEF Spec

\* Maps, handlers, queue, ledger and channel keep their types through stops of
\* the server and whatever the database restores: see Api.TypeOK.
THEOREM ApiTyped == Spec => []TypeOK
<1>1. TypeInv => TypeOK
  BY DEF TypeInv
<1> QED
  BY <1>1, TypeInvariant, PTL

----------------------------------------------------------------------------
\* Exits that find no account

\* A deposit into an account is among the first n requests.
DepositAmong(n, id) ==
  \E i \in 1 .. n : requests[i].kind = "deposit" /\ requests[i].tx.account = id

HasItem(id) == memory[id] # Absent

Coming(id) == HasItem(id) \/ DepositAmong(Len(requests), id)

RacedId(id) == \E a \in raced : IdOf[a] = id

Inserting(a) == \E h \in Handler : phase[h] = "inserted" /\ address[h] = a

\* An exit in the queue finds its account when its turn comes; an address in
\* the map has an account, or it has a deposit in the queue or at a handler;
\* and so has the address of an exit that is about to be sent.
ExitCovered(j) ==
  requests[j].kind = "exit" =>
    \/ HasItem(requests[j].tx.account)
    \/ DepositAmong(j - 1, requests[j].tx.account)
    \/ RacedId(requests[j].tx.account)

Backed(a) == Coming(IdOf[a]) \/ Inserting(a)

FoundBacked(h) ==
  phase[h] = "found" => Coming(IdOf[address[h]]) \/ address[h] \in raced

ExitsFollow ==
  keeper = "running" =>
    /\ \A j \in 1 .. Len(requests) : ExitCovered(j)
    /\ \A a \in DOMAIN book : Backed(a)
    /\ \A h \in Handler : FoundBacked(h)

RaceInv == ExitsFollow /\ ExitPanicNeedsRace

LEMMA RaceInvInit == Init => RaceInv
BY DEF Init, ApiInit, ServerInit, RaceInv, ExitsFollow, ExitPanicNeedsRace, FoundBacked

\* What has come stays: items do not disappear, and the queue only grows at
\* its end.
LEMMA SendKeepsComing ==
  ASSUME TypeInv, NEW r \in Requests, Send(r), UNCHANGED memory
  PROVE  /\ Len(requests') = Len(requests) + 1 /\ requests'[Len(requests) + 1] = r
         /\ \A i \in 1 .. Len(requests) : requests'[i] = requests[i]
         /\ \A id : Coming(id) => Coming(id)'
         /\ \A id : \A n \in 0 .. Len(requests) : DepositAmong(n, id) => DepositAmong(n, id)'
         /\ \A id : r.kind = "deposit" /\ r.tx.account = id => Coming(id)'
<1>1. requests \in Seq(Requests) /\ Len(requests) \in Nat
  BY LenProperties DEF TypeInv, TypeOK
<1>2. /\ Len(requests') = Len(requests) + 1 /\ requests'[Len(requests) + 1] = r
      /\ \A i \in 1 .. Len(requests) : requests'[i] = requests[i]
  BY <1>1, AppendProperties DEF Send
<1>3. ASSUME NEW id, NEW n \in 0 .. Len(requests), DepositAmong(n, id)
      PROVE  DepositAmong(n, id)'
  BY <1>1, <1>2, <1>3 DEF DepositAmong
<1>4. ASSUME NEW id, Coming(id) PROVE Coming(id)'
  BY <1>1, <1>2, <1>4 DEF Coming, DepositAmong, HasItem
<1>5. ASSUME NEW id, r.kind = "deposit", r.tx.account = id PROVE Coming(id)'
  BY <1>1, <1>2, <1>5 DEF Coming, DepositAmong
<1> QED
  BY <1>2, <1>3, <1>4, <1>5

\* Taking the first request, an exit that is served or a deposit, and making
\* an item of it.
LEMMA TakenKeepsComing ==
  ASSUME TypeInv, requests # <<>>, requests' = Tail(requests),
         \A id \in AccountId : HasItem(id) => HasItem(id)',
         \A id : NextRequest.kind = "deposit" /\ NextRequest.tx.account = id => HasItem(id)'
  PROVE  /\ Len(requests') = Len(requests) - 1
         /\ \A i \in 1 .. Len(requests') : requests'[i] = requests[i + 1]
         /\ \A id \in AccountId : Coming(id) => Coming(id)'
         /\ \A id \in AccountId : \A n \in 1 .. Len(requests) :
              HasItem(id) \/ DepositAmong(n, id) => HasItem(id)' \/ DepositAmong(n - 1, id)'
<1>1. requests \in Seq(Requests) /\ Len(requests) \in Nat \ {0}
  BY LenProperties, EmptySeq DEF TypeInv, TypeOK
<1>2. /\ Len(requests') = Len(requests) - 1 /\ NextRequest = requests[1]
      /\ \A i \in 1 .. Len(requests') : requests'[i] = requests[i + 1]
  BY <1>1, HeadTailProperties DEF NextRequest
<1>3. ASSUME NEW id \in AccountId, NEW n \in 1 .. Len(requests), HasItem(id) \/ DepositAmong(n, id)
      PROVE  HasItem(id)' \/ DepositAmong(n - 1, id)'
  <2>1. CASE HasItem(id)
    BY <2>1
  <2>2. ASSUME NEW i \in 1 .. n, requests[i].kind = "deposit", requests[i].tx.account = id
        PROVE  HasItem(id)' \/ DepositAmong(n - 1, id)'
    <3>1. CASE i = 1
      BY <1>2, <2>2, <3>1
    <3>2. CASE i # 1
      <4> DEFINE k == i - 1
      <4>1. k \in 1 .. n - 1 /\ k \in 1 .. Len(requests') /\ k + 1 = i
        BY <1>1, <1>2, <3>2
      <4>2. requests'[k] = requests[k + 1]
        BY <1>2, <4>1
      <4>3. requests'[k] = requests[i]
        BY <4>1, <4>2
      <4>4. requests'[k].kind = "deposit" /\ requests'[k].tx.account = id
        BY <2>2, <4>3
      <4> HIDE DEF k
      <4>5. DepositAmong(n - 1, id)'
        BY <4>1, <4>4 DEF DepositAmong
      <4> QED
        BY <4>5
    <3> QED
      BY <3>1, <3>2
  <2> QED
    BY <1>3, <2>1, <2>2 DEF DepositAmong
<1>4. ASSUME NEW id \in AccountId, Coming(id) PROVE Coming(id)'
  BY <1>1, <1>2, <1>3, <1>4 DEF Coming
<1> QED
  BY <1>2, <1>3, <1>4

LEMMA PanicStays ==
  ASSUME ExitPanicNeedsRace, raced \subseteq raced',
         keeper' = "exit panic" => keeper = "exit panic" /\ UNCHANGED memory
  PROVE  ExitPanicNeedsRace'
BY DEF ExitPanicNeedsRace

\* A step that appends to the queue or leaves it alone, and does nothing to
\* the map and the handlers.
LEMMA QueueGrowsInv ==
  ASSUME TypeInv, RaceInv, raced \subseteq raced', UNCHANGED <<book, handlerVars, memory, keeper>>,
         \/ UNCHANGED requests
         \/ \E r \in Requests : r.kind = "deposit" /\ Send(r)
  PROVE  RaceInv'
<1>1. ExitPanicNeedsRace'
  BY PanicStays DEF RaceInv
<1>2. requests \in Seq(Requests) /\ Len(requests) \in Nat
  BY LenProperties DEF TypeInv, TypeOK
<1>3. CASE UNCHANGED requests
  BY <1>1, <1>3 DEF RaceInv, ExitsFollow, ExitCovered, Backed, FoundBacked, HasItem, Coming,
     DepositAmong, RacedId, Inserting, handlerVars
<1>4. ASSUME NEW r \in Requests, r.kind = "deposit", Send(r) PROVE ExitsFollow'
  <2> SUFFICES ASSUME keeper = "running" PROVE ExitsFollow'
    BY DEF ExitsFollow
  <2>1. ASSUME NEW j \in 1 .. Len(requests') PROVE ExitCovered(j)'
    <3>1. CASE j = Len(requests) + 1
      BY <1>4, <3>1, SendKeepsComing DEF ExitCovered
    <3>2. CASE j # Len(requests) + 1
      <4>1. j \in 1 .. Len(requests) /\ requests'[j] = requests[j] /\ j - 1 \in 0 .. Len(requests)
        BY <1>2, <1>4, <3>2, SendKeepsComing
      <4>2. ExitCovered(j)
        BY <4>1 DEF RaceInv, ExitsFollow
      <4>3. \A id : DepositAmong(j - 1, id) => DepositAmong(j - 1, id)'
        BY <1>4, <4>1, SendKeepsComing
      <4>4. \A id : HasItem(id) \/ RacedId(id) => HasItem(id)' \/ RacedId(id)'
        BY DEF HasItem, RacedId
      <4> QED
        BY <4>1, <4>2, <4>3, <4>4 DEF ExitCovered
    <3> QED
      BY <3>1, <3>2
  <2>2. \A a \in DOMAIN book' : Backed(a)'
    BY <1>4, SendKeepsComing DEF RaceInv, ExitsFollow, Backed, Inserting, handlerVars
  <2>3. \A h \in Handler : FoundBacked(h)'
    BY <1>4, SendKeepsComing DEF RaceInv, ExitsFollow, FoundBacked, handlerVars
  <2> QED
    BY <2>1, <2>2, <2>3 DEF ExitsFollow
<1> QED
  BY <1>1, <1>3, <1>4 DEF RaceInv

\* A step of a handler that sends nothing: an address it enters in the map is
\* being inserted, and one it finds there is on its way or raced.
LEMMA HandlerOnlyInv ==
  ASSUME TypeInv, RaceInv, raced \subseteq raced', UNCHANGED <<requests, memory, keeper>>,
         \A a \in DOMAIN book' : a \in DOMAIN book \/ Inserting(a)',
         \A a \in DOMAIN book : Inserting(a) => Inserting(a)',
         \A h \in Handler : phase'[h] = "found" =>
           \/ phase[h] = "found" /\ address'[h] = address[h]
           \/ \E a \in DOMAIN book : address'[h] = a /\ (Inserting(a)' => a \in raced')
  PROVE  RaceInv'
<1>1. ExitPanicNeedsRace'
  BY PanicStays DEF RaceInv
<1>2. \A id : Coming(id) => Coming(id)'
  BY DEF Coming, HasItem, DepositAmong
<1>3. ExitsFollow'
  <2> SUFFICES ASSUME keeper = "running" PROVE ExitsFollow'
    BY DEF ExitsFollow
  <2>1. \A j \in 1 .. Len(requests') : ExitCovered(j)'
    BY DEF RaceInv, ExitsFollow, ExitCovered, HasItem, DepositAmong, RacedId
  <2>2. \A a \in DOMAIN book' : Backed(a)'
    BY <1>2 DEF RaceInv, ExitsFollow, Backed
  <2>3. ASSUME NEW h \in Handler PROVE FoundBacked(h)'
    <3>1. CASE phase[h] = "found" /\ address'[h] = address[h]
      BY <1>2, <3>1 DEF RaceInv, ExitsFollow, FoundBacked
    <3>2. ASSUME NEW a \in DOMAIN book, address'[h] = a, Inserting(a)' => a \in raced'
          PROVE  FoundBacked(h)'
      BY <1>2, <3>2 DEF RaceInv, ExitsFollow, Backed, FoundBacked
    <3> QED
      BY <3>1, <3>2 DEF FoundBacked
  <2> QED
    BY <2>1, <2>2, <2>3 DEF ExitsFollow
<1> QED
  BY <1>1, <1>3 DEF RaceInv

LEMMA EnterDepositRace ==
  ASSUME TypeInv, RaceInv, NEW h \in Handler, EnterDeposit(h), raced' = raced \cup RacingNow'
  PROVE  RaceInv'
<1>1. PICK a \in Address, amount \in Amount, key \in Key :
        /\ book' = [x \in DOMAIN book \cup {a} |-> IF x = a THEN IdOf[a] ELSE book[x]]
        /\ HandlerAt(h, "inserted", a,
             DepositRequest([account |-> IdOf[a], amount |-> amount, key |-> key]))
  BY DEF EnterDeposit
<1>2. /\ phase' = [phase EXCEPT ![h] = "inserted"] /\ address' = [address EXCEPT ![h] = a]
      /\ phase \in [Handler -> {"idle", "inserted", "found", "sent"}] /\ phase[h] = "idle"
      /\ address \in [Handler -> Address \cup {NoRequest}]
  BY <1>1 DEF HandlerAt, EnterDeposit, TypeInv, TypeOK, HandlersOK
<1>3. Inserting(a)' /\ \A x : Inserting(x) => Inserting(x)'
  BY <1>2 DEF Inserting
<1>4. \A g \in Handler : phase'[g] = "found" => phase[g] = "found" /\ address'[g] = address[g]
  BY <1>2
<1>5. UNCHANGED <<requests, memory, keeper>> /\ DOMAIN book' = DOMAIN book \cup {a}
  BY <1>1 DEF EnterDeposit, serverVars
<1> QED
  BY <1>3, <1>4, <1>5, HandlerOnlyInv

LEMMA FindExitRace ==
  ASSUME TypeInv, RaceInv, NEW h \in Handler, FindExit(h), raced' = raced \cup RacingNow'
  PROVE  RaceInv'
<1>1. PICK a \in Address :
        KnownAddress(a) /\ HandlerAt(h, "found", Entry(a), ExitRequest(book[Entry(a)]))
  BY DEF FindExit
<1> DEFINE e == Entry(a)
<1>2. /\ phase' = [phase EXCEPT ![h] = "found"] /\ address' = [address EXCEPT ![h] = e]
      /\ phase \in [Handler -> {"idle", "inserted", "found", "sent"}] /\ phase[h] = "idle"
      /\ address \in [Handler -> Address \cup {NoRequest}]
      /\ e \in DOMAIN book
  BY <1>1 DEF HandlerAt, FindExit, TypeInv, TypeOK, HandlersOK, KnownAddress
<1> HIDE DEF e
<1>3. \A x : Inserting(x) => Inserting(x)'
  BY <1>2 DEF Inserting
<1>4. Inserting(e)' => e \in raced'
  BY <1>2 DEF Inserting, RacingNow
<1>5. \A g \in Handler : phase'[g] = "found" =>
        \/ phase[g] = "found" /\ address'[g] = address[g]
        \/ \E x \in DOMAIN book : address'[g] = x /\ (Inserting(x)' => x \in raced')
  BY <1>2, <1>4
<1>6. UNCHANGED <<requests, memory, keeper, book>>
  BY DEF FindExit, serverVars
<1> QED
  BY <1>3, <1>5, <1>6, HandlerOnlyInv

LEMMA RemoveAddressRace ==
  ASSUME TypeInv, RaceInv, NEW h \in Handler, RemoveAddress(h), raced' = raced \cup RacingNow'
  PROVE  RaceInv'
<1>1. /\ phase' = [phase EXCEPT ![h] = "idle"] /\ address' = [address EXCEPT ![h] = NoRequest]
      /\ phase \in [Handler -> {"idle", "inserted", "found", "sent"}] /\ phase[h] = "sent"
      /\ address \in [Handler -> Address \cup {NoRequest}]
      /\ UNCHANGED <<requests, memory, keeper>> /\ DOMAIN book' \subseteq DOMAIN book
  BY DEF RemoveAddress, Answered, HandlerAt, TypeInv, TypeOK, HandlersOK, serverVars
<1>2. \A x : Inserting(x) => Inserting(x)'
  BY <1>1 DEF Inserting
<1>3. \A g \in Handler : phase'[g] = "found" => phase[g] = "found" /\ address'[g] = address[g]
  BY <1>1
<1> QED
  BY <1>1, <1>2, <1>3, HandlerOnlyInv

\* Without the keeper a handler just answers.
LEMMA AnsweredRace ==
  ASSUME TypeInv, RaceInv, NEW h \in Handler, Answered(h), raced \subseteq raced',
         UNCHANGED <<requests, memory, keeper>>, keeper # "running"
  PROVE  RaceInv'
<1>1. ExitPanicNeedsRace'
  BY PanicStays DEF RaceInv
<1> QED
  BY <1>1 DEF RaceInv, ExitsFollow

LEMMA SendDepositRace ==
  ASSUME TypeInv, RaceInv, NEW h \in Handler, SendDeposit(h), raced' = raced \cup RacingNow'
  PROVE  RaceInv'
<1>1. CASE ~KeeperListens
  BY <1>1, AnsweredRace DEF SendDeposit, KeeperListens, serverVars
<1>2. CASE KeeperListens
  <2> DEFINE r == request[h]
             a == address[h]
  <2>1. /\ r \in Requests /\ r.kind = "deposit" /\ r.tx.account = IdOf[a] /\ Send(r)
        /\ phase \in [Handler -> {"idle", "inserted", "found", "sent"}]
        /\ address \in [Handler -> Address \cup {NoRequest}]
        /\ phase[h] = "inserted" /\ keeper = "running"
        /\ UNCHANGED <<book, memory, keeper>>
        /\ phase' = [phase EXCEPT ![h] = "idle"] /\ address' = [address EXCEPT ![h] = NoRequest]
        /\ requests \in Seq(Requests) /\ Len(requests) \in Nat
    BY <1>2, LenProperties DEF SendDeposit, KeeperListens, TypeInv, TypeOK, HandlersOK, Answered,
       HandlerAt, serverVars
  <2> HIDE DEF r, a
  <2>2. /\ Len(requests') = Len(requests) + 1 /\ requests'[Len(requests) + 1] = r
        /\ \A i \in 1 .. Len(requests) : requests'[i] = requests[i]
        /\ \A id : Coming(id) => Coming(id)'
        /\ \A id : \A n \in 0 .. Len(requests) : DepositAmong(n, id) => DepositAmong(n, id)'
        /\ \A id : r.kind = "deposit" /\ r.tx.account = id => Coming(id)'
    BY <2>1, SendKeepsComing
  <2>3. ASSUME NEW j \in 1 .. Len(requests') PROVE ExitCovered(j)'
    <3>1. CASE j = Len(requests) + 1
      BY <2>1, <2>2, <3>1 DEF ExitCovered
    <3>2. CASE j # Len(requests) + 1
      <4>1. j \in 1 .. Len(requests) /\ requests'[j] = requests[j] /\ j - 1 \in 0 .. Len(requests)
        BY <2>1, <2>2, <3>2
      <4>2. ExitCovered(j)
        BY <2>1, <4>1 DEF RaceInv, ExitsFollow
      <4>3. \A id : DepositAmong(j - 1, id) => DepositAmong(j - 1, id)'
        BY <2>2, <4>1
      <4>4. \A id : HasItem(id) \/ RacedId(id) => HasItem(id)' \/ RacedId(id)'
        BY <2>1 DEF HasItem, RacedId
      <4> QED
        BY <4>1, <4>2, <4>3, <4>4 DEF ExitCovered
    <3> QED
      BY <3>1, <3>2
  <2>4. \A x : Inserting(x) => Inserting(x)' \/ x = a
    BY <2>1 DEF Inserting, a
  <2>5. \A x : x = a => Coming(IdOf[x])'
    BY <2>1, <2>2
  <2>6. \A x \in DOMAIN book' : Backed(x)'
    BY <2>1, <2>2, <2>4, <2>5 DEF RaceInv, ExitsFollow, Backed
  <2>7. ASSUME NEW g \in Handler PROVE FoundBacked(g)'
    <3>1. phase'[g] = "found" => phase[g] = "found" /\ address'[g] = address[g]
      BY <2>1
    <3>2. FoundBacked(g)
      BY <2>1 DEF RaceInv, ExitsFollow
    <3> QED
      BY <2>2, <3>1, <3>2 DEF FoundBacked
  <2>8. ExitPanicNeedsRace'
    BY <2>1, PanicStays DEF RaceInv
  <2> QED
    BY <2>3, <2>6, <2>7, <2>8 DEF RaceInv, ExitsFollow
<1> QED
  BY <1>1, <1>2

LEMMA SendExitRace ==
  ASSUME TypeInv, RaceInv, NEW h \in Handler, SendExit(h), raced' = raced \cup RacingNow'
  PROVE  RaceInv'
<1>1. CASE ~KeeperListens
  BY <1>1, AnsweredRace DEF SendExit, KeeperListens, serverVars
<1>2. CASE KeeperListens
  <2> DEFINE r == request[h]
             a == address[h]
  <2>1. /\ r \in Requests /\ r.tx.account = IdOf[a] /\ Send(r)
        /\ phase \in [Handler -> {"idle", "inserted", "found", "sent"}]
        /\ address \in [Handler -> Address \cup {NoRequest}]
        /\ phase[h] = "found" /\ keeper = "running"
        /\ UNCHANGED <<book, memory, keeper>>
        /\ phase' = [phase EXCEPT ![h] = "sent"] /\ address' = address
        /\ requests \in Seq(Requests) /\ Len(requests) \in Nat
    BY <1>2, LenProperties DEF SendExit, KeeperListens, TypeInv, TypeOK, HandlersOK, HandlerAt,
       serverVars
  <2>2. Coming(IdOf[a]) \/ RacedId(IdOf[a])
    <3>1. FoundBacked(h)
      BY <2>1 DEF RaceInv, ExitsFollow
    <3> QED
      BY <2>1, <3>1 DEF FoundBacked, RacedId
  <2> HIDE DEF r, a
  <2>3. /\ Len(requests') = Len(requests) + 1 /\ requests'[Len(requests) + 1] = r
        /\ \A i \in 1 .. Len(requests) : requests'[i] = requests[i]
        /\ \A id : Coming(id) => Coming(id)'
        /\ \A id : \A n \in 0 .. Len(requests) : DepositAmong(n, id) => DepositAmong(n, id)'
    BY <2>1, SendKeepsComing
  <2>4. \A id : HasItem(id) \/ RacedId(id) => HasItem(id)' \/ RacedId(id)'
    BY <2>1 DEF HasItem, RacedId
  <2>5. ASSUME NEW j \in 1 .. Len(requests') PROVE ExitCovered(j)'
    <3>1. CASE j = Len(requests) + 1
      <4>1. PICK id : id = IdOf[a]
        OBVIOUS
      <4>2. requests'[j].tx.account = id /\ j - 1 = Len(requests) /\ j - 1 \in 0 .. Len(requests)
        BY <2>1, <2>3, <3>1, <4>1
      <4>3. HasItem(id) \/ DepositAmong(j - 1, id) \/ RacedId(id)
        BY <2>2, <4>1, <4>2 DEF Coming
      <4>4. HasItem(id)' \/ DepositAmong(j - 1, id)' \/ RacedId(id)'
        BY <2>3, <2>4, <4>2, <4>3
      <4> QED
        BY <4>2, <4>4 DEF ExitCovered
    <3>2. CASE j # Len(requests) + 1
      <4>1. j \in 1 .. Len(requests) /\ requests'[j] = requests[j] /\ j - 1 \in 0 .. Len(requests)
        BY <2>1, <2>3, <3>2
      <4>2. ExitCovered(j)
        BY <2>1, <4>1 DEF RaceInv, ExitsFollow
      <4>3. \A id : DepositAmong(j - 1, id) => DepositAmong(j - 1, id)'
        BY <2>3, <4>1
      <4> QED
        BY <2>4, <4>1, <4>2, <4>3 DEF ExitCovered
    <3> QED
      BY <3>1, <3>2
  <2>6. \A x : Inserting(x) => Inserting(x)'
    BY <2>1 DEF Inserting
  <2>7. \A x \in DOMAIN book' : Backed(x)'
    BY <2>1, <2>3, <2>6 DEF RaceInv, ExitsFollow, Backed
  <2>8. ASSUME NEW g \in Handler PROVE FoundBacked(g)'
    <3>1. phase'[g] = "found" => phase[g] = "found" /\ address'[g] = address[g]
      BY <2>1
    <3>2. FoundBacked(g)
      BY <2>1 DEF RaceInv, ExitsFollow
    <3> QED
      BY <2>3, <3>1, <3>2 DEF FoundBacked
  <2>9. ExitPanicNeedsRace'
    BY <2>1, PanicStays DEF RaceInv
  <2> QED
    BY <2>5, <2>7, <2>8, <2>9 DEF RaceInv, ExitsFollow
<1> QED
  BY <1>1, <1>2

\* The keeper makes a block and goes on: of a request, or of transfers.
LEMMA ServedRace ==
  ASSUME TypeInv, RaceInv, UNCHANGED <<book, handlerVars>>, raced \subseteq raced',
         keeper = "running", keeper' \in {"running", "stopped"},
         \A id \in AccountId : HasItem(id) => HasItem(id)',
         keeper' = "running" =>
           \/ UNCHANGED requests
           \/ /\ requests # <<>> /\ requests' = Tail(requests)
              /\ \A id : NextRequest.kind = "deposit" /\ NextRequest.tx.account = id => HasItem(id)'
  PROVE  RaceInv'
<1>1. ExitPanicNeedsRace'
  BY DEF ExitPanicNeedsRace
<1>2. /\ requests \in Seq(Requests) /\ Len(requests) \in Nat
      /\ \A i \in 1 .. Len(requests) : requests[i] \in Requests
      /\ \A i \in 1 .. Len(requests) : requests[i].tx.account \in AccountId
  <2>1. requests \in Seq(Requests) /\ Len(requests) \in Nat
        /\ \A i \in 1 .. Len(requests) : requests[i] \in Requests
    BY LenProperties, ElementOfSeq DEF TypeInv, TypeOK
  <2> QED
    BY <2>1 DEF Requests, DepositTx
<1>3. \A a \in DOMAIN book : IdOf[a] \in AccountId
  BY ApiConstants DEF TypeInv, TypeOK
<1>4. \A h \in Handler : phase[h] = "found" => IdOf[address[h]] \in AccountId
  BY ApiConstants DEF TypeInv, TypeOK, HandlersOK
<1>5. ASSUME keeper' = "running", UNCHANGED requests PROVE ExitsFollow'
  <2>1. \A id \in AccountId : Coming(id) => Coming(id)'
    BY <1>5 DEF Coming, DepositAmong
  <2>2. \A j \in 1 .. Len(requests') : ExitCovered(j)'
    BY <1>2, <1>5 DEF RaceInv, ExitsFollow, ExitCovered, DepositAmong, RacedId
  <2>3. \A a \in DOMAIN book' : Backed(a)'
    BY <1>3, <2>1 DEF RaceInv, ExitsFollow, Backed, Inserting, handlerVars
  <2>4. \A h \in Handler : FoundBacked(h)'
    BY <1>4, <2>1 DEF RaceInv, ExitsFollow, FoundBacked, handlerVars
  <2> QED
    BY <2>2, <2>3, <2>4 DEF ExitsFollow
<1>6. ASSUME keeper' = "running", requests # <<>>, requests' = Tail(requests),
             \A id : NextRequest.kind = "deposit" /\ NextRequest.tx.account = id => HasItem(id)'
      PROVE  ExitsFollow'
  <2>1. /\ Len(requests') = Len(requests) - 1
        /\ \A i \in 1 .. Len(requests') : requests'[i] = requests[i + 1]
        /\ \A id \in AccountId : Coming(id) => Coming(id)'
        /\ \A id \in AccountId : \A n \in 1 .. Len(requests) :
             HasItem(id) \/ DepositAmong(n, id) => HasItem(id)' \/ DepositAmong(n - 1, id)'
    BY <1>6, TakenKeepsComing
  <2>2. ASSUME NEW j \in 1 .. Len(requests') PROVE ExitCovered(j)'
    <3> DEFINE k == j + 1
    <3>1. k \in 1 .. Len(requests) /\ j \in 1 .. Len(requests) /\ requests'[j] = requests[k]
      BY <1>2, <2>1
    <3>2. k - 1 = j
      BY <1>2, <2>1
    <3> HIDE DEF k
    <3>3. ExitCovered(k) /\ requests[k].tx.account \in AccountId
      BY <1>2, <3>1 DEF RaceInv, ExitsFollow
    <3>4. \A id : RacedId(id) => RacedId(id)'
      BY DEF RacedId
    <3> QED
      BY <2>1, <3>1, <3>2, <3>3, <3>4 DEF ExitCovered
  <2>3. \A a \in DOMAIN book' : Backed(a)'
    BY <1>3, <2>1 DEF RaceInv, ExitsFollow, Backed, Inserting, handlerVars
  <2>4. \A h \in Handler : FoundBacked(h)'
    BY <1>4, <2>1 DEF RaceInv, ExitsFollow, FoundBacked, handlerVars
  <2> QED
    BY <2>2, <2>3, <2>4 DEF ExitsFollow
<1>7. keeper' # "running" => ExitsFollow'
  BY DEF ExitsFollow
<1> QED
  BY <1>1, <1>5, <1>6, <1>7 DEF RaceInv

LEMMA KeeperRace ==
  ASSUME TypeInv, RaceInv, Keeper, raced \subseteq raced'
  PROVE  RaceInv'
<1>1. TypeOK /\ UNCHANGED <<book, handlerVars>>
  BY DEF TypeInv, Keeper, ServeDeposit, ServeExit, ExitPanics, TransferBlock
<1>2. CASE ServeDeposit
  <2>1. /\ requests # <<>> /\ NextRequest.tx \in DepositTx /\ MakeDepositBlock(NextRequest.tx)
        /\ keeper' = "running" => requests' = Tail(requests)
    BY <1>1, <1>2, NextRequestType DEF ServeDeposit, Taken
  <2>2. /\ keeper = "running" /\ keeper' \in {"running", "stopped"}
        /\ \A id \in AccountId :
             memory[id] # Absent \/ id = NextRequest.tx.account => memory'[id] # Absent
    BY <1>1, <2>1, DepositBlockType
  <2>3. NextRequest.tx.account \in AccountId
    BY <2>1 DEF DepositTx
  <2>4. \A id \in AccountId : HasItem(id) => HasItem(id)'
    BY <2>2 DEF HasItem
  <2>5. \A id : NextRequest.kind = "deposit" /\ NextRequest.tx.account = id => HasItem(id)'
    BY <2>2, <2>3 DEF HasItem
  <2> QED
    BY <1>1, <2>1, <2>2, <2>4, <2>5, ServedRace
<1>3. CASE ServeExit
  <2>1. /\ requests # <<>> /\ NextRequest.tx.account \in AccountId
        /\ NextRequest.kind = "exit" /\ MakeExitBlock(NextRequest.tx.account)
        /\ keeper' = "running" => requests' = Tail(requests)
    BY <1>1, <1>3, NextRequestType DEF ServeExit, Taken
  <2>2. /\ keeper = "running" /\ keeper' \in {"running", "stopped"}
        /\ \A id \in AccountId : memory[id] # Absent => memory'[id] # Absent
    BY <1>1, <2>1, ExitBlockType
  <2>3. \A id \in AccountId : HasItem(id) => HasItem(id)'
    BY <2>2 DEF HasItem
  <2> QED
    BY <1>1, <2>1, <2>2, <2>3, ServedRace
<1>4. CASE ExitPanics
  <2>1. /\ keeper = "running" /\ requests # <<>> /\ NextRequest.kind = "exit"
        /\ memory[NextRequest.tx.account] = Absent /\ keeper' = "exit panic" /\ UNCHANGED memory
    BY <1>4 DEF ExitPanics, KeeperListens, ExitValid
  <2>2. requests \in Seq(Requests) /\ Len(requests) \in Nat \ {0}
    BY <1>1, <2>1, LenProperties, EmptySeq DEF TypeOK
  <2>3. NextRequest = requests[1]
    BY <2>2, HeadTailProperties DEF NextRequest
  <2>4. ExitCovered(1)
    <3>1. 1 \in 1 .. Len(requests)
      BY <2>2
    <3>2. \A j \in 1 .. Len(requests) : ExitCovered(j)
      BY <2>1 DEF RaceInv, ExitsFollow
    <3> QED
      BY <3>1, <3>2
  <2>5. ~DepositAmong(1 - 1, requests[1].tx.account)
    BY DEF DepositAmong
  <2>6. RacedId(NextRequest.tx.account)
    BY <2>1, <2>3, <2>4, <2>5 DEF ExitCovered, HasItem
  <2>7. PICK a \in raced : IdOf[a] = NextRequest.tx.account
    BY <2>6 DEF RacedId
  <2>8. a \in raced' /\ memory'[IdOf[a]] = Absent
    BY <2>1, <2>7
  <2> QED
    BY <2>1, <2>8 DEF RaceInv, ExitsFollow, ExitPanicNeedsRace
<1>5. CASE TransferBlock
  <2>1. PICK tx \in Transfers : MakeTransferBlock(tx)
    BY <1>5 DEF TransferBlock
  <2>2. /\ keeper = "running" /\ keeper' \in {"running", "stopped"}
        /\ \A id \in AccountId : memory[id] # Absent => memory'[id] # Absent
    BY <1>1, <2>1, TransferBlockType
  <2>3. keeper' = "running" => UNCHANGED requests
    BY <1>5 DEF TransferBlock
  <2>4. \A id \in AccountId : HasItem(id) => HasItem(id)'
    BY <2>2 DEF HasItem
  <2> QED
    BY <1>1, <2>2, <2>3, <2>4, ServedRace
<1> QED
  BY <1>2, <1>3, <1>4, <1>5 DEF Keeper

LEMMA RaceInvNext == TypeInv /\ RaceInv /\ [Next]_allVars => RaceInv'
<1> SUFFICES ASSUME TypeInv, RaceInv, [Next]_allVars PROVE RaceInv'
  OBVIOUS
<1>1. ASSUME Running, raced' = raced \cup RacingNow' PROVE RaceInv'
  <2>1. CASE StartChecked \/ StartUnchecked \/ PlainDeposit
    <3>1. UNCHANGED <<book, handlerVars, memory, keeper>>
      BY <2>1 DEF StartChecked, StartUnchecked, PlainDeposit, serverVars
    <3>2. \/ UNCHANGED requests
          \/ \E r \in Requests : r.kind = "deposit" /\ Send(r)
      BY <2>1, RequestFacts, ServerConstants
         DEF StartChecked, StartUnchecked, PlainDeposit, DepositRequest, PaddingDeposit
    <3> QED
      BY <1>1, <3>1, <3>2, QueueGrowsInv
  <2>2. ASSUME NEW h \in Handler, Work(h) PROVE RaceInv'
    BY <1>1, <2>2, EnterDepositRace, SendDepositRace, FindExitRace, SendExitRace,
       RemoveAddressRace DEF Work
  <2>3. CASE Keeper
    BY <1>1, <2>3, KeeperRace
  <2>4. CASE /\ CommitBlock \/ CommitterPanics
             /\ UNCHANGED <<book, requests, startup, handlerVars, depositors>>
    <3>1. UNCHANGED <<book, handlerVars, memory, keeper, requests>>
      BY <2>4 DEF CommitBlock, CommitterPanics
    <3> QED
      BY <1>1, <3>1, QueueGrowsInv
  <2> QED
    BY <1>1, <2>1, <2>2, <2>3, <2>4 DEF Running
<1>2. CASE RestartAll
  <2>1. /\ keeper' = "running" /\ requests' = <<>> /\ DOMAIN book' = {}
        /\ \A h \in Handler : phase'[h] = "idle"
    BY <1>2 DEF RestartAll, Restart
  <2>2. Len(requests') = 0
    BY <2>1
  <2>3. ExitsFollow'
    BY <2>1, <2>2 DEF ExitsFollow, FoundBacked
  <2>4. ExitPanicNeedsRace'
    BY <2>1 DEF ExitPanicNeedsRace
  <2> QED
    BY <2>3, <2>4 DEF RaceInv
<1>3. CASE UNCHANGED allVars
  <2>1. UNCHANGED <<book, handlerVars, memory, keeper, requests, raced>>
    BY <1>3 DEF allVars, apiVars, serverVars
  <2> QED
    BY <2>1, QueueGrowsInv
<1> QED
  BY <1>1, <1>2, <1>3 DEF Next

\* The state keeper does not panic for want of an account to exit, unless a
\* deposit for the address was on its way while the exit was: for any number
\* of handlers, addresses that share an id, stops and restarts.
THEOREM PanicNeedsRace == Spec => []ExitPanicNeedsRace
<1>1. Spec => []RaceInv
  BY RaceInvInit, RaceInvNext, TypeInvariant, PTL DEF Spec
<1>2. RaceInv => ExitPanicNeedsRace
  BY DEF RaceInv
<1> QED
  BY <1>1, <1>2, PTL

----------------------------------------------------------------------------
\* Addresses stay in the map

\* A deposit that is on its way, or was sent after the last exit, has its
\* address in the map, unless an exit was at work on it; an exit that was sent
\* leaves no such deposit behind, but one that raced it.
EntriesStay ==
  /\ RacingNow \subseteq raced
  /\ \A id \in AccountId : \A a \in depositors[id] : a \in Address /\ IdOf[a] = id
  /\ \A h \in Handler :
       phase[h] = "inserted" => address[h] \in DOMAIN book \/ address[h] \in raced
  /\ \A id \in AccountId : \A a \in depositors[id] : a \in DOMAIN book \/ a \in raced
  /\ \A h \in Handler : phase[h] = "sent" =>
       \A id \in AccountId : address[h] \in depositors[id] => address[h] \in raced

LEMMA EntriesStayInit == Init => EntriesStay
BY DEF Init, ApiInit, EntriesStay, RacingNow

LEMMA EntriesStayWork ==
  ASSUME TypeInv, EntriesStay, NEW h \in Handler, Work(h), raced' = raced \cup RacingNow'
  PROVE  EntriesStay'
<1>1. /\ phase \in [Handler -> {"idle", "inserted", "found", "sent"}]
      /\ address \in [Handler -> Address \cup {NoRequest}]
      /\ depositors \in [AccountId -> SUBSET Address]
      /\ \A g \in Handler : phase[g] # "idle" =>
           address[g] \in Address /\ request[g].tx.account = IdOf[address[g]]
  BY DEF TypeInv, TypeOK, HandlersOK
<1>2. RacingNow' \subseteq raced'
  OBVIOUS
<1>3. CASE EnterDeposit(h)
  <2>1. PICK a \in Address :
          /\ DOMAIN book' = DOMAIN book \cup {a} /\ UNCHANGED depositors
          /\ phase[h] = "idle"
          /\ phase' = [phase EXCEPT ![h] = "inserted"] /\ address' = [address EXCEPT ![h] = a]
    BY <1>3 DEF EnterDeposit, HandlerAt
  <2> QED
    BY <1>1, <1>2, <2>1 DEF EntriesStay
<1>4. CASE SendDeposit(h)
  <2>1. /\ phase[h] = "inserted" /\ UNCHANGED book
        /\ phase' = [phase EXCEPT ![h] = "idle"] /\ address' = [address EXCEPT ![h] = NoRequest]
        /\ \/ UNCHANGED depositors
           \/ depositors' = [depositors EXCEPT ![IdOf[address[h]]] = @ \cup {address[h]}]
    BY <1>1, <1>4 DEF SendDeposit, Answered, HandlerAt
  <2>2. address[h] \in Address /\ IdOf[address[h]] \in AccountId
    BY <1>1, <2>1, ApiConstants
  <2>3. \A g \in Handler : phase[g] = "sent" /\ address[g] = address[h] => address[h] \in raced
    BY <2>1 DEF EntriesStay, RacingNow
  <2>4. \A id \in AccountId : \A a \in depositors'[id] :
          a \in depositors[id] \/ (a = address[h] /\ id = IdOf[a])
    BY <1>1, <2>1, <2>2
  <2> QED
    BY <1>1, <1>2, <2>1, <2>2, <2>3, <2>4 DEF EntriesStay
<1>5. CASE FindExit(h)
  <2>1. PICK a :
          /\ UNCHANGED <<book, depositors>> /\ phase[h] = "idle"
          /\ phase' = [phase EXCEPT ![h] = "found"] /\ address' = [address EXCEPT ![h] = a]
    BY <1>5 DEF FindExit, HandlerAt
  <2> QED
    BY <1>1, <1>2, <2>1 DEF EntriesStay
<1>6. CASE SendExit(h)
  <2>1. /\ phase[h] = "found" /\ UNCHANGED book
        /\ \/ /\ depositors' = [depositors EXCEPT ![IdOf[address[h]]] = {}]
              /\ phase' = [phase EXCEPT ![h] = "sent"] /\ address' = [address EXCEPT ![h] = address[h]]
           \/ /\ UNCHANGED depositors
              /\ phase' = [phase EXCEPT ![h] = "idle"] /\ address' = [address EXCEPT ![h] = NoRequest]
    BY <1>1, <1>6 DEF SendExit, Answered, HandlerAt
  <2>2. \A id \in AccountId : \A a \in depositors'[id] : a \in depositors[id]
    BY <1>1, <2>1
  <2>3. \A id \in AccountId : phase'[h] = "sent" => address[h] \notin depositors'[id]
    BY <1>1, <2>1 DEF EntriesStay
  <2> QED
    BY <1>1, <1>2, <2>1, <2>2, <2>3 DEF EntriesStay
<1>7. CASE RemoveAddress(h)
  <2>1. /\ phase[h] = "sent" /\ UNCHANGED depositors /\ DOMAIN book' = DOMAIN book \ {address[h]}
        /\ phase' = [phase EXCEPT ![h] = "idle"] /\ address' = [address EXCEPT ![h] = NoRequest]
    BY <1>7 DEF RemoveAddress, Answered, HandlerAt
  <2>2. \A g \in Handler : phase[g] = "inserted" /\ address[g] = address[h] => address[h] \in raced
    BY <2>1 DEF EntriesStay, RacingNow
  <2> QED
    BY <1>1, <1>2, <2>1, <2>2 DEF EntriesStay
<1> QED
  BY <1>3, <1>4, <1>5, <1>6, <1>7 DEF Work

LEMMA EntriesStayNext == TypeInv /\ EntriesStay /\ [Next]_allVars => EntriesStay'
<1> SUFFICES ASSUME TypeInv, EntriesStay, [Next]_allVars PROVE EntriesStay'
  OBVIOUS
<1>1. ASSUME Running, raced' = raced \cup RacingNow' PROVE EntriesStay'
  <2>1. ASSUME NEW h \in Handler, Work(h) PROVE EntriesStay'
    BY <1>1, <2>1, EntriesStayWork
  <2>2. ASSUME UNCHANGED <<book, handlerVars, depositors>> PROVE EntriesStay'
    BY <1>1, <2>2 DEF EntriesStay, RacingNow, handlerVars
  <2> QED
    BY <1>1, <2>1, <2>2 DEF Running, StartChecked, StartUnchecked, PlainDeposit, Keeper,
       ServeDeposit, ServeExit, ExitPanics, TransferBlock
<1>2. CASE RestartAll
  BY <1>2 DEF RestartAll, EntriesStay, RacingNow
<1>3. CASE UNCHANGED allVars
  BY <1>3 DEF allVars, apiVars, handlerVars, EntriesStay, RacingNow
<1> QED
  BY <1>1, <1>2, <1>3 DEF Next

\* Who deposited finds the account again until an exit of it was sent, unless
\* an exit was at work on the same address during the deposit.
THEOREM DepositorsFindTheirAccount == Spec => []DepositorsCanExit
<1>1. Spec => []EntriesStay
  BY EntriesStayInit, EntriesStayNext, TypeInvariant, PTL DEF Spec
<1>2. TypeInv /\ EntriesStay => DepositorsCanExit
  BY DEF TypeInv, TypeOK, EntriesStay, DepositorsCanExit, KnownAddress, Entry
<1> QED
  BY <1>1, <1>2, TypeInvariant, PTL

----------------------------------------------------------------------------
\* The padding account

\* What was written of an account, or waits to be written, is of one the
\* keeper has, and a start finds it again: blocks have numbers from 1 on.
Keeps(ledger, block) ==
  block.number > 0 /\ \A id \in AccountId : block.updated[id] # Absent => ledger[id] # Absent

LedgerKeeps ==
  /\ nextBlock > 0
  /\ \A row \in accountUpdates : row.block > 0 /\ memory[row.id] # Absent
  /\ \A i \in 1 .. Len(channel) : Keeps(memory, channel[i])

\* Nothing is asked for before the start is over.
StartFirst ==
  startup = "pending" => requests = <<>> /\ \A h \in Handler : phase[h] = "idle"

PaddingInv == LedgerKeeps /\ StartFirst /\ PaddingFirst

LEMMA RestoredKeeps ==
  ASSUME TablesOK, \A row \in accountUpdates : row.block > 0
  PROVE  /\ Resumed.block + 1 > 0
         /\ \A row \in accountUpdates : Resumed.ledger[row.id] # Absent
<1>1. Resumed.block + 1 > 0
  BY ResumedType
<1>2. ASSUME NEW row \in accountUpdates PROVE Resumed.ledger[row.id] # Absent
  <2> DEFINE id   == row.id
             rows == UnverifiedUpdates(id)
  <2>1. id \in AccountId /\ row.block \in Nat
    BY DEF TablesOK
  <2>2. rows = RowsOf(id)
    BY NothingVerified DEF UnverifiedUpdates, RowsOf
  <2>3. row \in RowsOf(id) /\ HasNewest(RowsOf(id))
    BY <2>1 DEF RowsOf, TablesOK
  <2>4. \E r \in rows : \A other \in rows : other.block <= r.block
    BY <2>2, <2>3 DEF HasNewest
  <2>5. \A r \in rows : r.account # Absent
    BY <2>2, AbsentIsNoAccount DEF RowsOf, TablesOK
  <2>6. rows # {}
    BY <2>2, <2>3
  <2> HIDE DEF id, rows
  <2>7. NewestUpdate(rows, LoadVerifiedState.ledger[id]) # Absent
    BY <2>4, <2>5, <2>6 DEF NewestUpdate
  <2>8. Resumed.ledger[id] = NewestUpdate(rows, LoadVerifiedState.ledger[id])
    BY <2>1 DEF Resumed, LoadCommittedState, rows
  <2> QED
    BY <2>7, <2>8 DEF id
<1> QED
  BY <1>1, <1>2

LEMMA LedgerKeepsInit == Init => LedgerKeeps
<1> SUFFICES ASSUME Init PROVE LedgerKeeps
  OBVIOUS
<1>1. TypeInv /\ accountUpdates = {} /\ channel = <<>> /\ nextBlock = Resumed.block + 1
  BY TypeInvInit DEF Init, EmptyTables, ServerInit
<1>2. Len(channel) = 0 /\ nextBlock > 0
  BY <1>1, RestoredKeeps DEF TypeInv
<1> QED
  BY <1>1, <1>2 DEF LedgerKeeps

\* A block whose accounts are in the new ledger.
LEMMA SendBlockKeeps ==
  ASSUME TypeOK, LedgerKeeps, NEW kind, NEW txs, NEW l, NEW touched,
         SendBlock(kind, txs, l, touched),
         \A id \in AccountId : memory[id] # Absent \/ id \in touched => l[id] # Absent
  PROVE  LedgerKeeps'
<1> DEFINE b == CommittedBlock(nextBlock, kind, txs, l, touched)
<1>1. /\ memory' = l /\ nextBlock' = nextBlock + 1 /\ UNCHANGED accountUpdates
      /\ channel' = channel \/ channel' = Append(channel, b)
  BY DEF SendBlock, tables
<1>2. nextBlock \in Nat /\ nextBlock > 0 /\ channel \in Seq(Blocks)
  BY DEF TypeOK, LedgerKeeps
<1>3. \A id \in AccountId : memory[id] # Absent => memory'[id] # Absent
  BY <1>1
<1>4. Keeps(memory', b)
  <2>1. b.number = nextBlock
    BY DEF CommittedBlock
  <2>2. b.updated = [id \in AccountId |-> IF id \in touched THEN Leaf(l, id) ELSE Absent]
    BY DEF CommittedBlock
  <2>3. \A id \in AccountId : b.updated[id] # Absent => id \in touched
    BY <2>2
  <2> QED
    BY <1>1, <1>2, <2>1, <2>3 DEF Keeps
<1> HIDE DEF b
<1>5. \A i \in 1 .. Len(channel) : Keeps(memory', channel[i])
  BY <1>3 DEF LedgerKeeps, Keeps
<1>6. \A i \in 1 .. Len(channel') : Keeps(memory', channel'[i])
  <2>1. CASE channel' = channel
    BY <1>5, <2>1
  <2>2. CASE channel' = Append(channel, b)
    <3>1. channel \in Seq(Blocks \cup {b})
      BY <1>2, SeqMonotonic
    <3>2. /\ Len(channel) \in Nat
          /\ Len(channel') = Len(channel) + 1
          /\ \A i \in 1 .. Len(channel) : channel'[i] = channel[i]
          /\ channel'[Len(channel) + 1] = b
      BY <2>2, <3>1, AppendProperties, LenProperties
    <3> QED
      BY <1>4, <1>5, <3>2
  <2> QED
    BY <1>1, <2>1, <2>2
<1>7. \A row \in accountUpdates : row.block > 0 /\ memory'[row.id] # Absent
  BY <1>3 DEF LedgerKeeps, TypeOK
<1>8. nextBlock' > 0
  BY <1>1, <1>2
<1> QED
  BY <1>1, <1>6, <1>7, <1>8 DEF LedgerKeeps

LEMMA KeeperKeeps ==
  ASSUME TypeOK, LedgerKeeps, Keeper
  PROVE  /\ LedgerKeeps'
         /\ \A id \in AccountId : memory[id] # Absent => memory'[id] # Absent
<1>1. memory \in Ledgers
  BY DEF TypeOK
<1>2. CASE ServeDeposit
  <2> DEFINE tx == NextRequest.tx
  <2>1. tx \in DepositTx /\ SendBlock("deposit", <<tx>>, ApplyDeposit(memory, tx), {tx.account})
    BY <1>2, NextRequestType DEF ServeDeposit, MakeDepositBlock
  <2> HIDE DEF tx
  <2>2. \A id \in AccountId :
          memory[id] # Absent \/ id \in {tx.account} => ApplyDeposit(memory, tx)[id] # Absent
    BY <1>1, <2>1, ApplyDepositType
  <2>3. memory' = ApplyDeposit(memory, tx)
    BY <2>1 DEF SendBlock
  <2> QED
    BY <2>1, <2>2, <2>3, SendBlockKeeps
<1>3. CASE ServeExit
  <2> DEFINE account == NextRequest.tx.account
             txs     == <<[account |-> account, amount |-> memory[account].balance]>>
  <2>1. account \in AccountId /\ SendBlock("exit", txs, ApplyExit(memory, account), {account})
    BY <1>3, NextRequestType DEF ServeExit, MakeExitBlock
  <2> HIDE DEF account, txs
  <2>2. \A id \in AccountId :
          memory[id] # Absent \/ id \in {account} => ApplyExit(memory, account)[id] # Absent
    BY <1>1, <2>1, ApplyExitType
  <2>3. memory' = ApplyExit(memory, account)
    BY <2>1 DEF SendBlock
  <2> QED
    BY <2>1, <2>2, <2>3, SendBlockKeeps
<1>4. CASE ExitPanics
  BY <1>4 DEF ExitPanics, LedgerKeeps, tables
<1>5. CASE TransferBlock
  <2>1. PICK tx \in Transfers : MakeTransferBlock(tx)
    BY <1>5 DEF TransferBlock
  <2>2. /\ tx \in TransferTx /\ TransferValid(memory, tx, nextBlock)
        /\ SendBlock("transfer", <<tx>>, ApplyTransfer(memory, tx), {tx.from, tx.to})
    BY <2>1, ServerConstants DEF MakeTransferBlock
  <2>3. \A id \in AccountId :
          memory[id] # Absent \/ id \in {tx.from, tx.to} => ApplyTransfer(memory, tx)[id] # Absent
    BY <1>1, <2>2, ApplyTransferType
  <2>4. memory' = ApplyTransfer(memory, tx)
    BY <2>2 DEF SendBlock
  <2> QED
    BY <2>2, <2>3, <2>4, SendBlockKeeps
<1> QED
  BY <1>2, <1>3, <1>4, <1>5 DEF Keeper

LEMMA CommitterKeeps ==
  ASSUME TypeOK, LedgerKeeps, CommitBlock \/ CommitterPanics
  PROVE  LedgerKeeps'
<1>1. UNCHANGED <<memory, nextBlock>>
  BY DEF CommitBlock, CommitterPanics
<1>2. CASE CommitBlock
  <2> DEFINE b == Head(channel)
  <2>1. channel \in Seq(Blocks) /\ channel # <<>> /\ channel' = Tail(channel)
    BY <1>2 DEF CommitBlock, TypeOK
  <2>2. /\ b = channel[1] /\ 1 \in 1 .. Len(channel)
        /\ \A i \in 1 .. Len(channel') : /\ channel'[i] = channel[i + 1]
                                         /\ i + 1 \in 1 .. Len(channel)
    <3>1. Len(channel) \in Nat \ {0}
      BY <2>1, LenProperties, EmptySeq
    <3> QED
      BY <2>1, <3>1, HeadTailProperties
  <2>3. accountUpdates' = accountUpdates \cup UpdateRows(b)
    BY <1>2 DEF CommitBlock, CommitOperation
  <2> HIDE DEF b
  <2>4. Keeps(memory, b)
    BY <2>2 DEF LedgerKeeps
  <2>5. \A row \in UpdateRows(b) : row.block > 0 /\ memory[row.id] # Absent
    BY <2>4 DEF UpdateRows, Keeps
  <2>6. \A i \in 1 .. Len(channel') : Keeps(memory, channel'[i])
    BY <2>2 DEF LedgerKeeps
  <2> QED
    BY <1>1, <2>3, <2>5, <2>6 DEF LedgerKeeps
<1>3. CASE CommitterPanics
  <2>1. Len(channel') = 0 /\ UNCHANGED accountUpdates
    BY <1>3 DEF CommitterPanics, tables
  <2> QED
    BY <1>1, <2>1 DEF LedgerKeeps
<1> QED
  BY <1>2, <1>3

LEMMA LedgerKeepsNext == TypeInv /\ LedgerKeeps /\ [Next]_allVars => LedgerKeeps'
<1> SUFFICES ASSUME TypeInv, LedgerKeeps, [Next]_allVars PROVE LedgerKeeps'
  OBVIOUS
<1>1. CASE Keeper
  BY <1>1, KeeperKeeps DEF TypeInv
<1>2. CASE CommitBlock \/ CommitterPanics
  BY <1>2, CommitterKeeps DEF TypeInv
<1>3. CASE UNCHANGED <<tables, serverVars>>
  BY <1>3 DEF LedgerKeeps, tables, serverVars
<1>4. CASE RestartAll
  <2>1. /\ memory' = Resumed.ledger /\ nextBlock' = Resumed.block + 1 /\ channel' = <<>>
        /\ UNCHANGED accountUpdates
    BY <1>4 DEF RestartAll, Restart, tables
  <2>2. Len(channel') = 0
    BY <2>1
  <2> QED
    BY <2>1, <2>2, RestoredKeeps DEF TypeInv, LedgerKeeps
<1>5. CASE \/ StartChecked \/ StartUnchecked \/ PlainDeposit
           \/ \E h \in Handler : Work(h)
           \/ UNCHANGED allVars
  BY <1>3, <1>5 DEF StartChecked, StartUnchecked, PlainDeposit, Work, EnterDeposit, SendDeposit,
     FindExit, SendExit, RemoveAddress, allVars
<1> QED
  BY <1>1, <1>2, <1>4, <1>5 DEF Next, Running

LEMMA StartFirstNext == TypeInv /\ StartFirst /\ [Next]_allVars => StartFirst'
<1> SUFFICES ASSUME TypeInv, StartFirst, [Next]_allVars, startup' = "pending"
             PROVE  requests' = <<>> /\ \A h \in Handler : phase'[h] = "idle"
  BY DEF StartFirst
<1>1. CASE RestartAll
  BY <1>1 DEF RestartAll
<1>2. CASE Running \/ UNCHANGED allVars
  <2>1. CASE startup = "pending"
    <3>1. requests = <<>> /\ \A h \in Handler : phase[h] = "idle"
      BY <2>1 DEF StartFirst
    <3>2. ~ \E h \in Handler : Work(h)
      BY <2>1, <3>1 DEF Work, EnterDeposit, SendDeposit, FindExit, SendExit, RemoveAddress, Serving
    <3>3. ~PlainDeposit /\ ~ServeDeposit /\ ~ServeExit /\ ~ExitPanics
      BY <2>1, <3>1 DEF PlainDeposit, Serving, ServeDeposit, ServeExit, ExitPanics
    <3>4. ~StartChecked /\ ~StartUnchecked
      BY DEF StartChecked, StartUnchecked
    <3>5. UNCHANGED phase /\ (UNCHANGED requests \/ requests' = <<>>)
      BY <1>2, <3>2, <3>3, <3>4 DEF Running, Keeper, TransferBlock, allVars, apiVars, handlerVars
    <3> QED
      BY <3>1, <3>5
  <2>2. CASE startup # "pending"
    BY <1>2, <2>2 DEF Running, StartChecked, StartUnchecked, Work, EnterDeposit, SendDeposit,
       FindExit, SendExit, RemoveAddress, PlainDeposit, Keeper, ServeDeposit, ServeExit,
       ExitPanics, TransferBlock, allVars, apiVars
  <2> QED
    BY <2>1, <2>2
<1> QED
  BY <1>1, <1>2 DEF Next

\* The check of the start finds the account when it is there or was written.
LEMMA StartDeposits ==
  ASSUME TypeInv, LedgerKeeps, StartFirst, StartChecked
  PROVE  PaddingFirst'
<1>1. /\ startup = "pending" /\ requests = <<>> /\ UNCHANGED <<memory, keeper>>
  BY DEF StartChecked, StartFirst, serverVars
<1>2. SUFFICES ASSUME memory[PaddingId] = Absent, keeper = "running"
               PROVE  requests' # <<>> /\ Head(requests') = PaddingDeposit
  BY <1>1 DEF PaddingFirst
<1>3. {row \in accountUpdates : row.id = PaddingId} = {}
  BY <1>2 DEF LedgerKeeps
<1>4. LastCommittedStateForAccount(PaddingId) = Absent
  BY <1>3 DEF LastCommittedStateForAccount, NewestUpdate
<1>5. requests' = Append(requests, PaddingDeposit)
  BY <1>2, <1>4 DEF StartChecked, KeeperListens, Send
<1>6. requests \in Seq(Requests)
  BY DEF TypeInv, TypeOK
<1> QED
  BY <1>1, <1>5, <1>6, HeadTailAppend, AppendProperties, RequestFacts

\* Later requests wait behind it.
LEMMA QueueKeepsPadding ==
  ASSUME TypeInv, PaddingFirst, UNCHANGED <<startup, memory, keeper>>,
         UNCHANGED requests \/ \E r \in Requests : Send(r)
  PROVE  PaddingFirst'
<1>1. CASE UNCHANGED requests
  BY <1>1 DEF PaddingFirst
<1>2. ASSUME NEW r \in Requests, Send(r) PROVE PaddingFirst'
  <2>1. requests \in Seq(Requests) /\ requests' = Append(requests, r)
    BY <1>2 DEF TypeInv, TypeOK, Send
  <2>2. /\ requests' # <<>>
        /\ Head(requests') = IF requests = <<>> THEN r ELSE Head(requests)
    BY <2>1, HeadTailAppend, AppendProperties
  <2> QED
    BY <2>2 DEF PaddingFirst
<1> QED
  BY <1>1, <1>2

LEMMA KeeperServesPadding ==
  ASSUME TypeInv, LedgerKeeps, PaddingFirst, Keeper
  PROVE  PaddingFirst'
<1>1. /\ UNCHANGED startup
      /\ \A id \in AccountId : memory[id] # Absent => memory'[id] # Absent
  BY KeeperKeeps DEF TypeInv, Keeper, ServeDeposit, ServeExit, ExitPanics, TransferBlock
<1>2. keeper = "running"
  BY DEF Keeper, ServeDeposit, ServeExit, ExitPanics, TransferBlock, MakeDepositBlock,
     MakeExitBlock, MakeTransferBlock, SendBlock, KeeperListens
<1> SUFFICES ASSUME startup = "checked", keeper' = "running", memory'[PaddingId] = Absent
             PROVE  requests' # <<>> /\ Head(requests') = PaddingDeposit
  BY <1>1 DEF PaddingFirst
<1>3. memory[PaddingId] = Absent
  BY <1>1, ApiConstants
<1>4. requests # <<>> /\ NextRequest = PaddingDeposit
  BY <1>2, <1>3 DEF PaddingFirst, NextRequest
<1>5. NextRequest.kind = "deposit" /\ NextRequest.tx.account = PaddingId
  BY <1>4 DEF PaddingDeposit, DepositRequest
<1>6. ~ServeDeposit
  <2> SUFFICES ASSUME ServeDeposit PROVE FALSE
    OBVIOUS
  <2>1. NextRequest.tx \in DepositTx /\ MakeDepositBlock(NextRequest.tx)
    BY <1>4, <1>5, NextRequestType DEF ServeDeposit, TypeInv
  <2>2. memory'[PaddingId] # Absent
    BY <1>5, <2>1, DepositBlockType, ApiConstants DEF TypeInv
  <2> QED
    BY <2>2
<1>7. ~ServeExit /\ ~ExitPanics
  BY <1>5 DEF ServeExit, ExitPanics
<1>8. UNCHANGED requests
  BY <1>6, <1>7 DEF Keeper, TransferBlock
<1> QED
  BY <1>4, <1>8 DEF NextRequest

LEMMA PaddingFirstNext ==
  ASSUME TypeInv, LedgerKeeps, StartFirst, PaddingFirst, [Next]_allVars
  PROVE  PaddingFirst'
<1>1. CASE StartChecked
  BY <1>1, StartDeposits
<1>2. CASE StartUnchecked \/ RestartAll
  BY <1>2 DEF StartUnchecked, RestartAll, PaddingFirst
<1>3. CASE Keeper
  BY <1>3, KeeperServesPadding
<1>4. ASSUME NEW h \in Handler, Work(h) PROVE PaddingFirst'
  <2>1. UNCHANGED <<startup, memory, keeper>>
    BY <1>4 DEF Work, EnterDeposit, SendDeposit, FindExit, SendExit, RemoveAddress, serverVars
  <2>2. phase[h] \in {"inserted", "found"} => request[h] \in Requests
    BY DEF TypeInv, TypeOK, HandlersOK
  <2>3. UNCHANGED requests \/ \E r \in Requests : Send(r)
    BY <1>4, <2>2 DEF Work, EnterDeposit, SendDeposit, FindExit, SendExit, RemoveAddress
  <2> QED
    BY <2>1, <2>3, QueueKeepsPadding
<1>5. CASE PlainDeposit
  <2>1. UNCHANGED <<startup, memory, keeper>> /\ \E r \in Requests : Send(r)
    BY <1>5, RequestFacts, ServerConstants DEF PlainDeposit, serverVars
  <2> QED
    BY <2>1, QueueKeepsPadding
<1>6. CASE \/ /\ CommitBlock \/ CommitterPanics
              /\ UNCHANGED <<book, requests, startup, handlerVars, depositors>>
           \/ UNCHANGED allVars
  <2>1. UNCHANGED <<startup, memory, keeper, requests>>
    BY <1>6 DEF CommitBlock, CommitterPanics, allVars, apiVars, serverVars
  <2> QED
    BY <2>1, QueueKeepsPadding
<1> QED
  BY <1>1, <1>2, <1>3, <1>4, <1>5, <1>6 DEF Next, Running

\* When the database was looked at, the padding account is there or is the
\* first thing the state keeper makes, for any set of requests and clients,
\* through any number of stops, failures and restarts.
THEOREM PaddingComesFirst == Spec => []PaddingFirst
<1>1. Init => StartFirst /\ PaddingFirst
  BY DEF Init, ApiInit, StartFirst, PaddingFirst
<1>2. TypeInv /\ PaddingInv /\ [Next]_allVars => PaddingInv'
  BY LedgerKeepsNext, StartFirstNext, PaddingFirstNext DEF PaddingInv
<1>3. Init => PaddingInv
  BY <1>1, LedgerKeepsInit DEF PaddingInv
<1>4. PaddingInv => PaddingFirst
  BY DEF PaddingInv
<1> QED
  BY <1>2, <1>3, <1>4, TypeInvariant, PTL DEF Spec

=============================================================================
