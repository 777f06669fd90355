SPECIFICATION MCFairSpec
CONSTANTS
  AccountId <- MCAccountId
  Key <- MCKey
  Capacity = 8
  NoKey = NoKey
  Absent = Absent
  PadKey = PadKey
  Key3 = Key3
  Key4 = Key4
  BatchSize = 3
  Interval = 1
  PaddingId = 2
  PaddingKey = PadKey
  FarBlock = 999
  StartLedger <- MCStartLedger
  StartBlock = 3
  Transfers <- MCTransfers
  Deposits <- MCDeposits
  Exits <- MCExits
  NoDeadline = NoDeadline
  MaxBlocks = 4
INVARIANTS
  TypeOK
  BatchDiscipline
  ConfirmationKept
  UpdatesYieldRoot
  FundsConserved
  NonceReuseNeedsReset
PROPERTIES
  ImplementsChain
  NoBlockLost
  BatchIsClosed
  WaitingBlocksAreMade
CHECK_DEADLOCK FALSE
