SPECIFICATION MCSpec
CONSTANTS
  AccountId <- MCAccountId
  Key <- MCKey
  Capacity = 8
  NoKey = NoKey
  Absent = Absent
  PadKey = PadKey
  Key3 = Key3
  Key4 = Key4
  BatchSize = 3
  Interval = 1
  PaddingId = 2
  PaddingKey = PadKey
  FarBlock = 999
  StartLedger <- MCStartLedger
  StartBlock = 3
  Transfers <- MCTransfers
  Deposits <- MCDeposits
  Exits <- MCExits
  NoDeadline = NoDeadline
  MaxBlocks = 3
INVARIANT PaddingAlwaysApplies
CHECK_DEADLOCK FALSE
