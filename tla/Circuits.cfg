SPECIFICATION Spec
CONSTANTS
  AccountId <- MCAccountId
  Key <- MCKey
  Capacity = 8
  NoKey = NoKey
  Absent = Absent
  KeyA = KeyA
  KeyB = KeyB
  Depth = 3
  BalanceBits = 3
  NonceBits = 2
  BlockBits = 3
  AmountExponent = 1
  AmountMantissa = 2
  FeeExponent = 1
  FeeMantissa = 1
  Base = 3
  Prime = 17
  Transfers <- MCTransfers
  Deposits <- MCDeposits
  MaxBlock = 4
INVARIANTS
  TypeOK
  TransfersMatch
  DepositsMatch
  ExitsMatch
CHECK_DEADLOCK FALSE
