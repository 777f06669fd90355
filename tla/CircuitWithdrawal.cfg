SPECIFICATION Spec
CONSTANTS
  AccountId <- MCAccountId
  Key <- MCKey
  Capacity = 8
  NoKey = NoKey
  Absent = Absent
  KeyA = KeyA
  KeyB = KeyB
  Depth = 3
  BalanceBits = 3
  NonceBits = 2
  BlockBits = 3
  AmountExponent = 1
  AmountMantissa = 2
  FeeExponent = 1
  FeeMantissa = 1
  Base = 3
  Prime = 17
  Transfers <- PlainTransfers
  Deposits <- PlainDeposits
  MaxBlock = 3
INVARIANT WithdrawalsProvable
CHECK_DEADLOCK FALSE
