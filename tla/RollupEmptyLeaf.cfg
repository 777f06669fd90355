SPECIFICATION Spec
CONSTANTS
  AccountId <- MCAccountId
  Key <- MCKey
  Capacity = 8
  NoKey = NoKey
  Absent = Absent
  NoProof = NoProof
  Key3 = Key3
  Key4 = Key4
  w1 = w1
  w2 = w2
  Transfers <- MCTransfers
  Deposits <- MCDeposits
  Exits <- MCExits
  Worker <- OneWorker
  MaxBlock = 3
  MaxStops = 0
  MaxFailures = 0
  MaxRuns = 4
INVARIANT EmptyLeafHasNonceZero
CHECK_DEADLOCK FALSE
