SPECIFICATION FairSpec
CONSTANTS
  AccountId <- MCAccountId
  Key <- MCKey
  Capacity = 8
  NoKey = NoKey
  Absent = Absent
  NoProof = NoProof
  Key3 = Key3
  Key4 = Key4
  w1 = w1
  w2 = w2
  Transfers <- PlainTransfers
  Deposits <- PlainDeposits
  Exits <- NoExits
  Worker <- TwoWorkers
  MaxBlock = 3
  MaxStops = 1
  MaxFailures = 0
  MaxRuns = 4
PROPERTIES
  CommittedIsVerified
CHECK_DEADLOCK FALSE
