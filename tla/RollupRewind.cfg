SPECIFICATION Spec
CONSTANTS
  AccountId <- MCAccountId
  Key <- MCKey
  Capacity = 8
  NoKey = NoKey
  Absent = Absent
  NoProof = NoProof
  Key3 = Key3
  Key4 = Key4
  w1 = w1
  w2 = w2
  Transfers <- PlainTransfers
  Deposits <- PlainDeposits
  Exits <- NoExits
  Worker <- OneWorker
  MaxBlock = 2
  MaxStops = 0
  MaxFailures = 1
  MaxRuns = 4
INVARIANT TreeReadyForJob
CHECK_DEADLOCK FALSE
