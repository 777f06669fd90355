SPECIFICATION Spec
CONSTANTS
  AccountId <- MCAccountId
  Key <- MCKey
  Capacity = 8
  NoKey = NoKey
  Absent = Absent
  NoProof = NoProof
  Key3 = Key3
  Key4 = Key4
  w1 = w1
  w2 = w2
  Transfers <- MCTransfers
  Deposits <- MCDeposits
  Exits <- MCExits
  Worker <- TwoWorkers
  MaxBlock = 3
  MaxStops = 1
  MaxFailures = 1
  MaxRuns = 3
INVARIANTS
  TypeOK
  StatesRecoverable
  QueriesAgree
  DiffMovesState
  VerifiedInOrder
  ProofsConnect
  OneProverPerBlock
SYMMETRY Symmetric
PROPERTIES
  CommitsAreAChain
CHECK_DEADLOCK FALSE
