SPECIFICATION Spec
CONSTANTS
  AccountId <- MCAccountId
  Key <- MCKey
  Capacity = 8
  NoKey = NoKey
  Absent = Absent
  Alice = Alice
  CapitalAlice = CapitalAlice
  Bob = Bob
  Point = Point
  PaddingKey = Point
  h1 = h1
  h2 = h2
  Worker <- NoIds
  Handler <- TwoHandlers
  Address <- MCAddress
  Lower <- MCLower
  IdOf <- MCIdOf
  PaddingId = 2
  Amount <- MCAmount
  NoRequest = NoRequest
  Transfers <- MCTransfers
  Deposits <- MCDeposits
  Exits <- NoIds
  MaxBlock = 3
  MaxStops = 1
  MaxQueued = 2
INVARIANTS
  TypeOK
  ExitPanicNeedsRace
  DepositorsCanExit
  PaddingFirst
SYMMETRY Symmetric
CHECK_DEADLOCK FALSE
