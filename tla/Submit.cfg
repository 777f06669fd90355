SPECIFICATION FairSpec
CONSTANTS
  c1 = c1
  c2 = c2
  c3 = c3
  Client <- ThreeClients
  MaxNonce = 2
  StartNonce = 0
  MaxResets = 1
  MaxGivenUp = 1
  NoRecord = NoRecord
  NoCell = NoCell
INVARIANTS
  TypeOK
  OnlyLateRepliesMislead
  NoncesInOrder
  SleepersAreAhead
PROPERTIES
  EveryoneAnswered
CHECK_DEADLOCK FALSE
