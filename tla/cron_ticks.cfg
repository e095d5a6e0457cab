SPECIFICATION FairSpec
CONSTANTS
  t1 = t1
  t2 = t2
  Ticks <- TwoTicks
  Settings <- AllSettings
  MaxAttempts = 4
  MaxEdits = 1
INVARIANTS
  TypeOK
  NoDuplicateRun
  ObserverHearsStored
  OneConversation
  MainFollowsInitial
  NoTickLost
PROPERTIES
  OwnerWins
  EveryTickSettles
