SPECIFICATION FairSpec
CONSTANTS
  Commands <- Lines
  Hosts <- AllHosts
  MaxOpen = 2
INVARIANTS
  TypeOK
  AcceptsTheGrammar
  RegisteredOnce
  SharedServices
  ServesEverything
  ReturnLeavesNothing
PROPERTIES
  GoroutineEnds
  RunReturns
CHECK_DEADLOCK FALSE
