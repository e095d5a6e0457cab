SPECIFICATION Spec
CONSTANTS
  Cases <- AllCases
  MaxTime = 1
INVARIANTS
  RefusesExactlyTheRest
  EveryAnswerArrives
  ConsentIsExplicit
  NeverStuck
  NewestTurnOrNone
CHECK_DEADLOCK FALSE
