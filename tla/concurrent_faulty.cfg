SPECIFICATION FairSpec
CONSTANTS
  r1 = r1
  r2 = r2
  r3 = r3
  Requests <- TwoRequests
  Hooks = 1
  Pace = "any"
  Faults <- ButCrash
  MaxFaults = 1
  CtxAware = FALSE
  OnEmit <- HideInterrupt
  ClientState <- SomeKey
INVARIANTS
  AnswersWereRaised
PROPERTIES
  TerminalIsLast
  EveryRequestEnds
  InterruptBecomesPending
