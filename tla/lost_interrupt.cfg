SPECIFICATION Spec
CONSTANTS
  r1 = r1
  r2 = r2
  r3 = r3
  Requests <- TwoRequests
  Hooks = 0
  Pace = "terminal"
  Faults <- NoFaults
  MaxFaults = 0
  CtxAware = TRUE
  OnEmit <- PassAll
  ClientState <- NoKey
INVARIANT NoInterruptLost
