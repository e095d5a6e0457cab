SPECIFICATION Spec
CONSTANTS
  r1 = r1
  r2 = r2
  r3 = r3
  Requests <- ThreeRequests
  Hooks = 2
  Pace = "serial"
  Faults <- ButGet
  MaxFaults = 1
  CtxAware = TRUE
  OnEmit <- HideInterrupt
  ClientState <- NoKey
SYMMETRY Symmetric
INVARIANTS
  TypeOK
  AnswersMatchPending
  NilErrorMeansSettled
  AnsweredOnce
  NoInterruptLost
  PendingWasDelivered
  AfterMirrorsBefore
PROPERTY ContractSpec
