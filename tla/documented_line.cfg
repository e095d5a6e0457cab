SPECIFICATION Spec
CONSTANTS
  Commands <- Lines
  Hosts <- DocumentedHosts
  MaxOpen = 1
INVARIANT
  DocumentedLineRuns
CHECK_DEADLOCK FALSE
