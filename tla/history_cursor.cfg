SPECIFICATION Spec
CONSTANTS
  Scopes <- LongOnly
  MaxTime = 2
  Folded <- Converter
  Limits <- UpToTwo
  Accepts <- JSONOnly
INVARIANTS
  PagesAreComplete
