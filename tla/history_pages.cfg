SPECIFICATION Spec
CONSTANTS
  Scopes <- WideAndLong
  MaxTime = 2
  Folded <- Converter
  Limits <- UpToTwo
  Accepts <- Both
INVARIANTS
  TypeOK
  IdsIdentify
  UncutPagesMissNothing
