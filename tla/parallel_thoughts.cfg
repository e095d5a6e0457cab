SPECIFICATION Spec
CONSTANTS
  root = root
  writer = writer
  critic = critic
  Root = root
  NoAuthor = nobody
  Authors <- Team
  MaxParts = 3
  MaxThought = 2
  Voices = {"parallel"}
  Unmarshalable = FALSE
  Conversions <- Aside
  OnEmit <- NoHooks
INVARIANT ThoughtsArriveOnce
