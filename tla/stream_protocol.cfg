SPECIFICATION Spec
CONSTANTS
  root = root
  writer = writer
  critic = critic
  Root = root
  NoAuthor = nobody
  Authors <- Team
  MaxParts = 4
  MaxThought = 2
  Voices = {"turns", "parallel"}
  Unmarshalable = TRUE
  Conversions <- Aside
  OnEmit <- Meddling
SYMMETRY Symmetric
INVARIANTS
  TypeOK
  ReturnedMeansEnded
  TurnsArriveOnce
PROPERTY ProtocolSpec
