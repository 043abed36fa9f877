\* The framed path under ChaCha20, which README's crypto modes list.
SPECIFICATION Spec
CONSTANTS
  Data = {"hi"}
  Lens = {15}
  BenchSizes = {16}
  Others <- NoOthers
  IVs = {1}
  Configs <- ChachaPair
  Paths <- OneTc
  Keys = {"k1", "k2"}
  Faults = {"none"}
  PeerLinear = {TRUE}
  MaxSent = 1
  MaxRepeats = 0
INVARIANT FramedPathCrypts
CHECK_DEADLOCK FALSE
