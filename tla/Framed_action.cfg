\* A frame with action 2, which README's packet format allows.
SPECIFICATION Spec
CONSTANTS
  Data = {"hi"}
  Lens = {15}
  BenchSizes = {16}
  Others <- ActionTwo
  IVs = {1}
  Configs <- CbcPair
  Paths <- OneTc
  Keys = {"k1", "k2"}
  Faults = {"none"}
  PeerLinear = {TRUE}
  MaxSent = 1
  MaxRepeats = 0
INVARIANT ActionAccepted
CHECK_DEADLOCK FALSE
