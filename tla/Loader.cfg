\* Two of three processes: the two directions, or rivals at one attach point.
SPECIFICATION Spec
CONSTANTS
  Procs = {"out", "in", "rival"}
  Config <- Lines
  NativeXdp = TRUE
  MayKill = TRUE
  None = none
  MaxLaunched = 2
INVARIANTS TypeOK AttachedReady XdpOwned CleanExit RunningServes
PROPERTIES OnlyOwnerDetaches SignalEnds StartReturns
CHECK_DEADLOCK FALSE
