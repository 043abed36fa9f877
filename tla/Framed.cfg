\* Matched peers and any two configurations, any path, hand-made frames, every fault.
SPECIFICATION Spec
CONSTANTS
  Data = {"hi"}
  Lens = {15, 16}
  BenchSizes = {16}
  Others <- AllOthers
  IVs = {1}
  Configs <- AllPairs
  Paths <- AnyWay
  Keys = {"k1", "k2"}
  Faults <- FaultPoints
  PeerLinear = {TRUE, FALSE}
  MaxSent = 1
  MaxRepeats = 1
INVARIANTS TypeOK TextIntact StatsExact HeaderAgreed QuietMeansRight
CHECK_DEADLOCK FALSE
