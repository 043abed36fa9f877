\* Any two configurations, mixed traffic, every fault, boundary lengths; one frame.
SPECIFICATION Spec
CONSTANTS
  Data = {"a"}
  Lens = {0, 1, 16, 40, 1408, 1409}
  Shapes <- MixedShapes
  HostConfigs <- AnyConfig
  PeerConfigs <- AnyConfig
  Keys = {"k1", "k2"}
  IVs = {1}
  HostFaults <- Faults
  PeerFaults <- Faults
  PeerLinear = {TRUE, FALSE}
  PadBytes = {0, 1, 16, 17, 255}
  Mtu = 1500
  MaxSent = 1
INVARIANTS TypeOK DeliveredIntact ChecksumCurrent StatsAccounted
CHECK_DEADLOCK FALSE
