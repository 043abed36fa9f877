\* Matched peers, early and late faults, loss, duplication and reordering; 1440 is too long.
SPECIFICATION Spec
CONSTANTS
  Data = {"a", "b"}
  Lens = {16, 1407, 1440}
  Shapes <- PlainShapes
  HostConfigs <- EncryptCbc
  PeerConfigs <- DecryptCbc
  Keys = {"k1", "k2"}
  IVs = {1, 2}
  HostFaults = {"none", "hdr_store", "udp_store", "crypto", "iv_store"}
  PeerFaults = {"none", "crypto", "check_store"}
  PeerLinear = {TRUE}
  PadBytes = {1}
  Mtu = 1500
  MaxSent = 2
INVARIANTS EventsMatchPackets LimitFitsMtu
PROPERTY ImplementsChannel
CHECK_DEADLOCK FALSE
