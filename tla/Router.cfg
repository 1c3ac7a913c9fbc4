SPECIFICATION Spec
CONSTANTS
  Addr = {"g", "h"}
  Mac = {m1, m2}
  Ifaces <- TwoIfaces
  Packets <- AllKinds
  RoutingTable <- NoDefault
  ARP_MAX_REQ = 1
  ARP_CACHE_TIMEOUT = 1
  ARP_REQUEST_TIMEOUT = 0
  REQS_MOD = 2
  MaxLapse = 1
  SentinelHop = "g"
  OtherTraffic = TRUE
  Template = TRUE
  Faults = TRUE
INVARIANTS TypeOK ForwardedToFreshHop NobodyStranded
PROPERTIES RoutedNeverCrashes GivenUpOnlyAfterAsking
SYMMETRY MacSymmetry
CHECK_DEADLOCK FALSE
