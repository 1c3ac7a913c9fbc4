SPECIFICATION Spec
CONSTANTS
  Addr = {"g", "h"}
  Mac = {"m1"}
  Ifaces <- OneIface
  Packets <- TwoHosts
  RoutingTable <- Gateway
  ARP_MAX_REQ = 2
  ARP_CACHE_TIMEOUT = 2
  ARP_REQUEST_TIMEOUT = 1
  REQS_MOD = 3
  MaxLapse = 0
  SentinelHop = "0.0.0.0"
  OtherTraffic = FALSE
  Template = FALSE
  Faults = FALSE
INVARIANT WaitingSentOut
CHECK_DEADLOCK FALSE
