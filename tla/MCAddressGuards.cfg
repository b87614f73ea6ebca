CONSTANTS
  router = router  host = host
  a1 = a1  a2 = a2
  None = None
  IPs = {a1, a2}
  MACs = {router, host}
  ConfiguredIP = a1
  ConfiguredMAC = None
  ProxyArp = TRUE
  Quorum = 2
  MaxCandidates = 1
  MaxProxied = 1
  Exempt = {host}
  Grace = 1
  ActiveWithin = 1
  SpoofCooldown = 2
  ConflictCooldown = 2
  MaxTracked = 1
  MaxNow = 3
SPECIFICATION Spec
INVARIANTS TypeOK NobodyIsBlamedForProxyArp SharedAddressIsReported
PROPERTIES OneAlertPerCooldown
