SPECIFICATION FairSpec
CONSTANTS
  Devices = {d1, d2}
  APs = {}
  NoAP = NoAP
  NoDevice = NoDevice
  IdleAfter <- IdleFirst
  OfflineAfter <- OfflineLater
  MaxSilence = 2
  MaxLag = 1
  LateEnrichment = FALSE
  MayCrash = FALSE
  MaxStops = 1
  MaxFailures = 0
PROPERTIES
  KeepsTheLedger
