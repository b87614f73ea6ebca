SPECIFICATION FairSpec
CONSTANTS
  NoAP = NoAP
  NoDevice = NoDevice
  Devices = {d1}
  APs = {a1, a2}
  IdleAfter <- IdleFirst
  OfflineAfter <- OfflineSecond
  MaxSilence = 2
  MaxLag = 1
  LateEnrichment = TRUE
  MayCrash = TRUE
  MaxStops = 2
  MaxFailures = 1
INVARIANTS
  TypeOK
  FaultsAreContained
  AnnouncedOnce
PROPERTY SilenceIsRecorded
