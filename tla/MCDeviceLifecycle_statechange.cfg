SPECIFICATION Spec
CONSTANTS
  NoAP = NoAP
  NoDevice = NoDevice
  Devices = {d1}
  APs = {a1, a2}
  IdleAfter <- IdleFirst
  OfflineAfter <- OfflineSecond
  MaxSilence = 2
  MaxLag = 1
  LateEnrichment = FALSE
  MayCrash = TRUE
  MaxStops = 1
  MaxFailures = 0
SYMMETRY Symmetry
INVARIANTS
  StateChangesSurvive
