CONSTANTS
  phone = phone  printer = printer
  Hosts = {h1, h2}
  ObsKinds = {arp}
  Addresses = {i1}
  NoAddress = NoAddress
  Retained = 2
  Ttl = 1
  MaxFrames = 4
  MaxSeconds = 1
  MaxFaults = 1
  Threads = {t1, t2}
  Room = 2
  Results = 1
  Devices = {phone, printer}
  Capacity = 2
  Enabled = TRUE
  Debounce = 2
  BatchWindow = 1
  BatchThreshold = 2
  Day = 2
  QuietHours = {1}
  SecurityEnabled = TRUE
  BypassQuiet = TRUE  BypassDebounce = TRUE  BypassBatch = TRUE
  MaxEvents = 3
  MaxFailures = 1
SPECIFICATION DaemonSpec
INVARIANTS DaemonTypesHold  EventsHaveOneFate
PROPERTIES SignalEndsTheLoop StopIsClean SecurityIsNotRateLimited HeldEventsGo
CHECK_DEADLOCK FALSE
