CONSTANTS
  router = router  host = host  guest = guest
  a1 = a1  a2 = a2  a3 = a3
  None = None
  IPs = {a1, a2, a3}
  MACs = {router, host, guest}
  ConfiguredIP = None
  ConfiguredMAC = None
  ProxyArp = TRUE
  Quorum = 3
  MaxCandidates = 2
  MaxProxied = 2
  Senders = {s1, s2, s3}
  Routers = {s2}
  ExemptSenders = {s3}
  Configurations <- OneByOne
  Targets = {a1, a2, a3}
  ScanWindow = 2  ScanThreshold = 2  RouterThreshold = 3  ScanCapacity = 3
  FloodWindow = 1  FloodThreshold = 2  FloodCapacity = 2
  KnownServers = {}
  RogueCooldown = 2  MaxRogues = 2
  Classes = {camera, laptop}
  AnyChange = FALSE
  ChangeCooldown = 2  MaxChanged = 1
  MaxSenders = 1
  MaxClock = 4
  MaxLate = 2
  FrameSignals <- FramesHeard
  Says <- TypesSpoken
  SaysOs <- SystemsSpoken
  Embedded <- Build
  Downloaded <- Served
  DeviceTypes <- Vocabulary
  Fixture <- Fixtures
  Unsaid = Unsaid
  Threshold = 75
  MaxFramesHeard = 3
  MaxTurns = 3
  Octets = {0, 1, 2, 64, 192}
  HeaderSize = 1  QuestionFixed = 1  RecordFixed = 1
  MaxPointers = 2  MaxLabels = 2
  Unread = Unread
  MaxOctets = 6
  Records <- MessageRecords
  Questions <- AskedNames
  Missing = Missing
  MaxRecords = 4
  MaxQuestions = 1
  Options <- Sent  Usable <- Sound  ServerTypes <- Acks
  Addresses = {client, relay, group}
  GroupMacs = {group}
  NotSaid = NotSaid
  MaxOptions = 3
  MaxLost = 4
  Stations = {router, host}  Advertisers = {router}  Workgroup <- Memberships
  Rewritten = Rewritten  Untold = Untold
  MaxWalked = 2  MaxSaid = 2
  Residents = {d1}
  Locations = {kitchen}
  NoPlace = NoPlace  Open = Open  Never = Never
  TicksPerDay = 2  LocalOffset = 1  RunAt = 1
  RollupAfter = 1  RetainEvents = 1
  MaxTick = 6  MaxRows = 2  MaxHeard = 1  MaxMishaps = 1
  Commands = {daemon, stats}
  Daemon = daemon
  Width = 64
  SecondsIn <- Units
  DayMinutes = 6
  Directories = {home, elsewhere}
  FileLayers <- Files
  Environments <- Envs
  FlagLayers <- FlagSets
  Absent = Absent
  MaxEdits = 1
SPECIFICATION PartsSpec
INVARIANTS PartsTypesHold BeliefsHangTogether  NobodySpeaksForAnother LeasesStand 
PROPERTIES KnownMacStands AlertsAreSound  ReaderKeepsItsPlace NightsAreSafe
CHECK_DEADLOCK FALSE
