CONSTANTS
  Clients = {c1}
  AccessPoints = {p1, p2}
  Nowhere = Nowhere
  Starters = {daemon, oneshot}
  Readers = {stats}
  MaxBreaks = 1
  MaxPlugins = 2
SPECIFICATION ServicesSpec
INVARIANTS ServicesTypesHold OneRefusalPerPoll StartIsGuarded
PROPERTIES Recovers AdviceHelps
CHECK_DEADLOCK FALSE
