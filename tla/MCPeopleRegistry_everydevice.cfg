CONSTANTS
  phone = phone  tablet = tablet  ann = ann  bob = bob
  Devices = {phone, tablet}
  People = {ann}
  Nobody = Nobody
  ConfigOwner <- NobodyConfigured
  MaxEdits = 4
  MaxStops = 0
  MaxFailures = 0
SPECIFICATION Spec
INVARIANT HomeFollowsEveryDevice
