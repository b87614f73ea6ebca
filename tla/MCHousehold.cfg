CONSTANTS
  phone = phone  tablet = tablet  watch = watch  ann = ann  bob = bob
  driveway = driveway  garage = garage  kitchen = kitchen  pantry = pantry
  Devices = {phone, tablet}
  People = {ann, bob}
  Nobody = Nobody
  ConfigOwner <- PhoneConfigured
  MaxEdits = 2
  MaxStops = 2
  MaxFailures = 1
  Carried = {phone, watch}
  APs = {driveway, kitchen, pantry}
  Edges = {driveway}
  LocationOf <- HouseMap
  Nowhere = Nowhere
  OfflineAfter = 2
  Window = 1
  MaxNow = 4
  MaxLag = 1
  MaxRestarts = 1
SPECIFICATION HouseholdSpec
INVARIANTS HouseholdTypesHold RegistryAgrees WhereaboutsAgree
PROPERTIES HouseholdIsSteady CrossingsMeanSomething
CHECK_DEADLOCK FALSE
