SPECIFICATION Spec
CONSTANTS
  alice = alice
  bob = bob
  dm = dm
  v = v
  w = w
  People <- MCPeople
  Rooms <- MCRooms
  Dm = dm
  None = None
  Apps <- MCApps
  Reach <- MCReach
  Speaking <- MCSpeaking
  MaxTries <- MCMaxTries
  MaxReloads = 1
INVARIANTS
  DeviceIsHonest
  RingLeadsToCaller
PROPERTY NobodyWaitsAlone
CHECK_DEADLOCK FALSE
