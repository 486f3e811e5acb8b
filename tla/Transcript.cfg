SPECIFICATION Spec
CONSTANTS
  Clients = {"web", "mobile"}
  Held = 2
  MaxMessages = 3
  PageSize = 1
  MaxOps = 2
  MaxCalls = 2
INVARIANTS
  Converges
  OwnReactionShown
CONSTRAINT NoFaultYet
CHECK_DEADLOCK FALSE
