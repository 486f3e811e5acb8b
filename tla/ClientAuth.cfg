SPECIFICATION AuthSpec
CONSTANTS
  Clients = {"web", "mobile"}
  Accounts = {a, b}
  None = None
  MaxTokens = 3
  MaxKills = 1
INVARIANTS
  TokenSpentOnce
  ShownIsHeld
PROPERTY SessionSettles
CHECK_DEADLOCK FALSE
