SPECIFICATION SocketSpec
CONSTANTS
  Clients = {"web", "mobile"}
  Rooms = {r1, r2}
  None = None
  MaxStack = 2
  MaxFrames = 3
  MaxExpiries = 1
INVARIANTS
  ScreensAreHeard
  QuietAboutWhatIsRead
PROPERTY Reconnects
