SPECIFICATION Spec
CONSTANTS
  Users = {u1, u2}
  Rooms = {r1, r2}
  Conns = {c1, c2}
  NoUser = NoUser
  NoRoom = NoRoom
CHECK_DEADLOCK FALSE
INVARIANT PresenceCounts
INVARIANT AttentionAgrees
INVARIANT AttentionNotDropped
