SPECIFICATION Spec
CONSTANTS
  Users = {u1, u2}
  EveryoneCap = 1
  MaxEvents = 3
  Nobody = Nobody
CHECK_DEADLOCK FALSE
INVARIANT OneOpenRow
INVARIANT CountIsHonest
PROPERTY LostOnlyToClosing
