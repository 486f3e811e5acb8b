SPECIFICATION Spec
CONSTANTS
  Users = {u1}
  Sessions = {s1, s2, s3}
  Requests = {r1, r2}
  NoSession = NoSession
  RefreshTTL = 1
  PruneGrace = 1
  MaxTime = 3
SYMMETRY Symmetry
CHECK_DEADLOCK FALSE
INVARIANT ParentSpent
INVARIANT SpentOnce
INVARIANT TheftEndsFamily
PROPERTY SuspendedStayOut
