SPECIFICATION Spec
CONSTANTS
  Users = {u1, u2}
  Rooms = {r1}
  Requests = {q1, q2}
  Never = Never
  Durations = {}
  DefaultTTL = 1
  MaxTTL = 2
  Grace = 1
  PatchCategory = {TRUE, FALSE}
  PatchStatus = {"active", "ended"}
  MaxTime = 2
CHECK_DEADLOCK FALSE
INVARIANT DerivedAgree
PROPERTY DeadlineEnds
PROPERTY AbandonedEnds
