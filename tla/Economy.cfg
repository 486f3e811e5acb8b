SPECIFICATION Spec
CONSTANTS
  Users = {u1, u2, u3}
  Claimants = {u1, u2}
  Items = {i1}
  Requests = {q1, q2}
  None = None
  Base = 1
  Step = 1
  MaxBonus = 1
  Cooldown = 1
  StreakGrace = 2
  ReferralReward = 1
  RungAt = 2
  RungBonus = 1
  Prices = {0, 1}
  Limits = {1}
  Grants = {1}
  MaxTime = 1
  MaxPoints = 1
SYMMETRY Symmetry
CONSTRAINT OneHalf
CHECK_DEADLOCK FALSE
INVARIANT LedgerExplains
INVARIANT RungPaidOnce
INVARIANT LockedForTheDuration
INVARIANT WornIsOwned
PROPERTY ClaimsSpaced
PROPERTY ImplementsPurse
