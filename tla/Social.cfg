SPECIFICATION Spec
CONSTANTS
  Users = {u1, u2}
  Requests = {q1, q2}
  Rooms = {r1, r2}
  Nobody = Nobody
  NoRoom = NoRoom
  Alone = FALSE
SYMMETRY Symmetry
CHECK_DEADLOCK FALSE
INVARIANT BlockEndsFriendship
INVARIANT OneRowPerPair
INVARIANT OneConversation
PROPERTY AddresseeAnswers
PROPERTY NoMessageAcross
