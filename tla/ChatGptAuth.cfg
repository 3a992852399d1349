SPECIFICATION Spec
CONSTANTS
  Attempts = {a1, a2}
  Profiles = {p1, p2}
  Owners = {o1, o2}
  Users = {u1, u2}
  MaxRotations = 1
  Environments <- OneTroubleAtATime
SYMMETRY Symmetry
INVARIANTS IInv SessionsAccounted StoredTokenIsCurrent
PROPERTIES RegistrationKept
CHECK_DEADLOCK FALSE
