SPECIFICATION Spec
CONSTANTS
  Code = {c1, c2}
  NoCode = NoCode
  Watched = c1
  Wrong = Wrong
  Proc = {p1, p2}
  Purpose = {"registration", "password_reset", "passcode"}
  MaxTries = 1
  Limit = 1
  MaxEvents = 5
SYMMETRY Symmetry
CHECK_DEADLOCK FALSE
INVARIANT TypeOK
INVARIANT GuessesBounded
INVARIANT ConsumedUnlessRaced
INVARIANT WindowHolds
