SPECIFICATION Spec
CONSTANTS
  w1 = w1
  w2 = w2
  Word = {w1, w2}
  NoWord = NoWord
  NoUser = NoUser
  Erased = Erased
  Start <- MCStart
  MaxUsers = 2
  Proc = {p1, p2}
  MaxEvents = 4
SYMMETRY Symmetry
CHECK_DEADLOCK FALSE
INVARIANT TypeOK
INVARIANT SessionsHold
INVARIANT FactorHolds
INVARIANT LatestPassword
