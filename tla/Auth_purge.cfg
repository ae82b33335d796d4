SPECIFICATION Spec
CONSTANTS
  w1 = w1
  w2 = w2
  Word = {w1, w2}
  NoWord = NoWord
  NoUser = NoUser
  Erased = Erased
  Start <- MCLinked
  MaxUsers = 1
  Proc = {p1}
  MaxEvents = 2
CHECK_DEADLOCK FALSE
PROPERTY LapsedIsPurged
