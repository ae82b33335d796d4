SPECIFICATION Spec
CONSTANTS
  ann = ann
  bob = bob
  User = {ann, bob}
  None = None
  NoRow = NoRow
  Start <- MCStart
  MaxFolders = 4
  MaxFiles = 2
  WalkDepth = 2
  ListDepth = 3
  Proc = {p1, p2}
  MaxEvents = 3
SYMMETRY Symmetry
CHECK_DEADLOCK FALSE
INVARIANT TypeOK
INVARIANT ChecksHold
INVARIANT DeletedIsEmptied
 
