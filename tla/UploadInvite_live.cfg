CONSTANTS
  i1 = i1
  i2 = i2
  i3 = i3
  f1 = f1
  f2 = f2
  p1 = p1
  p2 = p2
  Invite = {i1}
  File = {f1, f2}
  Proc = {p1}
  Known = {i1}
  NoInvite = NoInvite
  NoFile = NoFile
  Size <- MCSize
  Requested = {0}
  DefaultFiles = 1
  MaxFiles = 2
  MaxBytes = 2
  MaxActive = 1
  MaxPerAddress = 2
  Quota = 2
  MaxFailures = 1
  MaxOverlaps = 1
SPECIFICATION Spec
PROPERTY AbandonedUploadsEnd
PROPERTY EveryFileIsAnnounced
CHECK_DEADLOCK FALSE
