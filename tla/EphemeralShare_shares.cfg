SPECIFICATION FairSpec
CONSTANTS
  Share = {s1}
  Proc = {p1, p2}
  NoShare = NoShare
  Limit = 1
  MaxCount = 3
  MaxFaults = 1
  MaxCrashes = 1
INVARIANT TypeOK
INVARIANT DownloadsBounded
INVARIANT BurnIsFinal
INVARIANT PurgeSparesActive
PROPERTY EndedIsErased
PROPERTY PartsReclaimed
