SPECIFICATION FairSpec
CONSTANTS
  File = {f1}
  Key = {k1}
  Client = {c1}
  Worker = {w1}
  NoKey = NoKey
  NoFile = NoFile
  Content = {"mismatch","infected","nsfw"}
  MaxJobs = 1
  MaxFaults = 1
  MaxCrashes = 1
  MaxStrikes = 0
 
 
 
PROPERTY OrphansReclaimed
