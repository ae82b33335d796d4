SPECIFICATION Spec
CONSTANTS
  File = {f1}
  Key = {k1, k2}
  Client = {c1}
  Worker = {w1}
  NoKey = NoKey
  NoFile = NoFile
  Content = {"suspect","infected"}
  MaxJobs = 1
  MaxFaults = 0
  MaxCrashes = 0
  MaxStrikes = 0
SYMMETRY Symmetry
INVARIANT TypeOK
 
