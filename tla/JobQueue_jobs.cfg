SPECIFICATION FairSpec
CONSTANTS
  Email = {e1, e2}
  Push = {u1}
  InApp = {}
  High = {e1}
  NoJob = NoJob
  EmailWorker = {ew1, ew2}
  PushWorker = {pw1}
  DBWorker = {}
  MaxRetries = 2
  MaxFaults = 1
  MaxCrashes = 1
INVARIANT TypeOK
INVARIANT OnePlace
INVARIANT OvertakingBounded
PROPERTY Delivers
PROPERTY EveryJobEnds
