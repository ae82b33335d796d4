SPECIFICATION FairSpec
CONSTANTS
  Sub = {s1}
  NoSub = NoSub
  NoEvent = NoEvent
  NoTier = NoTier
  Proc = {p1}
  MaxTier = 2
  Requests = {"Upgrade", "Downgrade", "Cancel", "CancelPendingDowngrade", "AdminCancel"}
  Turns = {"pending", "cancelled"}
  MaxPays = 2
  MaxInbox = 1
  MaxRequests = 2
  MaxFaults = 1
INVARIANT TypeOK
INVARIANT NoUnpaidLimits
PROPERTY PeriodsEnd
