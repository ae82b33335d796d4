SPECIFICATION Spec
CONSTANTS
  Sub = {s1, s2}
  NoSub = NoSub
  NoEvent = NoEvent
  NoTier = NoTier
  Proc = {p1, p2}
  MaxTier = 1
  Requests = {"Subscribe", "Verify", "AdminCancel", "AdminAssign"}
  Turns = {"pending", "expired"}
  MaxPays = 1
  MaxInbox = 2
  MaxRequests = 2
  MaxFaults = 0
SYMMETRY Symmetry
 
INVARIANT NoUnpaidLimits
