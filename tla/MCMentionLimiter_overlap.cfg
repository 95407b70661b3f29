\* The daily limit against two calls of one sender that overlap.
CONSTANTS
  Users = {ann}
  Calls = {c1, c2}
  Leavers = {}
  DailyLimit = 2
  WarningThreshold = 1
  MaxCharges = 3
  LastDay = 0
  MaxCrashes = 0
SPECIFICATION Spec
INVARIANT QuotaHolds
