\* A sweep, a lookup's refresh and a reconnection of one row overlapping, with a
\* crash; two agents whose statuses lapse one after the other.  A system whose
\* account is deleted stops.
CONSTANTS
  Users = {ann}
  Sweeps = {s1}
  Lookups = {l1}
  Callbacks = {c1}
  MaxPairs = 3
  MaxCrashes = 1
  Agents = {a1, a2}
  Reports = {p1}
  Ttl = 2
  MaxNow = 2
  MaxReports = 3
SPECIFICATION TimersSpec
INVARIANTS
  TokensArePaired
  DeletedKeepNoToken
PROPERTIES
  RevocationLasts
  ExpiredIsHandled
  LapsedStatusGoes
CHECK_DEADLOCK FALSE
