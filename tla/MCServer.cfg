\* Mentions: two senders, two overlapping calls, a removal, a crash, two days.
\* Approvals: a call and a decision overlapping at the end of the window.
\* Memory: one entry, two edits at a time.  Gate: four sends over a window of two ticks.
\* A part may stop when its sends are spent or its accounts are gone.
CONSTANTS
  Users = {ann, bob}
  Calls = {q1, q2}
  Leavers = {bob}
  DailyLimit = 2
  WarningThreshold = 1
  MaxCharges = 2
  LastDay = 1
  MaxCrashes = 1
  Agents = {a1}
  Actions = {post}
  t1 = t1
  p1 = p1
  NoTask = NoTask
  NoProject = NoProject
  Humans = {root, ann}
  Admins = {root}
  Nobody = Nobody
  Requests = {q1, q2}
  ProxyCalls = {x1}
  Deciders = {d1}
  ApprovalWindow = 0
  MaxTime = 1
  Owner = ann
  Entries = {e1}
  Dates = {d}
  None = None
  Absent = Absent
  Edits = {q1, q2}
  GateRooms = {g1}
  Texts = {x, y}
  MaxSends = 4
  MaxPerMinute = 2
  Window = 2
  Dedup = 1
  MaxNow = 3
SYMMETRY Symmetry
SPECIFICATION ServerSpec
INVARIANTS
  ExecutedWereApproved
  ScopedAuthority
  ValidityIsTheExpiry
  RefusedWereStored
  RateIsBounded
PROPERTIES
  NeverDeniedEarly
  WarnedBeforeDenied
CHECK_DEADLOCK FALSE
