\* Two uploads against an account deletion, two runs at a time, two sockets of one
\* or two users.  A part may stop: the account or the project is deleted.
CONSTANTS
  Files = {f1, f2}
  Places <- MCPlaces
  Requests = {u1, u2}
  Runs = {r1, r2}
  Checklist <- MCChecklist
  Users = {ann, bob}
  Sockets = {k1, k2}
SPECIFICATION BackgroundSpec
INVARIANTS
  AnsweredFilesStay
  TasksAreMapped
  OnlineIsExact
PROPERTIES
  DeletedFilesGo
  RunsEnd
CHECK_DEADLOCK FALSE
