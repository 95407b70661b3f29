\* A pin and a deletion of the same message overlapping.
CONSTANTS
  ann = ann
  People = {ann, bot}
  Agents = {bot}
  SystemAdmins = {}
  Nobody = Nobody
  Rooms = {r1}
  NoRoom = NoRoom
  Owner <- MCOwner
  Messages = {m1}
  NoMessage = NoMessage
  Threads = {}
  NoThread = NoThread
  Requests = {q1, q2}
  Kinds = {"send", "delete", "pin"}
  ThreadKinds = {}
  MessageKinds = {"send", "delete", "pin"}
SPECIFICATION MessagingSpec
SYMMETRY Symmetry
PROPERTY NeverPinsDeleted
CHECK_DEADLOCK FALSE
