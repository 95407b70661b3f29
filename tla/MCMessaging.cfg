\* Threads: sends, replies, batches and threads overlapping, in two rooms.  Message: two
\* requests about one message: its send, its deletion by its sender or an admin,
\* pins, unpins, and the deletion of accounts.
\* A cast may stop, when its messages are spent or its accounts are deleted.
CONSTANTS
  ann = ann
  People = {ann, root, bot}
  Agents = {bot}
  SystemAdmins = {root}
  Nobody = Nobody
  Rooms = {r1, r2}
  NoRoom = NoRoom
  Owner <- MCOwner
  Messages = {m1, m2}
  NoMessage = NoMessage
  Threads = {t1, t2}
  NoThread = NoThread
  Requests = {q1, q2}
  Kinds = {"send", "agent", "upload", "batch", "thread", "delete", "pin", "unpin"}
  ThreadKinds = {"send", "thread", "batch"}
  MessageKinds = {"agent", "upload", "delete", "pin", "unpin"}
SPECIFICATION MessagingSpec
SYMMETRY Symmetry
INVARIANTS
  TypeOK
  RepliesAreCounted
  ThreadsHoldTogether
  ErasureIsComplete
PROPERTIES
  DeletionIsForGood
  StoresWereAllowed
CHECK_DEADLOCK FALSE
