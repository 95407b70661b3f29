\* The comment of chatStore.ts:205 against the events of the socket.
CONSTANTS
  Rooms = {ra, rb}
  NoRoom = NoRoom
  PageSize = 1
  MaxPages = 2
  MaxMessages = 1
  MaxDeleted = 0
  MaxLoads = 2
SPECIFICATION Spec
SYMMETRY Symmetry
PROPERTIES LiveMessagesAreKept
