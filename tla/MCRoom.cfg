\* Rooms and threads of one message to a page, two messages, one deletion, two
\* loads: switches, failures, losses and late pages in any order. An inbox of two
\* items, of which the store shows one, two users and two requests. Explored says
\* which of these do not come together.
CONSTANTS
  Rooms = {a, b}
  NoRoom = NoRoom
  PageSize = 1
  MaxPages = 2
  MaxMessages = 2
  MaxDeleted = 1
  MaxLoads = 2
  Threads = {a, b}
  NoThread = NoThread
  ReplyLimit = 1
  MaxReplies = 2
  MaxRepliesDeleted = 1
  MaxCalls = 2
  Users = {a, b}
  NoUser = NoUser
  MaxShown = 1
  MaxItems = 2
  MaxRequests = 2
SPECIFICATION RoomSpec
SYMMETRY Symmetry
CONSTRAINT Explored
INVARIANTS
  OthersAreExact
  RoomInViewIsRead
  RepliesAreExact
  InboxIsExact
PROPERTIES
  PagesStayInTheirRoom
CHECK_DEADLOCK FALSE
