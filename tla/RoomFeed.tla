-------------------------------- MODULE RoomFeed --------------------------------
(***************************************************************************)
(* The message list of the open room in one browser: the pages it fetches, *)
(* the socket events it receives, and room switches, failed calls and      *)
(* lost connections in between.                                            *)
(*                                                                         *)
(* Pages and events travel on different connections and are not ordered    *)
(* with each other.  The handlers on the server store or delete a message  *)
(* and announce it some awaits later, so that announcements may overtake   *)
(* each other as well.  Nothing on the server depends on when it is made,  *)
(* so an announcement is made and received in one step.  Messages are      *)
(* numbered in the order of createdAt.                                     *)
(*                                                                         *)
(* Sources: client/src/stores/{chatStore,socketStore}.ts,                  *)
(* client/src/components/{layout/ChatLayout,chat/MessageList}.tsx,         *)
(* server/src/services/socketService.ts, server/src/routes/messages.ts     *)
(***************************************************************************)
EXTENDS Integers, Sequences, SequencesExt, FiniteSets, FiniteSetsExt

CONSTANTS
  Rooms, NoRoom,
  PageSize,        \* messages of a page
  MaxPages,        \* MAX_PAGES_PER_CALL
  MaxMessages,     \* bound: messages ever stored
  MaxDeleted,      \* bound: messages ever deleted
  MaxLoads         \* bound: calls of loadMessages

ASSUME NoRoomAssumption == NoRoom \notin Rooms
ASSUME BoundsAssumption ==
  /\ PageSize \in Nat \ {0} /\ MaxPages \in Nat \ {0}
  /\ {MaxMessages, MaxDeleted, MaxLoads} \subseteq Nat

VARIABLES
  (* the server *)
  log,            \* stored messages, oldest first
  deleted,        \* messages that are soft-deleted
  todo,           \* announcements not yet made and received
  net,            \* "down", "joining": connected but in no room yet, "up"
  (* the browser *)
  view,           \* room of the page shown, NoRoom on another page
  currentRoom, currentRoomId,
  messages,       \* the list, as message numbers
  oldestFetchedId, hasMoreMessages, isLoading, isLoadingMore, messagesError,
  unread,         \* rooms with an unreadCounts above zero
  roomCalls,      \* rooms of the loadRoom calls in flight
  calls,          \* calls of loadMessages and loadMoreMessages in flight
  serial,         \* calls of loadMessages so far
  (* history *)
  raced,          \* messages an event of which was lost or overtaken since then
  crossed         \* a page asked for before then has landed

server == <<log, deleted, todo>>
list == <<messages, oldestFetchedId, hasMoreMessages>>
flags == <<isLoading, isLoadingMore, messagesError>>
where == <<view, currentRoom, currentRoomId>>
history == <<raced, crossed>>
pages == <<calls, serial>>
vars == <<server, net, where, list, flags, unread, roomCalls, pages, history>>

Ids == 1..MaxMessages
Entry == [room: Rooms, reply: BOOLEAN]
Event == [type: {"new", "deleted"}, id: Ids]
Call == [kind: {"list", "more"}, room: Rooms, serial: 1..MaxLoads,
         before: Ids \cup {0}, oldest: Ids \cup {0}, pages: 0..MaxPages - 1,
         answered: BOOLEAN, page: SUBSET Ids, more: BOOLEAN]

TypeOK ==
  /\ log \in Seq(Entry) /\ Len(log) <= MaxMessages
  /\ deleted \subseteq 1..Len(log)
  /\ todo \subseteq Event
  /\ net \in {"down", "joining", "up"}
  /\ {view, currentRoom, currentRoomId} \subseteq Rooms \cup {NoRoom}
  /\ messages \in Seq(Ids)
  /\ oldestFetchedId \in Ids \cup {0}
  /\ {hasMoreMessages, isLoading, isLoadingMore, messagesError, crossed} \subseteq BOOLEAN
  /\ unread \subseteq Rooms
  /\ calls \subseteq Call /\ roomCalls \subseteq Rooms
  /\ serial \in 0..MaxLoads
  /\ raced \subseteq Ids

Init ==
  /\ log = <<>> /\ deleted = {} /\ todo = {} /\ net = "up"
  /\ view = NoRoom /\ currentRoom = NoRoom /\ currentRoomId = NoRoom
  /\ messages = <<>> /\ oldestFetchedId = 0 /\ hasMoreMessages = FALSE
  /\ isLoading = FALSE /\ isLoadingMore = FALSE /\ messagesError = FALSE
  /\ unread = {}
  /\ roomCalls = {} /\ calls = {} /\ serial = 0
  /\ raced = {} /\ crossed = FALSE

isConnected == net # "down"

(* isTopLevelMessage, and activeRoomId of message:new *)
TopLevel(S) == {i \in S : ~log[i].reply}
ActiveRoom == IF currentRoom # NoRoom THEN currentRoom ELSE currentRoomId

----------------------------------------------------------------------------
(* Faults: mutated forms of the definitions below. *)
AlwaysCurrent(c) == TRUE
InactiveRoomsAreUnread(i) == log[i].room # ActiveRoom
AlwaysAppends(i) == Append(messages, i)

(* raced, after an event of i went wrong; it matters for the room selected. *)
Raced(i) ==
  IF log[i].room = currentRoomId /\ ~log[i].reply THEN raced \cup {i} ELSE raced

----------------------------------------------------------------------------
(* Server *)

Store(r, isReply) ==
  /\ Len(log) < MaxMessages
  /\ log' = Append(log, [room |-> r, reply |-> isReply])
  /\ todo' = todo \cup {[type |-> "new", id |-> Len(log) + 1]}
  /\ UNCHANGED <<deleted, net, where, list, flags, unread, roomCalls, pages, history>>

Delete(i) ==
  /\ i \in 1..Len(log) \ deleted /\ Cardinality(deleted) < MaxDeleted
  /\ deleted' = deleted \cup {i}
  /\ todo' = todo \cup {[type |-> "deleted", id |-> i]}
  /\ UNCHANGED <<log, net, where, list, flags, unread, roomCalls, pages, history>>

(* io.to(roomId).emit reaches nobody, or is never reached because the      *)
(* update of the room before it failed.                                    *)
AnnouncementLost(e) ==
  /\ e \in todo
  /\ net # "up" \/ e.type = "new"
  /\ todo' = todo \ {e}
  /\ raced' = Raced(e.id)
  /\ UNCHANGED <<log, deleted, net, where, list, flags, unread, roomCalls, pages, crossed>>

(* GET /messages/:roomId: the messages of the room before the cursor. *)
Before(r, before) ==
  {i \in 1..Len(log) : log[i].room = r /\ i \notin deleted /\ (before = 0 \/ i < before)}
Newest(S) == {i \in S : Cardinality({j \in S : j > i}) < PageSize}

ServerReads(c) ==
  /\ c \in calls /\ ~c.answered
  /\ LET found == Before(c.room, c.before) IN
     calls' = (calls \ {c}) \cup
       {[c EXCEPT !.answered = TRUE, !.page = Newest(found),
                  !.more = Cardinality(found) > PageSize]}
  /\ UNCHANGED <<server, net, where, list, flags, unread, roomCalls, serial, history>>

----------------------------------------------------------------------------
(* Calls of the browser *)

NewCall(kind, r, n, before) ==
  [kind |-> kind, room |-> r, serial |-> n, before |-> before, oldest |-> 0, pages |-> 0,
   answered |-> FALSE, page |-> {}, more |-> FALSE]

(* loadMessages *)
LoadMessages(r) ==
  /\ serial < MaxLoads
  /\ currentRoomId' = r
  /\ isLoading' = TRUE /\ messagesError' = FALSE
  /\ messages' = <<>> /\ hasMoreMessages' = FALSE /\ oldestFetchedId' = 0
  /\ unread' = unread \ {r}
  /\ calls' = calls \cup {NewCall("list", r, serial + 1, 0)}
  /\ serial' = serial + 1
  /\ raced' = {} /\ crossed' = FALSE

(* The effects of ChatLayout: loadRoom when connected, and loadMessages. *)
OpenRoom(r) ==
  /\ view # r
  /\ view' = r
  /\ roomCalls' = IF isConnected THEN roomCalls \cup {r} ELSE roomCalls
  /\ LoadMessages(r)
  /\ UNCHANGED <<server, net, currentRoom, isLoadingMore>>

(* The retry button of MessageList. *)
Retry ==
  /\ view # NoRoom /\ messagesError /\ messages = <<>>
  /\ LoadMessages(view)
  /\ UNCHANGED <<server, net, view, currentRoom, isLoadingMore, roomCalls>>

LeaveChat ==
  /\ view # NoRoom
  /\ view' = NoRoom
  /\ UNCHANGED <<server, net, currentRoom, currentRoomId, list, flags, unread, roomCalls, pages, history>>

(* The "load older" button of MessageList and loadMoreMessages. *)
LoadMore ==
  LET cursor == IF oldestFetchedId # 0 THEN oldestFetchedId
                ELSE IF messages # <<>> THEN Head(messages) ELSE 0 IN
  /\ view # NoRoom /\ hasMoreMessages /\ ~isLoadingMore
  /\ messages # <<>> \/ ~(messagesError \/ isLoading)
  /\ cursor # 0
  /\ isLoadingMore' = TRUE
  /\ calls' = calls \cup {NewCall("more", view, serial, cursor)}
  /\ UNCHANGED <<server, net, where, list, isLoading, messagesError, unread, roomCalls, serial, history>>

IsCurrent(c) == currentRoomId = c.room

(* The finally blocks of loadMessages and loadMoreMessages. *)
Finally(c) ==
  /\ isLoading' = (isLoading /\ ~(c.kind = "list" /\ IsCurrent(c)))
  /\ isLoadingMore' = (isLoadingMore /\ c.kind # "more")

(* The messages of S, oldest first.  (SortSeq and SelectSeq are computed by *)
(* TLC and have no definition to prove with.)                              *)
InOrder(S) ==
  CHOOSE s \in [1..Cardinality(S) -> S] : \A j, k \in 1..Cardinality(S) : j < k => s[j] < s[k]

(* The result of fetchTopLevelPages goes into the list. *)
Show(c, found, oldest, more) ==
  LET shown == InOrder(TopLevel(found)) IN
  /\ messages' = IF c.kind = "list" THEN shown ELSE shown \o messages
  /\ oldestFetchedId' = IF c.kind = "more" /\ oldest = 0 THEN oldestFetchedId ELSE oldest
  /\ hasMoreMessages' = more
  /\ UNCHANGED messagesError

(* c has ended; an outdated one changed something if its room is current. *)
Ended(c) ==
  /\ calls' = calls \ {c}
  /\ Finally(c)
  /\ crossed' = (crossed \/ (IsCurrent(c) /\ c.serial < serial))
  /\ UNCHANGED <<server, net, where, unread, roomCalls, serial, raced>>

(* A page of nothing but replies is followed by the next one. *)
WantsNextPage(c) ==
  IsCurrent(c) /\ c.page # {} /\ TopLevel(c.page) = {} /\ c.more /\ c.pages + 1 < MaxPages
NextCursor(c) == Min(c.page)

PageArrives(c) ==
  /\ c \in calls /\ c.answered /\ ~WantsNextPage(c)
  /\ IF IsCurrent(c)
     THEN Show(c, c.page, IF c.page = {} THEN c.oldest ELSE Min(c.page), c.page # {} /\ c.more)
     ELSE UNCHANGED <<list, messagesError>>
  /\ Ended(c)

NextPage(c) ==
  /\ c \in calls /\ c.answered /\ WantsNextPage(c)
  /\ calls' = (calls \ {c}) \cup
       {[NewCall(c.kind, c.room, c.serial, NextCursor(c)) EXCEPT
           !.oldest = NextCursor(c), !.pages = c.pages + 1]}
  /\ UNCHANGED <<server, net, where, list, flags, unread, roomCalls, serial, history>>

(* A first page that fails is an error, and so is an answer that breaks off; *)
(* a later page that fails leaves more to load.                             *)
CallFails(c) ==
  /\ c \in calls /\ ~c.answered
  /\ \/ /\ messagesError' = (messagesError \/ (c.kind = "list" /\ IsCurrent(c)))
        /\ UNCHANGED list
     \/ c.pages > 0 /\ IsCurrent(c) /\ Show(c, {}, c.oldest, TRUE)
  /\ Ended(c)

(* loadRoom: the room, or a placeholder for it after an exception, whatever *)
(* room is selected by now; an error status changes nothing.  Two calls for *)
(* one room that are in flight together are one here: they do the same.     *)
RoomArrives(r) ==
  /\ r \in roomCalls
  /\ currentRoom' \in {r, currentRoom}
  /\ roomCalls' = roomCalls \ {r}
  /\ UNCHANGED <<server, net, view, currentRoomId, list, flags, unread, pages, history>>

----------------------------------------------------------------------------
(* Events *)

(* An answer that was read before the event, and will land after it; a list *)
(* of which a page was.                                                     *)
OnItsWay == \E c \in calls : c.answered /\ IsCurrent(c)
ListIsRead == \E c \in calls : c.kind = "list" /\ (c.answered \/ c.pages > 0) /\ IsCurrent(c)

AddMessage(i) == IF i \in ToSet(messages) THEN messages ELSE Append(messages, i)

CountsAsUnread(i) == log[i].room # view

(* message:new; the announcement may come after that of the deletion. *)
NewMessage(e) ==
  LET i == e.id
      r == log[i].room
      late == i \in deleted /\ [type |-> "deleted", id |-> i] \notin todo
      missed == r # ActiveRoom \/ i < oldestFetchedId \/ ListIsRead
  IN
  /\ e \in todo /\ e.type = "new" /\ net = "up"
  /\ todo' = todo \ {e}
  /\ messages' = IF TopLevel({i}) # {} /\ r = ActiveRoom THEN AddMessage(i) ELSE messages
  /\ unread' = IF TopLevel({i}) # {} /\ CountsAsUnread(i) THEN unread \cup {r} ELSE unread
  /\ raced' = IF late \/ missed THEN Raced(i) ELSE raced
  /\ UNCHANGED <<log, deleted, net, where, oldestFetchedId, hasMoreMessages, flags, roomCalls, pages, crossed>>

(* messages.filter of deleteMessage *)
Without(i) ==
  LET kept == InOrder({k \in 1..Len(messages) : messages[k] # i}) IN
  [k \in 1..Len(kept) |-> messages[kept[k]]]

(* message:deleted *)
MessageDeleted(e) ==
  /\ e \in todo /\ e.type = "deleted" /\ net = "up"
  /\ todo' = todo \ {e}
  /\ messages' = Without(e.id)
  /\ raced' = IF OnItsWay THEN Raced(e.id) ELSE raced
  /\ UNCHANGED <<log, deleted, net, where, oldestFetchedId, hasMoreMessages, flags, unread, roomCalls, pages, crossed>>

(* What was on its way to the browser is lost: no announcement of it is    *)
(* received any more.                                                      *)
Disconnect ==
  /\ net # "down"
  /\ net' = "down"
  /\ UNCHANGED <<server, where, list, flags, unread, roomCalls, pages, history>>

(* The effect of ChatLayout that depends on isConnected loads the room      *)
(* again, and not its messages.                                            *)
Reconnect ==
  /\ net = "down"
  /\ net' = "joining"
  /\ IF view = NoRoom
     THEN UNCHANGED <<currentRoomId, roomCalls>>
     ELSE currentRoomId' = view /\ roomCalls' = roomCalls \cup {view}
  /\ UNCHANGED <<server, view, currentRoom, list, flags, unread, pages, history>>

(* The connection handler has joined the socket to its rooms. *)
RoomsJoined ==
  /\ net = "joining"
  /\ net' = "up"
  /\ UNCHANGED <<server, where, list, flags, unread, roomCalls, pages, history>>

----------------------------------------------------------------------------
Next ==
  \/ \E r \in Rooms, b \in BOOLEAN : Store(r, b)
  \/ \E i \in 1..Len(log) : Delete(i)
  \/ \E e \in todo : AnnouncementLost(e)
  \/ \E e \in todo : NewMessage(e)
  \/ \E e \in todo : MessageDeleted(e)
  \/ \E r \in Rooms : OpenRoom(r)
  \/ Retry \/ LeaveChat \/ LoadMore
  \/ \E c \in calls : ServerReads(c)
  \/ \E c \in calls : PageArrives(c)
  \/ \E c \in calls : NextPage(c)
  \/ \E c \in calls : CallFails(c)
  \/ \E r \in roomCalls : RoomArrives(r)
  \/ Disconnect \/ Reconnect \/ RoomsJoined

Spec == Init /\ [][Next]_vars

----------------------------------------------------------------------------
(* Properties *)

(* Nothing more is going to happen to the list. *)
Settled ==
  /\ todo = {} /\ ~messagesError
  /\ \A c \in calls : ~IsCurrent(c)

(* What the list shows in the end is exactly the room from the oldest       *)
(* fetched message on, each message once, no deleted one: except for        *)
(* messages an event of which was lost, came while the selected room was    *)
(* not yet the active one, overtook the event before it or an answer that   *)
(* was read without it, or came between two pages of one load; and except   *)
(* after an answer to an outdated call.                                     *)
(* The guards of addMessage, the cursor and the paging loop see to it.      *)
OthersAreExact ==
  Settled /\ ~crossed /\ currentRoomId # NoRoom =>
    \A i \in TopLevel(1..Len(log)) \ raced :
      log[i].room = currentRoomId /\ i >= oldestFetchedId =>
        Cardinality({k \in 1..Len(messages) : messages[k] = i}) = (IF i \in deleted THEN 0 ELSE 1)

(* No page of another room gets into the list, however often the user       *)
(* switches while pages are fetched: isCurrent in chatStore.                *)
PagesStayInTheirRoom ==
  [][todo \subseteq todo' =>
       \A i \in ToSet(messages') \ ToSet(messages) : log[i].room = currentRoomId']_vars

(* The room in view has no unread messages: loadMessages clears the count   *)
(* and message:new looks at the room of the page and not at currentRoom.    *)
RoomInViewIsRead == view \notin unread

(* A "loading" flag is on only while a call is in flight whose finally block *)
(* will clear it, whatever was switched or failed meanwhile.               *)
LoadingHasACall ==
  /\ isLoading => \E c \in calls : c.kind = "list" /\ c.room = currentRoomId
  /\ isLoadingMore => \E c \in calls : c.kind = "more"

(* A live message for the room the user has selected gets into the list:    *)
(* "Set currentRoomId immediately so socket messages aren't dropped while   *)
(* API loads" (chatStore.ts).                                               *)
LiveMessagesAreKept ==
  [][\A e \in todo \ todo' :
       /\ e.type = "new" /\ NewMessage(e)
       /\ log[e.id].room = currentRoomId /\ ~log[e.id].reply
       => e.id \in ToSet(messages')]_vars
=================================================================================
