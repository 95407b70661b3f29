------------------------------- MODULE Messaging -------------------------------
(***************************************************************************)
(* Messages, threads and pins of the chat rooms: every handler that stores *)
(* a message or a thread, deletes or pins a message, and what takes their  *)
(* ground away meanwhile (memberships, closed projects, deleted rooms and  *)
(* deleted accounts).                                                      *)
(*                                                                         *)
(* Every handler asks one question per query and awaits each answer, so a  *)
(* request is a little process; what it has been told may be outdated when *)
(* it writes.  The foreign keys and the unique index of the schema are the *)
(* guards of the writes.                                                   *)
(*                                                                         *)
(* Sources: server/src/services/socketService.ts, server/src/routes/       *)
(* {agents,upload,batch,threads,messages,rooms,auth}.ts, schema.prisma     *)
(***************************************************************************)
EXTENDS FiniteSets, Integers

CONSTANTS
  People, Agents,        \* users; the agents among them
  SystemAdmins, Nobody,
  Rooms, NoRoom,
  Owner,                 \* the OWNER or ADMIN participant of each room
  Messages, NoMessage,
  Threads, NoThread,
  Requests,              \* requests in flight
  Kinds                  \* kinds of requests an instance looks at

ASSUME PeopleAssumption ==
  /\ Agents \subseteq People /\ SystemAdmins \subseteq People /\ Nobody \notin People
  /\ Owner \in [Rooms -> People \ Agents]
ASSUME NullAssumption ==
  NoRoom \notin Rooms /\ NoMessage \notin Messages /\ NoThread \notin Threads
ASSUME FiniteAssumption == IsFiniteSet(Messages)

VARIABLES
  message, thread, room, member,   \* the tables
  user,       \* people whose account exists
  req,        \* requests in flight
  wrote,      \* history: who wrote each message
  erased      \* history: accounts deleted together with their messages

vars == <<message, thread, room, member, user, req, wrote, erased>>

SendKinds == {"send", "agent", "upload"}
AllKinds == SendKinds \cup {"batch", "thread", "delete", "pin", "unpin"}

ASSUME KindsAssumption == Kinds \subseteq AllKinds

Rows == [state: {"unused", "kept", "deleted", "gone"}, room: Rooms \cup {NoRoom},
         thread: Threads \cup {NoThread}, author: People \cup {Nobody}, pinned: BOOLEAN]
ThreadRows == [state: {"unused", "kept", "gone"}, room: Rooms \cup {NoRoom},
               root: Messages \cup {NoMessage}, count: 0..Cardinality(Messages)]
RequestState ==
  [kind: AllKinds \cup {"none"},
   pc: {"idle", "member", "project", "thread", "root", "store", "permission", "write"},
   who: People \cup {Nobody}, rooms: SUBSET Rooms, thread: Threads \cup {NoThread},
   message: Messages \cup {NoMessage}, author: People \cup {Nobody},
   wasMember: SUBSET Rooms, wasOpen: SUBSET Rooms]

TypeOK ==
  /\ message \in [Messages -> Rows]
  /\ thread \in [Threads -> ThreadRows]
  /\ room \in [Rooms -> {"open", "closed", "gone"}]
  /\ member \in [Rooms -> SUBSET People]
  /\ user \subseteq People
  /\ req \in [Requests -> RequestState]
  /\ wrote \in [Messages -> People \cup {Nobody}]
  /\ erased \subseteq People

Idle == [kind |-> "none", pc |-> "idle", who |-> Nobody, rooms |-> {}, thread |-> NoThread,
         message |-> NoMessage, author |-> Nobody, wasMember |-> {}, wasOpen |-> {}]

NoRow == [state |-> "unused", room |-> NoRoom, thread |-> NoThread, author |-> Nobody,
          pinned |-> FALSE]
NoThreadRow == [state |-> "unused", room |-> NoRoom, root |-> NoMessage, count |-> 0]

Init ==
  /\ message = [m \in Messages |-> NoRow]
  /\ thread = [t \in Threads |-> NoThreadRow]
  /\ room = [r \in Rooms |-> "open"]
  /\ member \in {f \in [Rooms -> SUBSET People] : \A r \in Rooms : Owner[r] \in f[r]}
  /\ user = People
  /\ req = [q \in Requests |-> Idle]
  /\ wrote = [m \in Messages |-> Nobody]
  /\ erased = {}

Stored(m) == message[m].state \in {"kept", "deleted"}

----------------------------------------------------------------------------
(* Faults: mutated forms of the definitions below. *)
CountsNothing(t) == thread[t].count
CountsTwice(t) == thread[t].count + 2
AnyRootIsFree(m) == TRUE
NeverBlocked(r) == FALSE
PinnedAsRead(row) == [row EXCEPT !.pinned = TRUE, !.state = "kept"]
SenderNotReferenced(p) == TRUE

----------------------------------------------------------------------------
(* isRoomWriteBlocked(getLinkedProjectStatus): the project of the room is  *)
(* closed; a room that is gone has no project.                             *)
WriteBlocked(r) == room[r] = "closed"

(* The foreign keys of a new row. *)
RoomExists(r) == room[r] # "gone"
SenderExists(p) == p \in user

(* A request of p aimed at the rooms rs. *)
Begin(q, kind, p, rs, t, m, pc) ==
  /\ kind \in Kinds
  /\ req[q] = Idle
  /\ p \in user
  /\ req' = [req EXCEPT ![q] =
       [Idle EXCEPT !.kind = kind, !.pc = pc, !.who = p, !.rooms = rs, !.thread = t,
                    !.message = m,
                    !.wasMember = {r \in rs : p \in member[r]},
                    !.wasOpen = {r \in rs : room[r] = "open"}]]
  /\ UNCHANGED <<message, thread, room, member, user, wrote, erased>>

(* message:send, and the reply it may be. *)
SendBegin(q, p, r, t) == Begin(q, "send", p, {r}, t, NoMessage, "member")

(* POST /api/agents/message past the rate and duplicate checks, which are  *)
(* in memory and touch nothing here.                                       *)
AgentPostBegin(q, p, r, t) ==
  /\ p \in Agents
  /\ Begin(q, "agent", p, {r}, t, NoMessage, "member")

(* POST /api/upload: a message that carries a file. *)
UploadBegin(q, p, r) == Begin(q, "upload", p, {r}, NoThread, NoMessage, "member")

(* POST /api/batch/messages: at most one message per room here. *)
BatchBegin(q, p, rs) == rs # {} /\ Begin(q, "batch", p, rs, NoThread, NoMessage, "member")

(* POST /api/rooms/:roomId/threads, about a message or about none. *)
ThreadBegin(q, p, r, m) == Begin(q, "thread", p, {r}, NoThread, m, "member")

Move(q, pc) ==
  /\ req' = [req EXCEPT ![q].pc = pc]
  /\ UNCHANGED <<message, thread, room, member, user, wrote, erased>>
End(q) ==
  /\ req' = [req EXCEPT ![q] = Idle]
  /\ UNCHANGED <<message, thread, room, member, user, wrote, erased>>

(* The participation row is looked up: a request for one room is refused   *)
(* without it, a batch passes over the rooms it has no row in.             *)
MemberRead(q) ==
  /\ req[q].pc = "member"
  /\ LET allowed == {r \in req[q].rooms : req[q].who \in member[r]}
     IN  IF allowed = {} THEN End(q)
         ELSE /\ req' = [req EXCEPT ![q].rooms = allowed, ![q].pc = "project"]
              /\ UNCHANGED <<message, thread, room, member, user, wrote, erased>>

AfterProject(q) ==
  CASE req[q].kind = "thread" -> IF req[q].message = NoMessage THEN "store" ELSE "root"
    [] req[q].thread # NoThread -> "thread"
    [] OTHER -> "store"

(* The status of the linked project, likewise. *)
ProjectRead(q) ==
  /\ req[q].pc = "project"
  /\ LET allowed == {r \in req[q].rooms : ~WriteBlocked(r)}
     IN  IF allowed = {} THEN End(q)
         ELSE /\ req' = [req EXCEPT ![q].rooms = allowed, ![q].pc = AfterProject(q)]
              /\ UNCHANGED <<message, thread, room, member, user, wrote, erased>>

(* A thread never moves to another room, so the answer stays good as long  *)
(* as the thread exists.                                                   *)
ThreadInRoom(t, r) == thread[t].state = "kept" /\ thread[t].room = r

ThreadRead(q) ==
  /\ req[q].pc = "thread"
  /\ IF \E r \in req[q].rooms : ThreadInRoom(req[q].thread, r)
     THEN Move(q, "store") ELSE End(q)

CountReply(t) == thread[t].count + 1

(* message.create; for a reply in one transaction with the thread's count. *)
(* A batch goes on with its next room.                                     *)
StoreMessage(q, r, m) ==
  /\ req[q].pc = "store" /\ req[q].kind # "thread"
  /\ r \in req[q].rooms /\ message[m].state = "unused"
  /\ RoomExists(r) /\ SenderExists(req[q].who)
  /\ req[q].thread # NoThread => thread[req[q].thread].state = "kept"
  /\ message' = [message EXCEPT ![m] =
       [state |-> "kept", room |-> r, thread |-> req[q].thread, author |-> req[q].who,
        pinned |-> FALSE]]
  /\ thread' = [t \in Threads |-> IF t = req[q].thread
                  THEN [thread[t] EXCEPT !.count = CountReply(t)] ELSE thread[t]]
  /\ wrote' = [wrote EXCEPT ![m] = req[q].who]
  /\ req' = [req EXCEPT ![q] = IF req[q].rooms = {r} THEN Idle
                               ELSE [req[q] EXCEPT !.rooms = @ \ {r}]]
  /\ UNCHANGED <<room, member, user, erased>>

(* The root must be a top-level message of the room, not deleted ... *)
RootRead(q) ==
  /\ req[q].pc = "root"
  /\ LET root == message[req[q].message]
     IN  IF root.state = "kept" /\ root.room \in req[q].rooms /\ root.thread = NoThread
         THEN Move(q, "store") ELSE End(q)

(* ... and the unique index lets it root one thread. *)
RootIsFree(m) == \A t \in Threads : thread[t].state = "kept" => thread[t].root # m

CreateThread(q, t) ==
  /\ req[q].pc = "store" /\ req[q].kind = "thread"
  /\ thread[t].state = "unused"
  /\ SenderExists(req[q].who)
  /\ \E r \in req[q].rooms :
       /\ RoomExists(r)
       /\ thread' = [thread EXCEPT ![t] =
            [state |-> "kept", room |-> r, root |-> req[q].message, count |-> 0]]
  /\ req[q].message # NoMessage => Stored(req[q].message) /\ RootIsFree(req[q].message)
  /\ req' = [req EXCEPT ![q] = Idle]
  /\ UNCHANGED <<message, room, member, user, wrote, erased>>

(* The requests about one message read its row first. *)
BeginOn(q, kind, p, m) ==
  /\ kind \in Kinds
  /\ req[q] = Idle
  /\ p \in user
  /\ req' = [req EXCEPT ![q] =
       [Idle EXCEPT !.kind = kind, !.pc = "permission", !.who = p, !.message = m,
                    !.rooms = {message[m].room}, !.author = message[m].author]]
  /\ UNCHANGED <<message, thread, room, member, user, wrote, erased>>

DeleteBegin(q, p, m) == message[m].state = "kept" /\ BeginOn(q, "delete", p, m)
PinBegin(q, p, m) ==
  message[m].state = "kept" /\ ~message[m].pinned /\ BeginOn(q, "pin", p, m)
UnpinBegin(q, p, m) == Stored(m) /\ message[m].pinned /\ BeginOn(q, "unpin", p, m)

MayDelete(q) == req[q].who \in {req[q].author} \cup (SystemAdmins \cap user)
MayPin(q) ==
  \/ req[q].who \in SystemAdmins \cap user
  \/ \E r \in req[q].rooms : req[q].who = Owner[r] /\ req[q].who \in member[r]

(* The sender and the admins delete, the room's privileged and the admins  *)
(* pin and unpin.                                                          *)
PermissionRead(q) ==
  /\ req[q].pc = "permission"
  /\ IF IF req[q].kind = "delete" THEN MayDelete(q) ELSE MayPin(q)
     THEN Move(q, "write") ELSE End(q)

Deleted(row) == [row EXCEPT !.state = "deleted"]
Pinned(row) == [row EXCEPT !.pinned = TRUE]
Unpinned(row) == [row EXCEPT !.pinned = FALSE]

(* The updates are by id; the row must still be there. *)
Update(q, kind, Column(_)) ==
  /\ req[q].pc = "write" /\ req[q].kind = kind
  /\ Stored(req[q].message)
  /\ message' = [message EXCEPT ![req[q].message] = Column(@)]
  /\ req' = [req EXCEPT ![q] = Idle]
  /\ UNCHANGED <<thread, room, member, user, wrote, erased>>

DeleteWrite(q) == Update(q, "delete", Deleted)
PinWrite(q) == SenderExists(req[q].who) /\ Update(q, "pin", Pinned)
UnpinWrite(q) == Update(q, "unpin", Unpinned)

(* The answer that ends a request early: a refusal, the mention quota of a *)
(* human's send, a broken constraint, a database error, a stop.            *)
Fail(q) == req[q] # Idle /\ End(q)

----------------------------------------------------------------------------
(* POST /:roomId/join and /invite, and an agent's rooms. *)
JoinRoom(p, r) ==
  /\ RoomExists(r) /\ p \in user /\ p \notin member[r]
  /\ member' = [member EXCEPT ![r] = @ \cup {p}]
  /\ req' = [q \in Requests |->
       IF req[q].who = p THEN [req[q] EXCEPT !.wasMember = @ \cup ({r} \cap req[q].rooms)]
                         ELSE req[q]]
  /\ UNCHANGED <<message, thread, room, user, wrote, erased>>

(* Only agents are ever removed from a room. *)
RemoveAgent(p, r) ==
  /\ p \in Agents \cap member[r]
  /\ member' = [member EXCEPT ![r] = @ \ {p}]
  /\ UNCHANGED <<message, thread, room, user, req, wrote, erased>>

CloseProject(r) ==
  /\ room[r] = "open"
  /\ room' = [room EXCEPT ![r] = "closed"]
  /\ UNCHANGED <<message, thread, member, user, req, wrote, erased>>

ReopenProject(r) ==
  /\ room[r] = "closed"
  /\ room' = [room EXCEPT ![r] = "open"]
  /\ req' = [q \in Requests |->
       [req[q] EXCEPT !.wasOpen = @ \cup ({r} \cap req[q].rooms)]]
  /\ UNCHANGED <<message, thread, member, user, wrote, erased>>

(* DELETE /:roomId: participants, threads and messages go in a cascade. *)
DeleteRoom(r) ==
  /\ RoomExists(r)
  /\ room' = [room EXCEPT ![r] = "gone"]
  /\ member' = [member EXCEPT ![r] = {}]
  /\ message' = [m \in Messages |->
       IF message[m].room = r THEN [NoRow EXCEPT !.state = "gone"] ELSE message[m]]
  /\ thread' = [t \in Threads |->
       IF thread[t].room = r THEN [NoThreadRow EXCEPT !.state = "gone"] ELSE thread[t]]
  /\ UNCHANGED <<user, req, wrote, erased>>

(* DELETE /me, in one transaction that locks the user's row first; with    *)
(* deleteMessages the messages are soft-deleted in it.                     *)
AccountDeleted(p, deleteMessages) ==
  /\ p \in user \ Agents
  /\ user' = user \ {p}
  /\ member' = [r \in Rooms |-> member[r] \ {p}]
  /\ message' = [m \in Messages |->
       IF message[m].author # p THEN message[m]
       ELSE [message[m] EXCEPT !.author = Nobody,
                               !.state = IF deleteMessages THEN "deleted" ELSE @]]
  /\ erased' = IF deleteMessages THEN erased \cup {p} ELSE erased
  /\ UNCHANGED <<thread, room, req, wrote>>

Next ==
  \/ \E q \in Requests :
       \/ \E p \in People, r \in Rooms :
            \/ \E t \in Threads \cup {NoThread} : SendBegin(q, p, r, t)
            \/ \E t \in Threads \cup {NoThread} : AgentPostBegin(q, p, r, t)
            \/ UploadBegin(q, p, r)
            \/ \E m \in Messages \cup {NoMessage} : ThreadBegin(q, p, r, m)
       \/ \E p \in People, rs \in SUBSET Rooms : BatchBegin(q, p, rs)
       \/ \E p \in People, m \in Messages :
            DeleteBegin(q, p, m) \/ PinBegin(q, p, m) \/ UnpinBegin(q, p, m)
       \/ MemberRead(q) \/ ProjectRead(q) \/ ThreadRead(q) \/ RootRead(q)
       \/ PermissionRead(q)
       \/ \E r \in Rooms, m \in Messages : StoreMessage(q, r, m)
       \/ \E t \in Threads : CreateThread(q, t)
       \/ DeleteWrite(q) \/ PinWrite(q) \/ UnpinWrite(q)
       \/ Fail(q)
  \/ \E r \in Rooms : \/ CloseProject(r) \/ ReopenProject(r) \/ DeleteRoom(r)
                      \/ \E p \in People : JoinRoom(p, r) \/ RemoveAgent(p, r)
  \/ \E p \in People, deleteMessages \in BOOLEAN : AccountDeleted(p, deleteMessages)

Spec == Init /\ [][Next]_vars

----------------------------------------------------------------------------
(* What the comment at the reply's transaction promises: a thread's count  *)
(* cannot drift from its stored replies, deleted ones included, however    *)
(* sends of the three routes, failures and room deletions interleave.      *)
RepliesAreCounted ==
  \A t \in Threads : thread[t].state = "kept" =>
    thread[t].count = Cardinality({m \in Messages : Stored(m) /\ message[m].thread = t})

(* Threads hold together: a stored reply belongs to a thread of its own    *)
(* room, and a root is a stored top-level message of the thread's room     *)
(* that roots no other thread, whatever happened between the checks of the *)
(* thread route and its insert.                                            *)
ThreadsHoldTogether ==
  /\ \A m \in Messages : Stored(m) /\ message[m].thread # NoThread =>
       /\ thread[message[m].thread].state = "kept"
       /\ thread[message[m].thread].room = message[m].room
  /\ \A t \in Threads : thread[t].state = "kept" /\ thread[t].root # NoMessage =>
       /\ Stored(thread[t].root)
       /\ message[thread[t].root].room = thread[t].room
       /\ message[thread[t].root].thread = NoThread
       /\ \A s \in Threads \ {t} : thread[s].root # thread[t].root

AllowedStore ==
  \A r \in Rooms :
    (\/ \E m \in Messages : message[m].state = "unused" /\ message'[m].room = r
     \/ \E t \in Threads : thread[t].state = "unused" /\ thread'[t].room = r)
    => \E q \in Requests :
         req[q].pc = "store" /\ req'[q] # req[q]
           /\ r \in req[q].wasMember \cap req[q].wasOpen

(* Membership and project status gate every write: whoever stores a        *)
(* message or a thread has been a member of the room, and the room open to *)
(* writes, at some moment since the request arrived.  A request that       *)
(* arrives after the project was closed for good stores nothing.           *)
StoresWereAllowed == [][AllowedStore]_vars

DeletedStays ==
  \A m \in Messages :
    message[m].state = "deleted" => message'[m].state \in {"deleted", "gone"}

(* Soft deletion is one-way: until its room goes, a deleted message stays  *)
(* deleted, also when a pin, an unpin or a second deletion that read it    *)
(* before writes after.                                                    *)
DeletionIsForGood == [][DeletedStays]_vars

(* deleteMessages means all of them: after an account is deleted together  *)
(* with its messages none of them is readable any more, not even one whose *)
(* send was in flight during the deletion.                                 *)
ErasureIsComplete ==
  \A m \in Messages : wrote[m] \in erased => message[m].state # "kept"

(* "Cannot pin a deleted message": a deletion that lands between the pin   *)
(* handler's read and its update is not noticed.                           *)
NeverPinsDeleted ==
  [][\A m \in Messages :
       ~message[m].pinned /\ message'[m].pinned => message[m].state = "kept"]_vars

=============================================================================
