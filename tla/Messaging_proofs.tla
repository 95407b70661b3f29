---------------------------- MODULE Messaging_proofs ----------------------------
(***************************************************************************)
(* Proofs about Messaging, for any people, rooms, threads and requests in  *)
(* flight and any finite set of messages: types, the count of a thread's   *)
(* replies, threads that hold together, complete erasure, soft deletion    *)
(* that lasts, and the right to store.                                     *)
(*                                                                         *)
(* None of them is inductive alone.  They share what a request in flight   *)
(* still knows when it writes: its room was its sender's and open at some  *)
(* time (Rights), and the thread or root it was told about is where it     *)
(* was, or gone (Aims).  Each further invariant builds on those before it. *)
(***************************************************************************)
EXTENDS Messaging, FiniteSetTheorems, TLAPS

ThreadRecord == [state: {"unused", "kept", "gone"}, room: Rooms \cup {NoRoom},
                 root: Messages \cup {NoMessage}, count: Nat]

(* TypeOK but for the bound of the counts, and rows that are not there are *)
(* empty.                                                                  *)
Shape ==
  /\ message \in [Messages -> Rows]
  /\ thread \in [Threads -> ThreadRecord]
  /\ room \in [Rooms -> {"open", "closed", "gone"}]
  /\ member \in [Rooms -> SUBSET People]
  /\ user \subseteq People
  /\ req \in [Requests -> RequestState]
  /\ wrote \in [Messages -> People \cup {Nobody}]
  /\ erased \subseteq People
  /\ \A m \in Messages :
       /\ Stored(m) => message[m].room \in Rooms
       /\ ~Stored(m) => /\ message[m].room = NoRoom /\ message[m].thread = NoThread
                        /\ message[m].author = Nobody
  /\ \A t \in Threads :
       thread[t].state # "kept" =>
         thread[t].room = NoRoom /\ thread[t].root = NoMessage /\ thread[t].count = 0

Pcs == {"idle", "member", "project", "thread", "root", "store", "permission", "write"}
Asking == {"member", "project", "thread", "root", "store"}

(* What request s has learnt of the rooms it may still write to.           *)
Rights(s, member1, room1) ==
  /\ s.pc \in Asking => \A r \in s.rooms :
       /\ s.who \in member1[r] => r \in s.wasMember
       /\ room1[r] = "open" => r \in s.wasOpen
  /\ s.pc \in Asking \ {"member"} => s.rooms \subseteq s.wasMember
  /\ s.pc \in {"thread", "root", "store"} =>
       \A r \in s.rooms : r \in s.wasOpen \/ room1[r] = "gone"

(* What request s has learnt of the thread it replies to, or of the root   *)
(* of the thread it creates; either aims at one room.                      *)
Aims(s, thread1, message1) ==
  /\ s.kind = "thread" => s.thread = NoThread
  /\ s.pc = "root" => s.kind = "thread"
  /\ s.pc = "thread" => s.kind # "thread"
  /\ s.thread # NoThread \/ s.kind = "thread" => \A a, b \in s.rooms : a = b
  /\ s.pc = "store" /\ s.kind # "thread" /\ s.thread # NoThread =>
       \/ thread1[s.thread].state = "gone"
       \/ thread1[s.thread].state = "kept" /\ thread1[s.thread].room \in s.rooms
  /\ s.pc = "store" /\ s.kind = "thread" /\ s.message # NoMessage =>
       \/ message1[s.message].state = "gone"
       \/ /\ message1[s.message].state \in {"kept", "deleted"}
          /\ message1[s.message].room \in s.rooms
          /\ message1[s.message].thread = NoThread

InOrder(s) == Rights(s, member, room) /\ Aims(s, thread, message)

IInv == Shape /\ \A q \in Requests : InOrder(req[q])

(* Threads and messages that are there stay what they are or go. *)
RowsStay ==
  /\ \A t \in Threads : thread[t].state # "unused" =>
       \/ thread'[t].state = "gone"
       \/ thread[t].state = "kept" /\ thread'[t].state = "kept" /\ thread'[t].room = thread[t].room
  /\ \A m \in Messages : message[m].state # "unused" =>
       \/ message'[m].state = "gone"
       \/ /\ Stored(m) /\ message'[m].state \in {"kept", "deleted"}
          /\ message'[m].room = message[m].room /\ message'[m].thread = message[m].thread

(* Nobody joins a room and no project opens. *)
RightsShrink ==
  \A r \in Rooms :
    /\ member'[r] \subseteq member[r]
    /\ room'[r] = "open" => room[r] = "open"
    /\ room[r] = "gone" => room'[r] = "gone"

----------------------------------------------------------------------------
LEMMA RequestFields ==
  ASSUME NEW s \in RequestState
  PROVE  /\ s.kind \in AllKinds \cup {"none"} /\ s.pc \in Pcs /\ s.who \in People \cup {Nobody}
         /\ s.rooms \subseteq Rooms /\ s.thread \in Threads \cup {NoThread}
         /\ s.message \in Messages \cup {NoMessage} /\ s.author \in People \cup {Nobody}
         /\ s.wasMember \subseteq Rooms /\ s.wasOpen \subseteq Rooms
BY DEF RequestState, Pcs

LEMMA IdleInOrder == Idle \in RequestState /\ Idle.pc = "idle" /\ InOrder(Idle)
BY DEF Idle, RequestState, InOrder, Rights, Aims, Asking

LEMMA RightsKept ==
  ASSUME RightsShrink, NEW s \in RequestState, Rights(s, member, room)
  PROVE  Rights(s, member', room')
<1>1. s.rooms \subseteq Rooms
  BY RequestFields
<1> QED BY <1>1 DEF Rights, RightsShrink

LEMMA AimsKept ==
  ASSUME RowsStay, NEW s \in RequestState, Aims(s, thread, message)
  PROVE  Aims(s, thread', message')
<1>1. s.thread \in Threads \cup {NoThread} /\ s.message \in Messages \cup {NoMessage}
  BY RequestFields
<1>2. s.pc = "store" /\ s.kind # "thread" /\ s.thread # NoThread =>
        \/ thread'[s.thread].state = "gone"
        \/ thread'[s.thread].state = "kept" /\ thread'[s.thread].room \in s.rooms
  BY <1>1 DEF Aims, RowsStay
<1>3. s.pc = "store" /\ s.kind = "thread" /\ s.message # NoMessage =>
        \/ message'[s.message].state = "gone"
        \/ /\ message'[s.message].state \in {"kept", "deleted"}
           /\ message'[s.message].room \in s.rooms
           /\ message'[s.message].thread = NoThread
  BY <1>1 DEF Aims, RowsStay, Stored
<1> QED BY <1>2, <1>3 DEF Aims

(* A step that moves request q, to a record that is in order.             *)
LEMMA OneRequest ==
  ASSUME IInv, NEW q \in Requests, NEW new \in RequestState, req' = [req EXCEPT ![q] = new],
         RowsStay, RightsShrink, Rights(new, member', room'), Aims(new, thread', message')
  PROVE  req' \in [Requests -> RequestState] /\ \A p \in Requests : InOrder(req[p])'
<1>1. req \in [Requests -> RequestState]
  BY DEF IInv, Shape
<1>2. /\ req' \in [Requests -> RequestState]
      /\ \A p \in Requests : req'[p] = IF p = q THEN new ELSE req[p]
  BY <1>1
<1>3. ASSUME NEW p \in Requests
      PROVE  Rights(req'[p], member', room') /\ Aims(req'[p], thread', message')
  <2>1. CASE p = q
    BY <1>2, <2>1
  <2>2. CASE p # q
    <3>1. req'[p] = req[p] /\ req[p] \in RequestState
      BY <1>1, <1>2, <2>2
    <3>2. Rights(req[p], member, room) /\ Aims(req[p], thread, message)
      BY DEF IInv, InOrder
    <3> QED BY <3>1, <3>2, RightsKept, AimsKept
  <2> QED BY <2>1, <2>2
<1> QED BY <1>2, <1>3 DEF InOrder

(* A step of the tables alone. *)
LEMMA NoRequest ==
  ASSUME IInv, req' = req, RowsStay, RightsShrink
  PROVE  req' \in [Requests -> RequestState] /\ \A p \in Requests : InOrder(req[p])'
<1>1. ASSUME NEW p \in Requests
      PROVE  Rights(req'[p], member', room') /\ Aims(req'[p], thread', message')
  <2>1. req'[p] = req[p] /\ req[p] \in RequestState
    BY DEF IInv, Shape
  <2>2. Rights(req[p], member, room) /\ Aims(req[p], thread, message)
    BY DEF IInv, InOrder
  <2> QED BY <2>1, <2>2, RightsKept, AimsKept
<1> QED BY <1>1 DEF InOrder, IInv, Shape

LEMMA InitIInv == Init => IInv
<1> SUFFICES ASSUME Init PROVE IInv
  OBVIOUS
<1>1. NoRow \in Rows /\ NoThreadRow \in ThreadRecord
  BY DEF NoRow, Rows, NoThreadRow, ThreadRecord
<1>2. Shape
  BY <1>1, IdleInOrder DEF Init, Shape, Stored, NoRow, NoThreadRow
<1>3. \A q \in Requests : InOrder(req[q])
  BY IdleInOrder DEF Init
<1> QED BY <1>2, <1>3 DEF IInv

----------------------------------------------------------------------------
tables == <<message, thread, room, member, user, wrote, erased>>

(* A step of one request that leaves the tables alone. *)
LEMMA QuietStep ==
  ASSUME IInv, NEW q \in Requests, NEW new \in RequestState, req' = [req EXCEPT ![q] = new],
         InOrder(new), UNCHANGED tables
  PROVE  IInv'
<1>1. RowsStay /\ RightsShrink
  BY DEF tables, RowsStay, RightsShrink, IInv, Shape, Rows, ThreadRecord, Stored
<1>2. Rights(new, member', room') /\ Aims(new, thread', message')
  BY DEF InOrder, tables
<1>3. req' \in [Requests -> RequestState] /\ \A p \in Requests : InOrder(req[p])'
  BY <1>1, <1>2, OneRequest
<1> QED BY <1>3 DEF IInv, Shape, tables, Stored

LEMMA EndKeepsIInv ==
  ASSUME IInv, NEW q \in Requests, End(q)
  PROVE  IInv'
BY IdleInOrder, QuietStep DEF End, tables

LEMMA BeginKeepsIInv ==
  ASSUME IInv, NEW q \in Requests, NEW kind \in AllKinds, NEW p \in People,
         NEW rs \in SUBSET Rooms, NEW t \in Threads \cup {NoThread},
         NEW m \in Messages \cup {NoMessage}, Begin(q, kind, p, rs, t, m, "member"),
         t # NoThread \/ kind = "thread" => \A a, b \in rs : a = b,
         kind = "thread" => t = NoThread
  PROVE  IInv'
<1> DEFINE wasMember == {r \in rs : p \in member[r]}
           wasOpen == {r \in rs : room[r] = "open"}
           new == [Idle EXCEPT !.kind = kind, !.pc = "member", !.who = p, !.rooms = rs,
                               !.thread = t, !.message = m, !.wasMember = wasMember,
                               !.wasOpen = wasOpen]
<1>1. req' = [req EXCEPT ![q] = new]
  BY DEF Begin
<1>2. wasMember \in SUBSET Rooms /\ wasOpen \in SUBSET Rooms
  OBVIOUS
<1> HIDE DEF wasMember, wasOpen
<1>3. /\ new \in RequestState /\ new.kind = kind /\ new.pc = "member" /\ new.who = p
      /\ new.rooms = rs /\ new.thread = t
      /\ new.wasMember = wasMember /\ new.wasOpen = wasOpen
  BY <1>2, IdleInOrder DEF RequestState
<1> HIDE DEF new
<1>4. InOrder(new)
  BY <1>3 DEF InOrder, Rights, Aims, Asking, wasMember, wasOpen
<1> QED BY <1>1, <1>3, <1>4, QuietStep DEF Begin, tables

LEMMA BeginsKeepIInv ==
  ASSUME IInv, NEW q \in Requests, NEW p \in People,
         \/ \E r \in Rooms :
              \/ \E t \in Threads \cup {NoThread} : SendBegin(q, p, r, t)
              \/ \E t \in Threads \cup {NoThread} : AgentPostBegin(q, p, r, t)
              \/ UploadBegin(q, p, r)
              \/ \E m \in Messages \cup {NoMessage} : ThreadBegin(q, p, r, m)
         \/ \E rs \in SUBSET Rooms : BatchBegin(q, p, rs)
  PROVE  IInv'
<1>1. ASSUME NEW r \in Rooms, NEW t \in Threads \cup {NoThread},
             SendBegin(q, p, r, t) \/ AgentPostBegin(q, p, r, t) \/ UploadBegin(q, p, r)
      PROVE  IInv'
  <2>1. {r} \in SUBSET Rooms /\ \A a, b \in {r} : a = b
    OBVIOUS
  <2> QED BY <1>1, <2>1, BeginKeepsIInv
          DEF SendBegin, AgentPostBegin, UploadBegin, AllKinds, SendKinds
<1>2. ASSUME NEW r \in Rooms, NEW m \in Messages \cup {NoMessage}, ThreadBegin(q, p, r, m)
      PROVE  IInv'
  <2>1. {r} \in SUBSET Rooms /\ \A a, b \in {r} : a = b
    OBVIOUS
  <2> QED BY <1>2, <2>1, BeginKeepsIInv DEF ThreadBegin, AllKinds
<1>3. ASSUME NEW rs \in SUBSET Rooms, BatchBegin(q, p, rs)
      PROVE  IInv'
  BY <1>3, BeginKeepsIInv DEF BatchBegin, AllKinds
<1> QED BY <1>1, <1>2, <1>3

LEMMA BeginOnKeepsIInv ==
  ASSUME IInv, NEW q \in Requests, NEW p \in People, NEW m \in Messages,
         DeleteBegin(q, p, m) \/ PinBegin(q, p, m) \/ UnpinBegin(q, p, m)
  PROVE  IInv'
<1>1. PICK kind \in {"delete", "pin", "unpin"} : BeginOn(q, kind, p, m)
  BY DEF DeleteBegin, PinBegin, UnpinBegin
<1>2. Stored(m)
  BY DEF DeleteBegin, PinBegin, UnpinBegin, Stored
<1> DEFINE new == [Idle EXCEPT !.kind = kind, !.pc = "permission", !.who = p, !.message = m,
                               !.rooms = {message[m].room}, !.author = message[m].author]
<1>3. req' = [req EXCEPT ![q] = new]
  BY <1>1 DEF BeginOn
<1>4. /\ message[m].room \in Rooms /\ message[m].author \in People \cup {Nobody}
      /\ kind \in AllKinds
  BY <1>2 DEF IInv, Shape, Rows, AllKinds
<1>5. /\ new \in RequestState /\ new.kind = kind /\ new.pc = "permission"
      /\ new.rooms = {message[m].room} /\ new.thread = NoThread
  BY <1>4, IdleInOrder DEF RequestState, Idle
<1> HIDE DEF new
<1>6. InOrder(new)
  BY <1>5 DEF InOrder, Rights, Aims, Asking
<1> QED BY <1>1, <1>3, <1>5, <1>6, QuietStep DEF BeginOn, tables

LEMMA MemberReadKeepsIInv ==
  ASSUME IInv, NEW q \in Requests, MemberRead(q)
  PROVE  IInv'
<1> DEFINE s == req[q]
           allowed == {r \in s.rooms : s.who \in member[r]}
           new == [s EXCEPT !.rooms = allowed, !.pc = "project"]
<1>1. s \in RequestState /\ InOrder(s) /\ s.pc = "member"
  BY DEF IInv, Shape, MemberRead
<1>2. allowed \subseteq s.rooms /\ s.rooms \subseteq Rooms
  BY <1>1, RequestFields
<1>3. CASE End(q)
  BY <1>3, EndKeepsIInv
<1>4. CASE ~End(q)
  <2>1. req' = [req EXCEPT ![q] = new] /\ UNCHANGED tables
    BY <1>4 DEF MemberRead, tables, IInv, Shape, RequestState
  <2>2. new \in RequestState
    BY <1>1, <1>2 DEF RequestState
  <2>3. /\ new.pc = "project" /\ new.rooms = allowed /\ new.who = s.who /\ new.kind = s.kind
        /\ new.thread = s.thread /\ new.wasMember = s.wasMember /\ new.wasOpen = s.wasOpen
    BY <1>1 DEF RequestState
  <2>4. Rights(new, member, room)
    BY <1>1, <1>2, <2>3 DEF InOrder, Rights, Asking
  <2>5. Aims(new, thread, message)
    BY <1>1, <1>2, <2>3 DEF InOrder, Aims
  <2> HIDE DEF new
  <2> QED BY <2>1, <2>2, <2>4, <2>5, QuietStep DEF InOrder
<1> QED BY <1>3, <1>4

LEMMA ProjectReadKeepsIInv ==
  ASSUME IInv, NEW q \in Requests, ProjectRead(q)
  PROVE  IInv'
<1> DEFINE s == req[q]
           allowed == {r \in s.rooms : ~WriteBlocked(r)}
           new == [s EXCEPT !.rooms = allowed, !.pc = AfterProject(q)]
<1>1. s \in RequestState /\ InOrder(s) /\ s.pc = "project"
  BY DEF IInv, Shape, ProjectRead
<1>2. allowed \subseteq s.rooms /\ s.rooms \subseteq Rooms
  BY <1>1, RequestFields
<1>3. CASE End(q)
  BY <1>3, EndKeepsIInv
<1>4. CASE ~End(q)
  <2>1. req' = [req EXCEPT ![q] = new] /\ UNCHANGED tables
    BY <1>4 DEF ProjectRead, tables
  <2>2. /\ AfterProject(q) \in {"thread", "root", "store"}
        /\ AfterProject(q) = "root" => s.kind = "thread"
        /\ AfterProject(q) = "thread" => s.kind # "thread"
        /\ AfterProject(q) = "store" =>
             IF s.kind = "thread" THEN s.message = NoMessage ELSE s.thread = NoThread
    BY <1>1 DEF AfterProject, InOrder, Aims
  <2>3. new \in RequestState
    BY <1>1, <1>2, <2>2 DEF RequestState
  <2>4. /\ new.pc = AfterProject(q) /\ new.rooms = allowed /\ new.who = s.who
        /\ new.kind = s.kind /\ new.thread = s.thread /\ new.message = s.message
        /\ new.wasMember = s.wasMember /\ new.wasOpen = s.wasOpen
    BY <1>1 DEF RequestState
  <2>5. \A r \in allowed : room[r] \in {"open", "gone"}
    BY <1>2 DEF WriteBlocked, IInv, Shape
  <2>6. Rights(new, member, room)
    BY <1>1, <1>2, <2>2, <2>4, <2>5 DEF InOrder, Rights, Asking
  <2>7. Aims(new, thread, message)
    BY <1>1, <1>2, <2>2, <2>4 DEF InOrder, Aims
  <2> HIDE DEF new
  <2> QED BY <2>1, <2>3, <2>6, <2>7, QuietStep DEF InOrder
<1> QED BY <1>3, <1>4

(* Where a request goes on without a new answer in its record. *)
LEMMA MoveKeepsIInv ==
  ASSUME IInv, NEW q \in Requests, NEW pc \in {"store", "write"}, Move(q, pc),
         pc = "store" => /\ req[q].pc \in {"thread", "root"}
                         /\ Aims([req[q] EXCEPT !.pc = "store"], thread, message)
  PROVE  IInv'
<1> DEFINE s == req[q]
           new == [s EXCEPT !.pc = pc]
<1>1. s \in RequestState /\ InOrder(s)
  BY DEF IInv, Shape
<1>2. /\ new \in RequestState /\ new.pc = pc /\ new.rooms = s.rooms /\ new.who = s.who
      /\ new.kind = s.kind /\ new.thread = s.thread
      /\ new.wasMember = s.wasMember /\ new.wasOpen = s.wasOpen
  BY <1>1 DEF RequestState
<1>3. Rights(new, member, room)
  BY <1>1, <1>2 DEF InOrder, Rights, Asking
<1>4. Aims(new, thread, message)
  <2>1. CASE pc = "store"
    BY <2>1
  <2>2. CASE pc = "write"
    BY <1>1, <1>2, <2>2 DEF InOrder, Aims
  <2> QED BY <2>1, <2>2
<1>5. req' = [req EXCEPT ![q] = new] /\ UNCHANGED tables
  BY DEF Move, tables
<1> HIDE DEF new
<1> QED BY <1>2, <1>3, <1>4, <1>5, QuietStep DEF InOrder

(* The thread a reply goes to, and the root of a new thread, are as the     *)
(* check found them.                                                       *)
LEMMA ReadsKeepIInv ==
  ASSUME IInv, NEW q \in Requests,
         ThreadRead(q) \/ RootRead(q) \/ PermissionRead(q) \/ Fail(q)
  PROVE  IInv'
<1> DEFINE s == req[q]
           new == [s EXCEPT !.pc = "store"]
<1>1. s \in RequestState /\ InOrder(s)
  BY DEF IInv, Shape
<1>2. /\ new.pc = "store" /\ new.rooms = s.rooms /\ new.kind = s.kind
      /\ new.thread = s.thread /\ new.message = s.message
  BY <1>1 DEF RequestState
<1>3. CASE End(q)
  BY <1>3, EndKeepsIInv
<1>4. CASE PermissionRead(q) /\ Move(q, "write")
  BY <1>4, MoveKeepsIInv
<1>5. ASSUME ThreadRead(q), Move(q, "store") PROVE IInv'
  <2>1. s.pc = "thread" /\ s.kind # "thread"
    BY <1>1, <1>5 DEF ThreadRead, InOrder, Aims
  <2>2. CASE End(q)
    BY <2>2, EndKeepsIInv
  <2>3. ASSUME ~End(q) PROVE Aims(new, thread, message)
    <3>1. \E r \in s.rooms : ThreadInRoom(s.thread, r)
      BY <1>5, <2>3 DEF ThreadRead
    <3> QED BY <1>1, <1>2, <2>1, <3>1 DEF InOrder, Aims, ThreadInRoom
  <2> HIDE DEF new
  <2> QED BY <1>5, <2>1, <2>2, <2>3, MoveKeepsIInv DEF new
<1>6. ASSUME RootRead(q), Move(q, "store") PROVE IInv'
  <2>1. s.pc = "root" /\ s.kind = "thread"
    BY <1>1, <1>6 DEF RootRead, InOrder, Aims
  <2>2. CASE End(q)
    BY <2>2, EndKeepsIInv
  <2>3. ASSUME ~End(q) PROVE Aims(new, thread, message)
    <3>1. /\ message[s.message].state = "kept" /\ message[s.message].room \in s.rooms
          /\ message[s.message].thread = NoThread
      BY <1>6, <2>3 DEF RootRead
    <3> QED BY <1>1, <1>2, <2>1, <3>1 DEF InOrder, Aims
  <2> HIDE DEF new
  <2> QED BY <1>6, <2>1, <2>2, <2>3, MoveKeepsIInv DEF new
<1> QED BY <1>3, <1>4, <1>5, <1>6 DEF ThreadRead, RootRead, PermissionRead, Fail

----------------------------------------------------------------------------
(* What a stored message changes: one unused row, and the count of one    *)
(* thread that is there.                                                   *)
LEMMA StoreEffect ==
  ASSUME IInv, NEW q \in Requests, NEW r \in Rooms, NEW m \in Messages, StoreMessage(q, r, m)
  PROVE  /\ req[q].who \in user /\ req[q].who \in People /\ r \in req[q].rooms /\ room[r] # "gone"
         /\ message[m].state = "unused"
         /\ message' \in [Messages -> Rows]
         /\ message'[m].state = "kept" /\ message'[m].room = r
         /\ message'[m].thread = req[q].thread /\ message'[m].author = req[q].who
         /\ \A n \in Messages \ {m} : message'[n] = message[n]
         /\ thread' \in [Threads -> ThreadRecord]
         /\ req[q].thread # NoThread =>
              /\ req[q].thread \in Threads /\ thread[req[q].thread].state = "kept"
              /\ thread'[req[q].thread].count = thread[req[q].thread].count + 1
         /\ \A t \in Threads :
              /\ thread'[t].state = thread[t].state /\ thread'[t].room = thread[t].room
              /\ thread'[t].root = thread[t].root
              /\ t # req[q].thread => thread'[t].count = thread[t].count
         /\ UNCHANGED <<room, member, user, erased>>
<1>1. /\ req[q] \in RequestState /\ message \in [Messages -> Rows]
      /\ thread \in [Threads -> ThreadRecord] /\ user \subseteq People
  BY DEF IInv, Shape
<1>2. req[q].who \in user /\ req[q].who \in People /\ r \in req[q].rooms /\ room[r] # "gone"
  BY <1>1 DEF StoreMessage, SenderExists, RoomExists
<1>3. req[q].thread \in Threads \cup {NoThread}
  BY <1>1, RequestFields
<1> DEFINE row == [state |-> "kept", room |-> r, thread |-> req[q].thread,
                   author |-> req[q].who, pinned |-> FALSE]
<1>4. message' = [message EXCEPT ![m] = row] /\ row \in Rows
  BY <1>2, <1>3 DEF StoreMessage, Rows
<1>5. /\ message' \in [Messages -> Rows]
      /\ message'[m].state = "kept" /\ message'[m].room = r
      /\ message'[m].thread = req[q].thread /\ message'[m].author = req[q].who
      /\ \A n \in Messages \ {m} : message'[n] = message[n]
  BY <1>1, <1>4
<1>6. ASSUME NEW t \in Threads
      PROVE  /\ thread'[t] \in ThreadRecord
             /\ thread'[t].state = thread[t].state /\ thread'[t].room = thread[t].room
             /\ thread'[t].root = thread[t].root
             /\ t # req[q].thread => thread'[t].count = thread[t].count
             /\ t = req[q].thread => thread'[t].count = thread[t].count + 1
  <2>1. thread[t] \in ThreadRecord
    BY <1>1
  <2>2. thread'[t] = IF t = req[q].thread THEN [thread[t] EXCEPT !.count = thread[t].count + 1]
                     ELSE thread[t]
    BY DEF StoreMessage, CountReply
  <2> QED BY <2>1, <2>2 DEF ThreadRecord
<1>7. thread' \in [Threads -> ThreadRecord]
  <2>1. thread' = [t \in Threads |-> thread'[t]]
    BY DEF StoreMessage
  <2> QED BY <1>6, <2>1
<1>8. req[q].thread # NoThread =>
        /\ req[q].thread \in Threads /\ thread[req[q].thread].state = "kept"
        /\ thread'[req[q].thread].count = thread[req[q].thread].count + 1
  BY <1>3, <1>6 DEF StoreMessage
<1> QED BY <1>2, <1>5, <1>6, <1>7, <1>8 DEF StoreMessage

(* A batch goes on with the rest of its rooms. *)
LEMMA RestInOrder ==
  ASSUME NEW s \in RequestState, InOrder(s), NEW r
  PROVE  LET new == [s EXCEPT !.rooms = s.rooms \ {r}] IN
           /\ new \in RequestState
           /\ Rights(new, member, room)
           /\ s.thread = NoThread /\ s.kind # "thread" => Aims(new, thread, message)
<1> DEFINE new == [s EXCEPT !.rooms = s.rooms \ {r}]
<1>1. /\ new \in RequestState /\ new.rooms = s.rooms \ {r} /\ new.pc = s.pc /\ new.who = s.who
      /\ new.kind = s.kind /\ new.thread = s.thread
      /\ new.wasMember = s.wasMember /\ new.wasOpen = s.wasOpen
  BY DEF RequestState
<1> HIDE DEF new
<1>2. Rights(new, member, room)
  BY <1>1 DEF InOrder, Rights
<1>3. s.thread = NoThread /\ s.kind # "thread" => Aims(new, thread, message)
  BY <1>1 DEF InOrder, Aims
<1> QED BY <1>1, <1>2, <1>3 DEF new

LEMMA StoreKeepsIInv ==
  ASSUME IInv, NEW q \in Requests, NEW r \in Rooms, NEW m \in Messages, StoreMessage(q, r, m)
  PROVE  IInv'
<1> DEFINE s == req[q]
           rest == [s EXCEPT !.rooms = s.rooms \ {r}]
           new == IF s.rooms = {r} THEN Idle ELSE rest
<1>1. s \in RequestState /\ InOrder(s) /\ s.kind # "thread" /\ r \in s.rooms
  BY DEF IInv, Shape, StoreMessage
<1>2. RowsStay
  <2>1. \A n \in Messages : message[n].state # "unused" => message'[n] = message[n]
    BY StoreEffect
  <2>2. \A t \in Threads : thread'[t].state = thread[t].state /\ thread'[t].room = thread[t].room
    BY StoreEffect
  <2>3. /\ \A t \in Threads : thread[t].state \in {"unused", "kept", "gone"}
        /\ \A n \in Messages : message[n].state \in {"unused", "kept", "deleted", "gone"}
    BY DEF IInv, Shape, ThreadRecord, Rows
  <2> QED BY <2>1, <2>2, <2>3 DEF RowsStay, Stored
<1>3. RightsShrink /\ UNCHANGED <<room, member, user, erased>>
  BY DEF StoreMessage, RightsShrink
<1>4. new \in RequestState /\ Rights(new, member, room) /\ Aims(new, thread, message)
  <2>1. CASE s.rooms = {r}
    BY <2>1, IdleInOrder DEF InOrder
  <2>2. CASE s.rooms # {r}
    <3>1. s.thread = NoThread
      BY <1>1, <2>2 DEF InOrder, Aims
    <3>2. new = rest
      BY <2>2
    <3>3. PICK o \in RequestState : o = s
      BY <1>1
    <3>4. PICK n : n = [o EXCEPT !.rooms = o.rooms \ {r}]
      OBVIOUS
    <3>5. n \in RequestState /\ Rights(n, member, room) /\ Aims(n, thread, message)
      BY <1>1, <3>1, <3>3, <3>4, RestInOrder
    <3> QED BY <3>2, <3>3, <3>4, <3>5
  <2> QED BY <2>1, <2>2
<1>5. Rights(new, member', room') /\ Aims(new, thread', message')
  BY <1>2, <1>3, <1>4, RightsKept, AimsKept
<1>6. req' = [req EXCEPT ![q] = new]
  BY DEF StoreMessage
<1> HIDE DEF new
<1>7. req' \in [Requests -> RequestState] /\ \A p \in Requests : InOrder(req[p])'
  BY <1>2, <1>3, <1>4, <1>5, <1>6, OneRequest
<1>8. \A n \in Messages :
        /\ message'[n].state \in {"kept", "deleted"} => message'[n].room \in Rooms
        /\ message'[n].state \notin {"kept", "deleted"} =>
             /\ message'[n].room = NoRoom /\ message'[n].thread = NoThread
             /\ message'[n].author = Nobody
  <2>1. ASSUME NEW n \in Messages \ {m} PROVE message'[n] = message[n]
    BY StoreEffect
  <2>2. message'[m].state = "kept" /\ message'[m].room = r
    BY StoreEffect
  <2> QED BY <2>1, <2>2 DEF IInv, Shape, Stored
<1>9. \A t \in Threads :
        thread'[t].state # "kept" =>
          thread'[t].room = NoRoom /\ thread'[t].root = NoMessage /\ thread'[t].count = 0
  BY StoreEffect, NullAssumption DEF IInv, Shape
<1>10. /\ message' \in [Messages -> Rows] /\ thread' \in [Threads -> ThreadRecord]
       /\ wrote' \in [Messages -> People \cup {Nobody}]
  <2>1. message' \in [Messages -> Rows] /\ thread' \in [Threads -> ThreadRecord]
    BY StoreEffect
  <2>2. wrote \in [Messages -> People \cup {Nobody}] /\ req[q].who \in People
    BY StoreEffect DEF IInv, Shape
  <2>3. wrote' = [wrote EXCEPT ![m] = req[q].who]
    BY DEF StoreMessage
  <2> QED BY <2>1, <2>2, <2>3
<1> QED BY <1>3, <1>7, <1>8, <1>9, <1>10 DEF IInv, Shape, Stored

(* What a new thread changes: one unused row. *)
LEMMA CreateEffect ==
  ASSUME IInv, NEW q \in Requests, NEW t \in Threads, CreateThread(q, t)
  PROVE  /\ thread[t].state = "unused" /\ req[q].kind = "thread" /\ req[q].pc = "store"
         /\ thread' \in [Threads -> ThreadRecord]
         /\ thread'[t].state = "kept" /\ thread'[t].room \in req[q].rooms
         /\ thread'[t].root = req[q].message /\ thread'[t].count = 0
         /\ req[q].message \in Messages \cup {NoMessage}
         /\ \A s \in Threads \ {t} : thread'[s] = thread[s]
         /\ req' = [req EXCEPT ![q] = Idle]
         /\ UNCHANGED <<message, room, member, user, wrote, erased>>
<1>1. /\ req[q] \in RequestState /\ thread \in [Threads -> ThreadRecord]
  BY DEF IInv, Shape
<1>2. PICK r \in req[q].rooms :
        thread' = [thread EXCEPT ![t] =
          [state |-> "kept", room |-> r, root |-> req[q].message, count |-> 0]]
  BY DEF CreateThread
<1> DEFINE new == [state |-> "kept", room |-> r, root |-> req[q].message, count |-> 0]
<1>3. r \in Rooms /\ req[q].message \in Messages \cup {NoMessage}
  BY <1>1, RequestFields
<1>4. new \in ThreadRecord
  BY <1>3 DEF ThreadRecord
<1>5. thread' = [thread EXCEPT ![t] = new]
  BY <1>2
<1>6. /\ thread' \in [Threads -> ThreadRecord] /\ thread'[t] = new
      /\ \A s \in Threads \ {t} : thread'[s] = thread[s]
  BY <1>1, <1>4, <1>5
<1> QED BY <1>3, <1>6 DEF CreateThread

LEMMA CreateKeepsIInv ==
  ASSUME IInv, NEW q \in Requests, NEW t \in Threads, CreateThread(q, t)
  PROVE  IInv'
<1>1. RowsStay
  <2>1. \A s \in Threads : thread[s].state # "unused" => thread'[s] = thread[s]
    BY CreateEffect
  <2>2. message' = message
    BY CreateEffect
  <2>3. /\ \A s \in Threads : thread[s].state \in {"unused", "kept", "gone"}
        /\ \A n \in Messages : message[n].state \in {"unused", "kept", "deleted", "gone"}
    BY DEF IInv, Shape, ThreadRecord, Rows
  <2> QED BY <2>1, <2>2, <2>3 DEF RowsStay, Stored
<1>2. /\ RightsShrink /\ req' = [req EXCEPT ![q] = Idle]
      /\ UNCHANGED <<message, room, member, user, wrote, erased>>
  BY CreateEffect DEF RightsShrink
<1>3. Rights(Idle, member', room') /\ Aims(Idle, thread', message')
  BY <1>1, <1>2, IdleInOrder, RightsKept, AimsKept DEF InOrder
<1>4. req' \in [Requests -> RequestState] /\ \A p \in Requests : InOrder(req[p])'
  BY <1>1, <1>2, <1>3, IdleInOrder, OneRequest
<1>5. /\ thread' \in [Threads -> ThreadRecord]
      /\ \A s \in Threads :
           thread'[s].state # "kept" =>
          thread'[s].room = NoRoom /\ thread'[s].root = NoMessage /\ thread'[s].count = 0
  BY CreateEffect DEF IInv, Shape
<1> QED BY <1>2, <1>4, <1>5 DEF IInv, Shape, Stored

(* What an update by id changes: the state of a stored row, to deleted, or *)
(* its pin.                                                                *)
LEMMA UpdateEffect ==
  ASSUME IInv, NEW q \in Requests, DeleteWrite(q) \/ PinWrite(q) \/ UnpinWrite(q)
  PROVE  /\ message' \in [Messages -> Rows]
         /\ \A n \in Messages :
              /\ message'[n].room = message[n].room /\ message'[n].thread = message[n].thread
              /\ message'[n].author = message[n].author
              /\ \/ message'[n].state = message[n].state
                 \/ message[n].state = "kept" /\ message'[n].state = "deleted"
         /\ req' = [req EXCEPT ![q] = Idle]
         /\ UNCHANGED <<thread, room, member, user, wrote, erased>>
<1> DEFINE m == req[q].message
<1>1. req[q] \in RequestState /\ message \in [Messages -> Rows]
  BY DEF IInv, Shape
<1>2. /\ Stored(m) /\ req' = [req EXCEPT ![q] = Idle]
      /\ UNCHANGED <<thread, room, member, user, wrote, erased>>
  BY DEF DeleteWrite, PinWrite, UnpinWrite, Update
<1>3. PICK row \in {Deleted(message[m]), Pinned(message[m]), Unpinned(message[m])} :
        message' = [message EXCEPT ![m] = row]
  BY DEF DeleteWrite, PinWrite, UnpinWrite, Update
<1>4. m \in Messages \cup {NoMessage}
  BY <1>1, RequestFields
<1>5. CASE m \in Messages
  <2>1. /\ row \in Rows /\ row.room = message[m].room /\ row.thread = message[m].thread
        /\ row.author = message[m].author
        /\ \/ row.state = message[m].state
           \/ message[m].state = "kept" /\ row.state = "deleted"
    BY <1>1, <1>2, <1>5 DEF Deleted, Pinned, Unpinned, Rows, Stored
  <2>2. \A n \in Messages : message'[n] = IF n = m THEN row ELSE message[n]
    BY <1>1, <1>3
  <2> QED BY <1>1, <1>2, <1>3, <1>5, <2>1, <2>2
<1>6. CASE m \notin Messages
  <2>1. message' = message
    BY <1>1, <1>3, <1>6
  <2> QED BY <1>1, <1>2, <2>1
<1> QED BY <1>5, <1>6

LEMMA UpdateKeepsIInv ==
  ASSUME IInv, NEW q \in Requests, DeleteWrite(q) \/ PinWrite(q) \/ UnpinWrite(q)
  PROVE  IInv'
<1>1. RowsStay
  <2>1. /\ \A s \in Threads : thread[s].state \in {"unused", "kept", "gone"}
        /\ \A n \in Messages : message[n].state \in {"unused", "kept", "deleted", "gone"}
    BY DEF IInv, Shape, ThreadRecord, Rows
  <2>2. thread' = thread
    BY UpdateEffect
  <2>3. \A n \in Messages :
          /\ message'[n].room = message[n].room /\ message'[n].thread = message[n].thread
          /\ \/ message'[n].state = message[n].state
             \/ message[n].state = "kept" /\ message'[n].state = "deleted"
    BY UpdateEffect
  <2> QED BY <2>1, <2>2, <2>3 DEF RowsStay, Stored
<1>2. /\ RightsShrink /\ req' = [req EXCEPT ![q] = Idle]
      /\ UNCHANGED <<thread, room, member, user, wrote, erased>>
  BY UpdateEffect DEF RightsShrink
<1>3. Rights(Idle, member', room') /\ Aims(Idle, thread', message')
  BY <1>1, <1>2, IdleInOrder, RightsKept, AimsKept DEF InOrder
<1>4. req' \in [Requests -> RequestState] /\ \A p \in Requests : InOrder(req[p])'
  BY <1>1, <1>2, <1>3, IdleInOrder, OneRequest
<1>5. /\ message' \in [Messages -> Rows]
      /\ \A m \in Messages :
           /\ message'[m].state \in {"kept", "deleted"} => message'[m].room \in Rooms
           /\ message'[m].state \notin {"kept", "deleted"} =>
                /\ message'[m].room = NoRoom /\ message'[m].thread = NoThread
                /\ message'[m].author = Nobody
  BY UpdateEffect DEF IInv, Shape, Stored
<1> QED BY <1>2, <1>4, <1>5 DEF IInv, Shape, Stored

----------------------------------------------------------------------------
(* The requests learn of a room they may write to from now on. *)
LEMMA JoinKeepsIInv ==
  ASSUME IInv, NEW p \in People, NEW r \in Rooms, JoinRoom(p, r)
  PROVE  IInv'
<1>1. UNCHANGED <<message, thread, room, user, wrote, erased>>
  BY DEF JoinRoom
<1>2. /\ member' \in [Rooms -> SUBSET People] /\ p \in People
      /\ \A x \in Rooms : member'[x] = IF x = r THEN member[x] \cup {p} ELSE member[x]
  BY DEF JoinRoom, IInv, Shape
<1>3. ASSUME NEW q \in Requests
      PROVE  req'[q] \in RequestState /\ InOrder(req[q])'
  <2> DEFINE s == req[q]
             known == s.wasMember \cup ({r} \cap s.rooms)
  <2>1. s \in RequestState /\ InOrder(s)
    BY DEF IInv, Shape
  <2>2. s.rooms \subseteq Rooms /\ known \subseteq Rooms
    BY <2>1, RequestFields
  <2>3. req'[q] = IF s.who = p THEN [s EXCEPT !.wasMember = known] ELSE s
    BY DEF JoinRoom
  <2>4. /\ req'[q] \in RequestState /\ req'[q].pc = s.pc /\ req'[q].who = s.who
        /\ req'[q].kind = s.kind /\ req'[q].rooms = s.rooms /\ req'[q].thread = s.thread
        /\ req'[q].message = s.message /\ req'[q].wasOpen = s.wasOpen
        /\ req'[q].wasMember = IF s.who = p THEN known ELSE s.wasMember
    BY <2>1, <2>2, <2>3 DEF RequestState
  <2>5. Rights(req'[q], member', room')
    <3>1. \A x \in s.rooms : s.who \in member'[x] => s.who \in member[x] \/ (s.who = p /\ x = r)
      BY <1>2, <2>2
    <3>2. s.wasMember \subseteq req'[q].wasMember
      BY <2>4
    <3>3. ASSUME s.pc \in Asking, NEW x \in s.rooms, s.who \in member'[x]
          PROVE  x \in req'[q].wasMember
      <4>1. CASE s.who \in member[x]
        BY <2>1, <3>2, <3>3, <4>1 DEF InOrder, Rights
      <4>2. CASE s.who = p /\ x = r
        BY <2>4, <3>3, <4>2
      <4> QED BY <3>1, <3>3, <4>1, <4>2
    <3> QED BY <1>1, <2>1, <2>4, <3>2, <3>3 DEF InOrder, Rights
  <2>6. Aims(req'[q], thread', message')
    BY <1>1, <2>1, <2>4 DEF InOrder, Aims
  <2> QED BY <2>4, <2>5, <2>6 DEF InOrder
<1>4. req' \in [Requests -> RequestState]
  BY <1>3 DEF JoinRoom
<1> QED BY <1>1, <1>2, <1>3, <1>4 DEF IInv, Shape, Stored

LEMMA ReopenKeepsIInv ==
  ASSUME IInv, NEW r \in Rooms, ReopenProject(r)
  PROVE  IInv'
<1>1. UNCHANGED <<message, thread, member, user, wrote, erased>>
  BY DEF ReopenProject
<1>2. /\ room' \in [Rooms -> {"open", "closed", "gone"}] /\ room[r] = "closed"
      /\ \A x \in Rooms : room'[x] = IF x = r THEN "open" ELSE room[x]
  BY DEF ReopenProject, IInv, Shape
<1>3. ASSUME NEW q \in Requests
      PROVE  req'[q] \in RequestState /\ InOrder(req[q])'
  <2> DEFINE s == req[q]
             known == s.wasOpen \cup ({r} \cap s.rooms)
  <2>1. s \in RequestState /\ InOrder(s)
    BY DEF IInv, Shape
  <2>2. s.rooms \subseteq Rooms /\ known \subseteq Rooms
    BY <2>1, RequestFields
  <2>3. req'[q] = [s EXCEPT !.wasOpen = known]
    BY DEF ReopenProject
  <2>4. /\ req'[q] \in RequestState /\ req'[q].pc = s.pc /\ req'[q].who = s.who
        /\ req'[q].kind = s.kind /\ req'[q].rooms = s.rooms /\ req'[q].thread = s.thread
        /\ req'[q].message = s.message /\ req'[q].wasMember = s.wasMember
        /\ req'[q].wasOpen = known
    BY <2>1, <2>2, <2>3 DEF RequestState
  <2>5. Rights(req'[q], member', room')
    BY <1>1, <1>2, <2>1, <2>2, <2>4 DEF InOrder, Rights
  <2>6. Aims(req'[q], thread', message')
    BY <1>1, <2>1, <2>4 DEF InOrder, Aims
  <2> QED BY <2>4, <2>5, <2>6 DEF InOrder
<1>4. req' \in [Requests -> RequestState]
  BY <1>3 DEF ReopenProject
<1> QED BY <1>1, <1>2, <1>3, <1>4 DEF IInv, Shape, Stored

LEMMA RemoveOrCloseKeepsIInv ==
  ASSUME IInv, NEW r \in Rooms, CloseProject(r) \/ \E p \in People : RemoveAgent(p, r)
  PROVE  IInv'
<1>1. UNCHANGED <<message, thread, user, req, wrote, erased>>
  BY DEF CloseProject, RemoveAgent
<1>2. /\ member' \in [Rooms -> SUBSET People]
      /\ room' \in [Rooms -> {"open", "closed", "gone"}]
  BY DEF CloseProject, RemoveAgent, IInv, Shape
<1>3. RightsShrink
  BY DEF CloseProject, RemoveAgent, RightsShrink, IInv, Shape
<1>4. RowsStay
  BY <1>1 DEF RowsStay, IInv, Shape, Rows, ThreadRecord, Stored
<1>5. req' \in [Requests -> RequestState] /\ \A q \in Requests : InOrder(req[q])'
  BY <1>1, <1>3, <1>4, NoRequest
<1> QED BY <1>1, <1>2, <1>5 DEF IInv, Shape, Stored

(* What a deleted room takes along: all of its messages and threads, and   *)
(* nothing else.                                                           *)
LEMMA DeleteRoomEffect ==
  ASSUME IInv, NEW r \in Rooms, DeleteRoom(r)
  PROVE  /\ message' \in [Messages -> Rows] /\ thread' \in [Threads -> ThreadRecord]
         /\ \A m \in Messages :
              IF message[m].room = r
                THEN /\ message'[m].state = "gone" /\ message'[m].room = NoRoom
                     /\ message'[m].thread = NoThread /\ message'[m].author = Nobody
                ELSE message'[m] = message[m]
         /\ \A t \in Threads :
              IF thread[t].room = r
                THEN /\ thread'[t].state = "gone" /\ thread'[t].room = NoRoom
                     /\ thread'[t].root = NoMessage /\ thread'[t].count = 0
                ELSE thread'[t] = thread[t]
         /\ UNCHANGED <<user, req, wrote, erased>>
<1> DEFINE row == [NoRow EXCEPT !.state = "gone"]
           trow == [NoThreadRow EXCEPT !.state = "gone"]
<1>1. message \in [Messages -> Rows] /\ thread \in [Threads -> ThreadRecord]
  BY DEF IInv, Shape
<1>2. /\ row \in Rows /\ row.state = "gone" /\ row.room = NoRoom /\ row.thread = NoThread
      /\ row.author = Nobody
  BY DEF NoRow, Rows
<1>3. /\ trow \in ThreadRecord /\ trow.state = "gone" /\ trow.room = NoRoom
      /\ trow.root = NoMessage /\ trow.count = 0
  BY DEF NoThreadRow, ThreadRecord
<1>4. /\ message' = [m \in Messages |-> IF message[m].room = r THEN row ELSE message[m]]
      /\ thread' = [t \in Threads |-> IF thread[t].room = r THEN trow ELSE thread[t]]
      /\ UNCHANGED <<user, req, wrote, erased>>
  BY DEF DeleteRoom
<1> HIDE DEF row, trow
<1> QED BY <1>1, <1>2, <1>3, <1>4

LEMMA DeleteRoomKeepsIInv ==
  ASSUME IInv, NEW r \in Rooms, DeleteRoom(r)
  PROVE  IInv'
<1>1. RightsShrink
  BY DEF DeleteRoom, RightsShrink, IInv, Shape
<1>2. RowsStay
  <2>1. /\ \A t \in Threads : thread[t].state \in {"unused", "kept", "gone"}
        /\ \A n \in Messages : message[n].state \in {"unused", "kept", "deleted", "gone"}
    BY DEF IInv, Shape, ThreadRecord, Rows
  <2>2. /\ \A t \in Threads : thread'[t].state = "gone" \/ thread'[t] = thread[t]
        /\ \A n \in Messages : message'[n].state = "gone" \/ message'[n] = message[n]
    BY DeleteRoomEffect
  <2> QED BY <2>1, <2>2 DEF RowsStay, Stored
<1>3. req' \in [Requests -> RequestState] /\ \A q \in Requests : InOrder(req[q])'
  BY <1>1, <1>2, NoRequest DEF DeleteRoom
<1>4. /\ member' \in [Rooms -> SUBSET People]
      /\ room' \in [Rooms -> {"open", "closed", "gone"}]
  BY DEF DeleteRoom, IInv, Shape
<1>5. \A m \in Messages :
        /\ message'[m].state \in {"kept", "deleted"} => message'[m].room \in Rooms
        /\ message'[m].state \notin {"kept", "deleted"} =>
             /\ message'[m].room = NoRoom /\ message'[m].thread = NoThread
             /\ message'[m].author = Nobody
  BY DeleteRoomEffect DEF IInv, Shape, Stored
<1>6. \A t \in Threads :
        thread'[t].state # "kept" =>
          thread'[t].room = NoRoom /\ thread'[t].root = NoMessage /\ thread'[t].count = 0
  BY DeleteRoomEffect DEF IInv, Shape
<1> QED BY <1>3, <1>4, <1>5, <1>6, DeleteRoomEffect DEF IInv, Shape, Stored

(* What a deleted account changes: the messages of that author. *)
LEMMA AccountEffect ==
  ASSUME IInv, NEW p \in People, NEW deleteMessages \in BOOLEAN,
         AccountDeleted(p, deleteMessages)
  PROVE  /\ message' \in [Messages -> Rows]
         /\ \A m \in Messages :
              IF message[m].author = p
                THEN /\ Stored(m) /\ message'[m].author = Nobody
                     /\ message'[m].room = message[m].room
                     /\ message'[m].thread = message[m].thread
                     /\ message'[m].state =
                          IF deleteMessages THEN "deleted" ELSE message[m].state
                ELSE message'[m] = message[m]
         /\ user' = user \ {p}
         /\ erased' = IF deleteMessages THEN erased \cup {p} ELSE erased
         /\ UNCHANGED <<thread, room, req, wrote>>
<1>1. message \in [Messages -> Rows] /\ p # Nobody
  BY PeopleAssumption DEF IInv, Shape
<1>2. \A m \in Messages : message[m].author = p => Stored(m)
  BY <1>1 DEF IInv, Shape
<1>3. message' = [m \in Messages |->
        IF message[m].author # p THEN message[m]
        ELSE [message[m] EXCEPT !.author = Nobody,
               !.state = IF deleteMessages THEN "deleted" ELSE message[m].state]]
  BY DEF AccountDeleted
<1>4. ASSUME NEW m \in Messages
      PROVE  /\ message'[m] \in Rows
             /\ IF message[m].author = p
                  THEN /\ message'[m].author = Nobody
                       /\ message'[m].room = message[m].room
                       /\ message'[m].thread = message[m].thread
                       /\ message'[m].state =
                            IF deleteMessages THEN "deleted" ELSE message[m].state
                  ELSE message'[m] = message[m]
  <2>1. message[m] \in Rows
    BY <1>1
  <2> QED BY <1>3, <2>1 DEF Rows
<1>5. message' \in [Messages -> Rows]
  BY <1>3, <1>4
<1> QED BY <1>2, <1>4, <1>5 DEF AccountDeleted

LEMMA AccountKeepsIInv ==
  ASSUME IInv, NEW p \in People, NEW deleteMessages \in BOOLEAN,
         AccountDeleted(p, deleteMessages)
  PROVE  IInv'
<1>1. member' \in [Rooms -> SUBSET People] /\ RightsShrink
  BY DEF AccountDeleted, RightsShrink, IInv, Shape
<1>2. \A m \in Messages :
        /\ message'[m].room = message[m].room /\ message'[m].thread = message[m].thread
        /\ \/ message'[m] = message[m]
           \/ Stored(m) /\ message'[m].state \in {"kept", "deleted"}
  BY AccountEffect DEF Stored
<1>3. RowsStay
  <2>1. /\ \A t \in Threads : thread[t].state \in {"unused", "kept", "gone"}
        /\ \A n \in Messages : message[n].state \in {"unused", "kept", "deleted", "gone"}
    BY DEF IInv, Shape, ThreadRecord, Rows
  <2>2. thread' = thread
    BY AccountEffect
  <2> QED BY <1>2, <2>1, <2>2 DEF RowsStay, Stored
<1>4. req' \in [Requests -> RequestState] /\ \A q \in Requests : InOrder(req[q])'
  BY <1>1, <1>3, NoRequest DEF AccountDeleted
<1>5. \A m \in Messages :
        /\ message'[m].state \in {"kept", "deleted"} => message'[m].room \in Rooms
        /\ message'[m].state \notin {"kept", "deleted"} =>
             /\ message'[m].room = NoRoom /\ message'[m].thread = NoThread
             /\ message'[m].author = Nobody
  BY <1>2 DEF IInv, Shape, Stored
<1>6. user' \subseteq People /\ erased' \subseteq People
  BY AccountEffect DEF IInv, Shape
<1> QED BY <1>1, <1>4, <1>5, <1>6, AccountEffect DEF IInv, Shape, Stored

----------------------------------------------------------------------------
(* The steps of Next, as the lemmas take them. *)
QuietNext(q) ==
  \/ \E p \in People :
       \/ \E r \in Rooms :
            \/ \E t \in Threads \cup {NoThread} : SendBegin(q, p, r, t)
            \/ \E t \in Threads \cup {NoThread} : AgentPostBegin(q, p, r, t)
            \/ UploadBegin(q, p, r)
            \/ \E m \in Messages \cup {NoMessage} : ThreadBegin(q, p, r, m)
       \/ \E rs \in SUBSET Rooms : BatchBegin(q, p, rs)
  \/ \E p \in People, m \in Messages :
       DeleteBegin(q, p, m) \/ PinBegin(q, p, m) \/ UnpinBegin(q, p, m)
  \/ MemberRead(q) \/ ProjectRead(q) \/ ThreadRead(q) \/ RootRead(q)
  \/ PermissionRead(q) \/ Fail(q)

WritingNext ==
  \/ \E q \in Requests, r \in Rooms, m \in Messages : StoreMessage(q, r, m)
  \/ \E q \in Requests, t \in Threads : CreateThread(q, t)
  \/ \E q \in Requests : DeleteWrite(q) \/ PinWrite(q) \/ UnpinWrite(q)
  \/ \E r \in Rooms : DeleteRoom(r)
  \/ \E p \in People, deleteMessages \in BOOLEAN : AccountDeleted(p, deleteMessages)

RoomsNext ==
  \E r \in Rooms : \/ CloseProject(r) \/ ReopenProject(r)
                   \/ \E p \in People : JoinRoom(p, r) \/ RemoveAgent(p, r)

LEMMA Steps == [Next]_vars =>
  (\E q \in Requests : QuietNext(q)) \/ WritingNext \/ RoomsNext \/ UNCHANGED vars
BY DEF Next, QuietNext, WritingNext, RoomsNext

(* Only WritingNext writes messages, threads and accounts. *)
LEMMA OthersWriteNothing ==
  ASSUME [Next]_vars, ~WritingNext
  PROVE  UNCHANGED <<message, thread, user, wrote, erased>>
<1>1. ASSUME NEW q \in Requests, QuietNext(q)
      PROVE  UNCHANGED <<message, thread, user, wrote, erased>>
  <2>1. ASSUME NEW p \in People, NEW r \in Rooms,
               \/ \E t \in Threads \cup {NoThread} : SendBegin(q, p, r, t) \/ AgentPostBegin(q, p, r, t)
               \/ UploadBegin(q, p, r)
               \/ \E m \in Messages \cup {NoMessage} : ThreadBegin(q, p, r, m)
        PROVE  UNCHANGED <<message, thread, user, wrote, erased>>
    BY <2>1 DEF SendBegin, AgentPostBegin, UploadBegin, ThreadBegin, Begin
  <2>2. ASSUME NEW p \in People, NEW rs \in SUBSET Rooms, BatchBegin(q, p, rs)
        PROVE  UNCHANGED <<message, thread, user, wrote, erased>>
    BY <2>2 DEF BatchBegin, Begin
  <2>3. ASSUME NEW p \in People, NEW m \in Messages,
               DeleteBegin(q, p, m) \/ PinBegin(q, p, m) \/ UnpinBegin(q, p, m)
        PROVE  UNCHANGED <<message, thread, user, wrote, erased>>
    BY <2>3 DEF DeleteBegin, PinBegin, UnpinBegin, BeginOn, Begin
  <2>4. ASSUME \/ MemberRead(q) \/ ProjectRead(q) \/ ThreadRead(q)
               \/ RootRead(q) \/ PermissionRead(q) \/ Fail(q)
        PROVE  UNCHANGED <<message, thread, user, wrote, erased>>
    BY <2>4 DEF MemberRead, ProjectRead, ThreadRead, RootRead, PermissionRead, Fail, Move, End
  <2> QED BY <1>1, <2>1, <2>2, <2>3, <2>4, ZenonT(30) DEF QuietNext
<1>2. RoomsNext => UNCHANGED <<message, thread, user, wrote, erased>>
  BY DEF RoomsNext, CloseProject, ReopenProject, JoinRoom, RemoveAgent
<1> QED BY <1>1, <1>2, Steps DEF vars

LEMMA NextKeepsIInv == IInv /\ [Next]_vars => IInv'
<1> SUFFICES ASSUME IInv, [Next]_vars PROVE IInv'
  OBVIOUS
<1>1. ASSUME NEW q \in Requests, QuietNext(q) PROVE IInv'
  BY <1>1, BeginsKeepIInv, BeginOnKeepsIInv, MemberReadKeepsIInv, ProjectReadKeepsIInv,
     ReadsKeepIInv DEF QuietNext
<1>2. CASE WritingNext
  BY <1>2, StoreKeepsIInv, CreateKeepsIInv, UpdateKeepsIInv, DeleteRoomKeepsIInv,
     AccountKeepsIInv DEF WritingNext
<1>3. CASE RoomsNext
  BY <1>3, RemoveOrCloseKeepsIInv, ReopenKeepsIInv, JoinKeepsIInv DEF RoomsNext
<1>4. CASE UNCHANGED vars
  BY <1>4 DEF vars, IInv, Shape, InOrder, Stored
<1> QED BY <1>1, <1>2, <1>3, <1>4, Steps

THEOREM Invariance == Spec => []IInv
<1> QED BY InitIInv, NextKeepsIInv, PTL DEF Spec

----------------------------------------------------------------------------
(* The threads.                                                            *)

ThreadsInOrder == IInv /\ ThreadsHoldTogether /\ RepliesAreCounted

(* The two halves of ThreadsHoldTogether. *)
RepliesBelong ==
  \A m \in Messages : Stored(m) /\ message[m].thread # NoThread =>
    /\ thread[message[m].thread].state = "kept"
    /\ thread[message[m].thread].room = message[m].room
RootsBelong ==
  \A t \in Threads : thread[t].state = "kept" /\ thread[t].root # NoMessage =>
    /\ Stored(thread[t].root)
    /\ message[thread[t].root].room = thread[t].room
    /\ message[thread[t].root].thread = NoThread
    /\ \A s \in Threads \ {t} : thread[s].root # thread[t].root

LEMMA Halves == ThreadsHoldTogether <=> RepliesBelong /\ RootsBelong
BY DEF ThreadsHoldTogether, RepliesBelong, RootsBelong

LEMMA HalvesThen == ThreadsHoldTogether' <=> RepliesBelong' /\ RootsBelong'
BY DEF ThreadsHoldTogether, RepliesBelong, RootsBelong

LEMMA RowTypes ==
  ASSUME IInv
  PROVE  /\ \A m \in Messages : message[m].thread \in Threads \cup {NoThread}
         /\ \A t \in Threads : /\ thread[t].root \in Messages \cup {NoMessage}
                               /\ thread[t].count \in Nat
BY DEF IInv, Shape, Rows, ThreadRecord

(* A reply is stored in its thread's room, into a row that is nobody's     *)
(* root.                                                                   *)
LEMMA StoreKeepsThreads ==
  ASSUME ThreadsInOrder, NEW q \in Requests, NEW r \in Rooms, NEW m \in Messages,
         StoreMessage(q, r, m)
  PROVE  ThreadsHoldTogether'
<1> DEFINE s == req[q]
<1>1. IInv /\ RepliesBelong /\ RootsBelong
  BY Halves DEF ThreadsInOrder
<1>2. /\ s.pc = "store" /\ s.kind # "thread" /\ s \in RequestState /\ InOrder(s)
  BY <1>1 DEF StoreMessage, IInv, Shape
<1>3. /\ r \in s.rooms /\ message[m].state = "unused"
      /\ message'[m].state = "kept" /\ message'[m].room = r /\ message'[m].thread = s.thread
      /\ \A n \in Messages \ {m} : message'[n] = message[n]
      /\ s.thread # NoThread => s.thread \in Threads /\ thread[s.thread].state = "kept"
      /\ \A t \in Threads : /\ thread'[t].state = thread[t].state
                            /\ thread'[t].room = thread[t].room
                            /\ thread'[t].root = thread[t].root
  BY <1>1, StoreEffect
<1>4. s.thread # NoThread => thread[s.thread].room = r
  BY <1>2, <1>3 DEF InOrder, Aims
<1>5. ASSUME NEW n \in Messages, message'[n].state \in {"kept", "deleted"},
             message'[n].thread # NoThread
      PROVE  /\ thread'[message'[n].thread].state = "kept"
             /\ thread'[message'[n].thread].room = message'[n].room
  <2>1. CASE n = m
    BY <1>3, <1>4, <1>5, <2>1
  <2>2. CASE n # m
    <3>1. message'[n] = message[n] /\ message[n].thread \in Threads
      BY <1>1, <1>3, <1>5, <2>2, RowTypes
    <3>2. /\ thread[message[n].thread].state = "kept"
          /\ thread[message[n].thread].room = message[n].room
      BY <1>1, <1>5, <3>1 DEF RepliesBelong, Stored
    <3> QED BY <1>3, <3>1, <3>2
  <2> QED BY <2>1, <2>2
<1>6. ASSUME NEW t \in Threads, thread'[t].state = "kept", thread'[t].root # NoMessage
      PROVE  /\ message'[thread'[t].root].state \in {"kept", "deleted"}
             /\ message'[thread'[t].root].room = thread'[t].room
             /\ message'[thread'[t].root].thread = NoThread
             /\ \A x \in Threads \ {t} : thread'[x].root # thread'[t].root
  <2> DEFINE root == thread[t].root
  <2>1. /\ thread[t].state = "kept" /\ root # NoMessage /\ thread'[t].root = root
        /\ thread'[t].room = thread[t].room
    BY <1>3, <1>6
  <2>2. /\ message[root].state \in {"kept", "deleted"} /\ message[root].room = thread[t].room
        /\ message[root].thread = NoThread
        /\ \A x \in Threads \ {t} : thread[x].root # root
    BY <1>1, <2>1 DEF RootsBelong, Stored
  <2>3. root \in Messages
    BY <1>1, <2>1, RowTypes
  <2>4. root # m
    BY <1>3, <2>2
  <2>5. message'[root] = message[root]
    BY <1>3, <2>3, <2>4
  <2> QED BY <1>3, <2>1, <2>2, <2>5
<1>7. RepliesBelong' /\ RootsBelong'
  BY <1>5, <1>6 DEF RepliesBelong, RootsBelong, Stored
<1> QED BY <1>7, HalvesThen

(* A new thread has no replies, and its root no other thread. *)
LEMMA CreateKeepsThreads ==
  ASSUME ThreadsInOrder, NEW q \in Requests, NEW t \in Threads, CreateThread(q, t)
  PROVE  ThreadsHoldTogether'
<1> DEFINE s == req[q]
           root == s.message
<1>1. IInv /\ RepliesBelong /\ RootsBelong
  BY Halves DEF ThreadsInOrder
<1>2. s \in RequestState /\ InOrder(s) /\ s.kind = "thread" /\ s.pc = "store"
  BY <1>1 DEF CreateThread, IInv, Shape
<1>3. /\ thread[t].state = "unused" /\ thread'[t].state = "kept" /\ thread'[t].room \in s.rooms
      /\ thread'[t].root = root /\ root \in Messages \cup {NoMessage}
      /\ \A x \in Threads \ {t} : thread'[x] = thread[x]
      /\ message' = message
  BY <1>1, CreateEffect
<1>4. ASSUME root # NoMessage
      PROVE  /\ message[root].state \in {"kept", "deleted"}
             /\ message[root].room = thread'[t].room /\ message[root].thread = NoThread
             /\ \A x \in Threads : thread[x].root # root
  <2>1. Stored(root) /\ RootIsFree(root)
    BY <1>4 DEF CreateThread
  <2>2. message[root].room \in s.rooms /\ message[root].thread = NoThread
    BY <1>2, <1>4, <2>1 DEF InOrder, Aims, Stored
  <2>3. message[root].room = thread'[t].room
    BY <1>2, <1>3, <2>2 DEF InOrder, Aims
  <2>4. \A x \in Threads : thread[x].root # root
    BY <1>1, <1>4, <2>1 DEF RootIsFree, IInv, Shape
  <2> QED BY <2>1, <2>2, <2>3, <2>4 DEF Stored
<1>5. RepliesBelong'
  BY <1>1, <1>3, RowTypes DEF RepliesBelong, Stored
<1>6. ASSUME NEW y \in Threads, thread'[y].state = "kept", thread'[y].root # NoMessage
      PROVE  /\ message[thread'[y].root].state \in {"kept", "deleted"}
             /\ message[thread'[y].root].room = thread'[y].room
             /\ message[thread'[y].root].thread = NoThread
             /\ \A x \in Threads \ {y} : thread'[x].root # thread'[y].root
  <2>1. CASE y = t
    BY <1>3, <1>4, <1>6, <2>1
  <2>2. CASE y # t
    <3>1. thread'[y] = thread[y]
      BY <1>3, <2>2
    <3>2. /\ message[thread[y].root].state \in {"kept", "deleted"}
          /\ message[thread[y].root].room = thread[y].room
          /\ message[thread[y].root].thread = NoThread
          /\ \A x \in Threads \ {y} : thread[x].root # thread[y].root
      BY <1>1, <1>6, <3>1 DEF RootsBelong, Stored
    <3>3. root # thread[y].root
      BY <1>4, <1>6, <3>1
    <3> QED BY <1>3, <3>1, <3>2, <3>3
  <2> QED BY <2>1, <2>2
<1>7. RootsBelong'
  BY <1>3, <1>6 DEF RootsBelong, Stored
<1> QED BY <1>5, <1>7, HalvesThen

(* A step that moves no message and no thread. *)
LEMMA InPlaceKeepsThreads ==
  ASSUME ThreadsInOrder, thread' = thread,
         \A m \in Messages :
           /\ message'[m].room = message[m].room /\ message'[m].thread = message[m].thread
           /\ message'[m].state \in {"kept", "deleted"} <=> Stored(m)
  PROVE  ThreadsHoldTogether' /\ RepliesAreCounted'
<1>1. IInv /\ RepliesBelong /\ RootsBelong
  BY Halves DEF ThreadsInOrder
<1>2. RepliesBelong' /\ RootsBelong'
  BY <1>1, RowTypes DEF RepliesBelong, RootsBelong, Stored
<1>3. ASSUME NEW t \in Threads
      PROVE  {m \in Messages : Stored(m) /\ message[m].thread = t}' =
             {m \in Messages : Stored(m) /\ message[m].thread = t}
  BY DEF Stored
<1>4. RepliesAreCounted'
  BY <1>3 DEF ThreadsInOrder, RepliesAreCounted
<1> QED BY <1>2, <1>4, HalvesThen

(* The messages and threads of a room go together. *)
LEMMA DeleteRoomKeepsThreads ==
  ASSUME ThreadsInOrder, NEW r \in Rooms, DeleteRoom(r)
  PROVE  ThreadsHoldTogether' /\ RepliesAreCounted'
<1>1. IInv /\ RepliesBelong /\ RootsBelong
  BY Halves DEF ThreadsInOrder
<1>2. \A m \in Messages :
        IF message[m].room = r THEN message'[m].state = "gone" ELSE message'[m] = message[m]
  BY <1>1, DeleteRoomEffect
<1>3. \A t \in Threads :
        IF thread[t].room = r THEN thread'[t].state = "gone" /\ thread'[t].root = NoMessage
                              ELSE thread'[t] = thread[t]
  BY <1>1, DeleteRoomEffect
<1>4. ASSUME NEW n \in Messages, message'[n].state \in {"kept", "deleted"},
             message'[n].thread # NoThread
      PROVE  /\ thread'[message'[n].thread].state = "kept"
             /\ thread'[message'[n].thread].room = message'[n].room
  <2>1. message'[n] = message[n] /\ message[n].room # r
    BY <1>2, <1>4
  <2>2. /\ thread[message[n].thread].state = "kept" /\ message[n].thread \in Threads
        /\ thread[message[n].thread].room = message[n].room
    BY <1>1, <1>4, <2>1, RowTypes DEF RepliesBelong, Stored
  <2> QED BY <1>3, <2>1, <2>2
<1>5. ASSUME NEW t \in Threads, thread'[t].state = "kept", thread'[t].root # NoMessage
      PROVE  /\ message'[thread'[t].root].state \in {"kept", "deleted"}
             /\ message'[thread'[t].root].room = thread'[t].room
             /\ message'[thread'[t].root].thread = NoThread
             /\ \A x \in Threads \ {t} : thread'[x].root # thread'[t].root
  <2>1. thread'[t] = thread[t] /\ thread[t].room # r /\ thread[t].root \in Messages
    BY <1>1, <1>3, <1>5, RowTypes
  <2>2. /\ message[thread[t].root].state \in {"kept", "deleted"}
        /\ message[thread[t].root].room = thread[t].room
        /\ message[thread[t].root].thread = NoThread
        /\ \A x \in Threads \ {t} : thread[x].root # thread[t].root
    BY <1>1, <1>5, <2>1 DEF RootsBelong, Stored
  <2>3. message'[thread[t].root] = message[thread[t].root]
    BY <1>2, <2>1, <2>2
  <2>4. \A x \in Threads \ {t} : thread'[x].root # thread[t].root
    BY <1>3, <1>5, <2>1, <2>2
  <2> QED BY <2>1, <2>2, <2>3, <2>4
<1>6. ASSUME NEW t \in Threads, thread'[t].state = "kept"
      PROVE  /\ thread'[t] = thread[t]
             /\ {m \in Messages : Stored(m) /\ message[m].thread = t}' =
                {m \in Messages : Stored(m) /\ message[m].thread = t}
  <2>1. thread'[t] = thread[t] /\ thread[t].room # r /\ t # NoThread
    BY <1>3, <1>6, NullAssumption
  <2>2. ASSUME NEW m \in Messages
        PROVE  (message'[m].state \in {"kept", "deleted"} /\ message'[m].thread = t) <=>
               (message[m].state \in {"kept", "deleted"} /\ message[m].thread = t)
    <3>1. CASE message[m].room = r
      <4>1. message'[m].state = "gone"
        BY <1>2, <3>1
      <4>2. ~(message[m].state \in {"kept", "deleted"} /\ message[m].thread = t)
        BY <1>1, <2>1, <3>1 DEF RepliesBelong, Stored
      <4> QED BY <4>1, <4>2
    <3>2. CASE message[m].room # r
      BY <1>2, <3>2
    <3> QED BY <3>1, <3>2
  <2> QED BY <2>1, <2>2 DEF Stored
<1>7. RepliesBelong' /\ RootsBelong'
  BY <1>4, <1>5 DEF RepliesBelong, RootsBelong, Stored
<1>8. RepliesAreCounted'
  BY <1>6 DEF ThreadsInOrder, RepliesAreCounted
<1> QED BY <1>7, <1>8, HalvesThen

(* A reply and its count are written together. *)
LEMMA StoreKeepsCounts ==
  ASSUME ThreadsInOrder, NEW q \in Requests, NEW r \in Rooms, NEW m \in Messages,
         StoreMessage(q, r, m)
  PROVE  RepliesAreCounted'
<1>1. IInv
  BY DEF ThreadsInOrder
<1>2. /\ message[m].state = "unused"
      /\ message'[m].state = "kept" /\ message'[m].thread = req[q].thread
      /\ \A n \in Messages \ {m} : message'[n] = message[n]
      /\ req[q].thread # NoThread =>
           thread'[req[q].thread].count = thread[req[q].thread].count + 1
      /\ \A t \in Threads : /\ thread'[t].state = thread[t].state
                            /\ t # req[q].thread => thread'[t].count = thread[t].count
  BY <1>1, StoreEffect
<1>3. ASSUME NEW t \in Threads, thread[t].state = "kept"
      PROVE  thread'[t].count =
               Cardinality({n \in Messages : Stored(n) /\ message[n].thread = t}')
  <2> DEFINE R == {n \in Messages : Stored(n) /\ message[n].thread = t}
  <2>1. thread[t].count = Cardinality(R) /\ t # NoThread
    BY <1>3, NullAssumption DEF ThreadsInOrder, RepliesAreCounted
  <2>2. CASE t = req[q].thread
    <3>1. R' = R \cup {m} /\ m \notin R
      BY <1>2, <2>2 DEF Stored
    <3>2. IsFiniteSet(R)
      BY FiniteAssumption, FS_Subset
    <3>3. Cardinality(R \cup {m}) = Cardinality(R) + 1
      BY <3>1, <3>2, FS_AddElement
    <3> QED BY <1>2, <2>1, <2>2, <3>1, <3>3
  <2>3. CASE t # req[q].thread
    <3>1. R' = R
      BY <1>2, <2>3 DEF Stored
    <3> QED BY <1>2, <2>1, <2>3, <3>1
  <2> QED BY <2>2, <2>3
<1> QED BY <1>2, <1>3 DEF RepliesAreCounted

LEMMA CreateKeepsCounts ==
  ASSUME ThreadsInOrder, NEW q \in Requests, NEW t \in Threads, CreateThread(q, t)
  PROVE  RepliesAreCounted'
<1>1. IInv /\ RepliesBelong
  BY Halves DEF ThreadsInOrder
<1>2. /\ thread[t].state = "unused" /\ thread'[t].count = 0 /\ message' = message
      /\ \A x \in Threads \ {t} : thread'[x] = thread[x]
  BY <1>1, CreateEffect
<1>3. \A x \in Threads : {n \in Messages : Stored(n) /\ message[n].thread = x}' =
                         {n \in Messages : Stored(n) /\ message[n].thread = x}
  BY <1>2 DEF Stored
<1>4. {n \in Messages : Stored(n) /\ message[n].thread = t} = {}
  BY <1>1, <1>2, NullAssumption DEF RepliesBelong
<1>5. Cardinality({n \in Messages : Stored(n) /\ message[n].thread = t}) = 0
  BY <1>4, FS_EmptySet
<1>6. ASSUME NEW x \in Threads, thread'[x].state = "kept"
      PROVE  thread'[x].count =
               Cardinality({n \in Messages : Stored(n) /\ message[n].thread = x})
  <2>1. CASE x = t
    BY <1>2, <1>5, <2>1
  <2>2. CASE x # t
    BY <1>2, <1>6, <2>2 DEF ThreadsInOrder, RepliesAreCounted
  <2> QED BY <2>1, <2>2
<1> QED BY <1>3, <1>6 DEF RepliesAreCounted

LEMMA InitThreads == Init => ThreadsInOrder
BY InitIInv DEF Init, ThreadsInOrder, ThreadsHoldTogether, RepliesAreCounted, Stored, NoRow,
   NoThreadRow

LEMMA NextKeepsThreads == ThreadsInOrder /\ [Next]_vars => ThreadsInOrder'
<1> SUFFICES ASSUME ThreadsInOrder, [Next]_vars
             PROVE  ThreadsHoldTogether' /\ RepliesAreCounted'
  BY NextKeepsIInv DEF ThreadsInOrder
<1>1. IInv
  BY DEF ThreadsInOrder
<1>2. ASSUME NEW q \in Requests, NEW r \in Rooms, NEW m \in Messages, StoreMessage(q, r, m)
      PROVE  ThreadsHoldTogether' /\ RepliesAreCounted'
  BY <1>2, StoreKeepsThreads, StoreKeepsCounts
<1>3. ASSUME NEW q \in Requests, NEW t \in Threads, CreateThread(q, t)
      PROVE  ThreadsHoldTogether' /\ RepliesAreCounted'
  BY <1>3, CreateKeepsThreads, CreateKeepsCounts
<1>4. ASSUME NEW q \in Requests, DeleteWrite(q) \/ PinWrite(q) \/ UnpinWrite(q)
      PROVE  ThreadsHoldTogether' /\ RepliesAreCounted'
  <2>1. thread' = thread
    BY <1>1, <1>4, UpdateEffect
  <2>2. \A m \in Messages :
          /\ message'[m].room = message[m].room /\ message'[m].thread = message[m].thread
          /\ message'[m].state \in {"kept", "deleted"} <=> Stored(m)
    BY <1>1, <1>4, UpdateEffect DEF Stored
  <2> QED BY <2>1, <2>2, InPlaceKeepsThreads
<1>5. ASSUME NEW r \in Rooms, DeleteRoom(r)
      PROVE  ThreadsHoldTogether' /\ RepliesAreCounted'
  BY <1>5, DeleteRoomKeepsThreads
<1>6. ASSUME NEW p \in People, NEW deleteMessages \in BOOLEAN, AccountDeleted(p, deleteMessages)
      PROVE  ThreadsHoldTogether' /\ RepliesAreCounted'
  <2>1. thread' = thread
    BY <1>1, <1>6, AccountEffect
  <2>2. \A m \in Messages :
          /\ message'[m].room = message[m].room /\ message'[m].thread = message[m].thread
          /\ message'[m].state \in {"kept", "deleted"} <=> Stored(m)
    BY <1>1, <1>6, AccountEffect DEF Stored
  <2> QED BY <2>1, <2>2, InPlaceKeepsThreads
<1>7. ASSUME UNCHANGED <<message, thread>>
      PROVE  ThreadsHoldTogether' /\ RepliesAreCounted'
  BY <1>7, InPlaceKeepsThreads DEF Stored
<1> QED BY <1>2, <1>3, <1>4, <1>5, <1>6, <1>7, OthersWriteNothing DEF WritingNext

THEOREM ThreadInvariance == Spec => []ThreadsInOrder
<1> QED BY InitThreads, NextKeepsThreads, PTL DEF Spec

(* A thread's count is the number of its stored replies, deleted ones      *)
(* included: replies, threads, failures and deletions of rooms and         *)
(* accounts do not make it drift.                                          *)
THEOREM CountsDoNotDrift == Spec => []RepliesAreCounted
<1>1. ThreadsInOrder => RepliesAreCounted
  BY DEF ThreadsInOrder
<1> QED BY <1>1, ThreadInvariance, PTL

(* Replies stay in their thread's room, and a root is a top-level message  *)
(* of its thread's room that roots no other.                               *)
THEOREM ThreadsStayTogether == Spec => []ThreadsHoldTogether
<1>1. ThreadsInOrder => ThreadsHoldTogether
  BY DEF ThreadsInOrder
<1> QED BY <1>1, ThreadInvariance, PTL

(* Rows and requests stay of their types; no count exceeds the number of   *)
(* messages, because it is the number of some of them.                     *)
LEMMA TypesFollow ==
  ASSUME ThreadsInOrder
  PROVE  TypeOK
<1>1. ASSUME NEW t \in Threads PROVE thread[t] \in ThreadRows
  <2> DEFINE R == {m \in Messages : Stored(m) /\ message[m].thread = t}
  <2>1. thread[t] \in ThreadRecord
    BY DEF ThreadsInOrder, IInv, Shape
  <2>2. Cardinality(R) <= Cardinality(Messages) /\ Cardinality(Messages) \in Nat
    BY FiniteAssumption, FS_Subset, FS_CardinalityType
  <2>3. thread[t].count \in {0, Cardinality(R)}
    BY DEF ThreadsInOrder, IInv, Shape, RepliesAreCounted
  <2>4. thread[t].count \in 0..Cardinality(Messages)
    BY <2>1, <2>2, <2>3 DEF ThreadRecord
  <2> QED BY <2>1, <2>4 DEF ThreadRecord, ThreadRows
<1>2. thread \in [Threads -> ThreadRows]
  BY <1>1 DEF ThreadsInOrder, IInv, Shape
<1> QED BY <1>2 DEF ThreadsInOrder, IInv, Shape, TypeOK

THEOREM TypeCorrect == Spec => []TypeOK
<1> QED BY TypesFollow, ThreadInvariance, PTL

----------------------------------------------------------------------------
(* Deletions.                                                              *)

(* A message that can be read is its writer's, as long as the writer's     *)
(* account exists, and no erased account does.                             *)
WritersInOrder ==
  /\ IInv
  /\ erased \cap user = {}
  /\ \A m \in Messages :
       message[m].state = "kept" /\ wrote[m] \in user => message[m].author = wrote[m]
  /\ ErasureIsComplete

LEMMA InitWriters == Init => WritersInOrder
BY InitIInv DEF Init, WritersInOrder, ErasureIsComplete, NoRow

(* A message is sent by an account that exists ... *)
LEMMA StoreKeepsWriters ==
  ASSUME WritersInOrder, IInv', NEW q \in Requests, NEW r \in Rooms, NEW m \in Messages,
         StoreMessage(q, r, m)
  PROVE  WritersInOrder'
<1>1. /\ req[q].who \in user /\ message'[m].author = req[q].who
      /\ \A n \in Messages \ {m} : message'[n] = message[n]
      /\ UNCHANGED <<user, erased>>
  BY StoreEffect DEF WritersInOrder
<1>2. \A n \in Messages : wrote'[n] = IF n = m THEN req[q].who ELSE wrote[n]
  BY DEF StoreMessage, WritersInOrder, IInv, Shape
<1>3. ASSUME NEW n \in Messages, message'[n].state = "kept", wrote'[n] \in user
      PROVE  message'[n].author = wrote'[n]
  BY <1>1, <1>2, <1>3 DEF WritersInOrder
<1>4. ASSUME NEW n \in Messages, wrote'[n] \in erased
      PROVE  message'[n].state # "kept"
  BY <1>1, <1>2, <1>4 DEF WritersInOrder, ErasureIsComplete
<1>5. ErasureIsComplete'
  BY <1>1, <1>4 DEF ErasureIsComplete
<1> QED BY <1>1, <1>3, <1>5 DEF WritersInOrder

(* ... and its deletion finds all that is its. *)
LEMMA AccountKeepsWriters ==
  ASSUME WritersInOrder, IInv', NEW p \in People, NEW deleteMessages \in BOOLEAN,
         AccountDeleted(p, deleteMessages)
  PROVE  WritersInOrder'
<1>1. /\ \A m \in Messages :
           IF message[m].author = p
             THEN /\ message'[m].author = Nobody
                  /\ message'[m].state = IF deleteMessages THEN "deleted" ELSE message[m].state
             ELSE message'[m] = message[m]
      /\ user' = user \ {p} /\ wrote' = wrote
      /\ erased' = IF deleteMessages THEN erased \cup {p} ELSE erased
  BY AccountEffect DEF WritersInOrder
<1>2. p \in user
  BY DEF AccountDeleted
<1>3. ASSUME NEW m \in Messages, message'[m].state = "kept", wrote[m] \in user'
      PROVE  message'[m].author = wrote[m]
  <2>1. message[m].author # p
    BY <1>1, <1>3 DEF WritersInOrder
  <2> QED BY <1>1, <1>3, <2>1 DEF WritersInOrder
<1>4. ASSUME NEW m \in Messages, wrote[m] \in erased'
      PROVE  message'[m].state # "kept"
  <2>1. CASE wrote[m] \in erased
    BY <1>1, <2>1 DEF WritersInOrder, ErasureIsComplete
  <2>2. CASE deleteMessages /\ wrote[m] = p
    BY <1>1, <1>2, <2>2 DEF WritersInOrder
  <2> QED BY <1>1, <1>4, <2>1, <2>2
<1>5. erased' \cap user' = {}
  BY <1>1 DEF WritersInOrder
<1>6. ErasureIsComplete'
  BY <1>1, <1>4 DEF ErasureIsComplete
<1> QED BY <1>1, <1>3, <1>5, <1>6 DEF WritersInOrder

(* A step that makes no message readable and gives none to another author. *)
LEMMA OthersKeepWriters ==
  ASSUME WritersInOrder, IInv', UNCHANGED <<user, wrote, erased>>,
         \A m \in Messages :
           message'[m].state = "kept" =>
             message[m].state = "kept" /\ message'[m].author = message[m].author
  PROVE  WritersInOrder'
<1>1. ErasureIsComplete'
  BY DEF WritersInOrder, ErasureIsComplete
<1> QED BY <1>1 DEF WritersInOrder

LEMMA NextKeepsWriters == WritersInOrder /\ [Next]_vars => WritersInOrder'
<1> SUFFICES ASSUME WritersInOrder, [Next]_vars PROVE WritersInOrder'
  OBVIOUS
<1>1. IInv /\ IInv'
  BY NextKeepsIInv DEF WritersInOrder
<1>2. ASSUME NEW q \in Requests, NEW t \in Threads, CreateThread(q, t) PROVE WritersInOrder'
  BY <1>1, <1>2, CreateEffect, OthersKeepWriters
<1>3. ASSUME NEW q \in Requests, DeleteWrite(q) \/ PinWrite(q) \/ UnpinWrite(q)
      PROVE  WritersInOrder'
  <2>1. /\ UNCHANGED <<user, wrote, erased>>
        /\ \A m \in Messages :
             message'[m].state = "kept" =>
               message[m].state = "kept" /\ message'[m].author = message[m].author
    BY <1>1, <1>3, UpdateEffect
  <2> QED BY <1>1, <2>1, OthersKeepWriters
<1>4. ASSUME NEW r \in Rooms, DeleteRoom(r) PROVE WritersInOrder'
  <2>1. /\ UNCHANGED <<user, wrote, erased>>
        /\ \A m \in Messages : message'[m].state = "gone" \/ message'[m] = message[m]
    BY <1>1, <1>4, DeleteRoomEffect
  <2> QED BY <1>1, <2>1, OthersKeepWriters
<1>5. ASSUME UNCHANGED <<message, user, wrote, erased>> PROVE WritersInOrder'
  BY <1>1, <1>5, OthersKeepWriters
<1> QED BY <1>1, <1>2, <1>3, <1>4, <1>5, StoreKeepsWriters, AccountKeepsWriters,
           OthersWriteNothing DEF WritingNext

(* After an account is deleted together with its messages none of them can *)
(* be read, whatever sends were under way.                                 *)
THEOREM ErasureHolds == Spec => []ErasureIsComplete
<1>1. WritersInOrder => ErasureIsComplete
  BY DEF WritersInOrder
<1> QED BY <1>1, InitWriters, NextKeepsWriters, PTL DEF Spec

LEMMA StepsKeepDeletions ==
  ASSUME IInv, [Next]_vars
  PROVE  DeletedStays
<1> SUFFICES ASSUME NEW m \in Messages, message[m].state = "deleted"
             PROVE  message'[m].state \in {"deleted", "gone"}
  BY DEF DeletedStays
<1>1. ASSUME NEW q \in Requests, NEW r \in Rooms, NEW n \in Messages, StoreMessage(q, r, n)
      PROVE  message'[m].state = "deleted"
  BY <1>1, StoreEffect
<1>2. ASSUME NEW q \in Requests, DeleteWrite(q) \/ PinWrite(q) \/ UnpinWrite(q)
      PROVE  message'[m].state = "deleted"
  BY <1>2, UpdateEffect
<1>3. ASSUME NEW r \in Rooms, DeleteRoom(r) PROVE message'[m].state \in {"deleted", "gone"}
  BY <1>3, DeleteRoomEffect
<1>4. ASSUME NEW p \in People, NEW deleteMessages \in BOOLEAN, AccountDeleted(p, deleteMessages)
      PROVE  message'[m].state = "deleted"
  BY <1>4, AccountEffect
<1>5. ASSUME NEW q \in Requests, NEW t \in Threads, CreateThread(q, t)
      PROVE  message'[m].state = "deleted"
  BY <1>5, CreateEffect
<1>6. CASE message' = message
  BY <1>6
<1> QED BY <1>1, <1>2, <1>3, <1>4, <1>5, <1>6, OthersWriteNothing DEF WritingNext

(* A deleted message stays deleted until its room goes, whichever pins,    *)
(* unpins and deletions of it overlap.                                     *)
THEOREM DeletedForGood == Spec => DeletionIsForGood
<1>1. IInv /\ [Next]_vars => [DeletedStays]_vars
  BY StepsKeepDeletions
<1> QED BY <1>1, Invariance, PTL DEF Spec, DeletionIsForGood

----------------------------------------------------------------------------
(* The right to store.                                                     *)

LEMMA StepsAreAllowed ==
  ASSUME IInv, [Next]_vars
  PROVE  AllowedStore
<1> SUFFICES ASSUME NEW r \in Rooms,
                    \/ \E m \in Messages : message[m].state = "unused" /\ message'[m].room = r
                    \/ \E t \in Threads : thread[t].state = "unused" /\ thread'[t].room = r
             PROVE  \E q \in Requests :
                      req[q].pc = "store" /\ req'[q] # req[q]
                        /\ r \in req[q].wasMember \cap req[q].wasOpen
  BY DEF AllowedStore
<1>1. /\ \A m \in Messages : message[m].state = "unused" => message[m].room # r
      /\ \A t \in Threads : thread[t].state = "unused" => thread[t].room # r
  BY NullAssumption DEF IInv, Shape, Stored
<1>2. ASSUME NEW q \in Requests, req[q].pc = "store", r \in req[q].rooms, room[r] # "gone"
      PROVE  r \in req[q].wasMember \cap req[q].wasOpen
  BY <1>2 DEF IInv, InOrder, Rights, Asking
<1>3. ASSUME NEW q \in Requests, NEW x \in Rooms, NEW m \in Messages, StoreMessage(q, x, m)
      PROVE  req[q].pc = "store" /\ req'[q] # req[q] /\ r \in req[q].rooms /\ room[r] # "gone"
  <2>1. /\ x \in req[q].rooms /\ room[x] # "gone"
        /\ message'[m].room = x /\ \A n \in Messages \ {m} : message'[n] = message[n]
        /\ \A t \in Threads : thread'[t].room = thread[t].room
    BY <1>3, StoreEffect
  <2>2. x = r
    BY <1>1, <2>1
  <2>3. req[q].pc = "store"
    BY <1>3 DEF StoreMessage
  <2>4. req'[q] # req[q]
    <3>1. req[q] \in RequestState /\ req'[q] = IF req[q].rooms = {x} THEN Idle
                               ELSE [req[q] EXCEPT !.rooms = req[q].rooms \ {x}]
      BY <1>3 DEF StoreMessage, IInv, Shape
    <3>2. CASE req[q].rooms = {x}
      BY <2>3, <3>1, <3>2, IdleInOrder
    <3>3. CASE req[q].rooms # {x}
      <4>1. req'[q].rooms = req[q].rooms \ {x}
        BY <3>1, <3>3 DEF RequestState
      <4> QED BY <2>1, <4>1
    <3> QED BY <3>2, <3>3
  <2> QED BY <2>1, <2>2, <2>3, <2>4
<1>4. ASSUME NEW q \in Requests, NEW t \in Threads, CreateThread(q, t)
      PROVE  req[q].pc = "store" /\ req'[q] # req[q] /\ r \in req[q].rooms /\ room[r] # "gone"
  <2>1. PICK x \in req[q].rooms :
          /\ RoomExists(x)
          /\ thread' = [thread EXCEPT ![t] =
               [state |-> "kept", room |-> x, root |-> req[q].message, count |-> 0]]
    BY <1>4 DEF CreateThread
  <2>2. /\ thread'[t].room = x /\ \A s \in Threads \ {t} : thread'[s] = thread[s]
        /\ message' = message /\ req[q].pc = "store"
    BY <1>4, <2>1, CreateEffect DEF IInv, Shape
  <2>3. x = r
    BY <1>1, <2>2
  <2>4. req'[q] = Idle
    BY <1>4 DEF CreateThread, IInv, Shape
  <2> QED BY <2>1, <2>2, <2>3, <2>4, IdleInOrder DEF RoomExists
<1>5. WritingNext => \/ \E q \in Requests, x \in Rooms, m \in Messages : StoreMessage(q, x, m)
                     \/ \E q \in Requests, t \in Threads : CreateThread(q, t)
  <2>1. ASSUME NEW q \in Requests, DeleteWrite(q) \/ PinWrite(q) \/ UnpinWrite(q) PROVE FALSE
    <3>1. thread' = thread /\ \A m \in Messages : message'[m].room = message[m].room
      BY <2>1, UpdateEffect
    <3> QED BY <1>1, <3>1
  <2>2. ASSUME NEW x \in Rooms, DeleteRoom(x) PROVE FALSE
    <3>1. /\ \A m \in Messages : message'[m].room \in {NoRoom, message[m].room}
          /\ \A t \in Threads : thread'[t].room \in {NoRoom, thread[t].room}
      BY <2>2, DeleteRoomEffect
    <3> QED BY <1>1, <3>1, NullAssumption
  <2>3. ASSUME NEW p \in People, NEW deleteMessages \in BOOLEAN,
               AccountDeleted(p, deleteMessages)
        PROVE  FALSE
    <3>1. thread' = thread /\ \A m \in Messages : message'[m].room = message[m].room
      BY <2>3, AccountEffect
    <3> QED BY <1>1, <3>1
  <2> QED BY <2>1, <2>2, <2>3 DEF WritingNext
<1>6. WritingNext
  BY <1>1, OthersWriteNothing
<1> QED BY <1>2, <1>3, <1>4, <1>5, <1>6

(* Who stores a message or a thread was a member of the room, and the room *)
(* was open, at some time since the request arrived.                       *)
THEOREM StoresAreAllowed == Spec => StoresWereAllowed
<1>1. IInv /\ [Next]_vars => [AllowedStore]_vars
  BY StepsAreAllowed
<1> QED BY <1>1, Invariance, PTL DEF Spec, StoresWereAllowed

=============================================================================
