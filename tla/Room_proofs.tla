---------------------------- MODULE Room_proofs ----------------------------
(***************************************************************************)
(* Proofs about the stores of the browser, for any rooms, threads, users,  *)
(* bounds and page sizes.                                                  *)
(*                                                                         *)
(* RoomFeed: a loading flag is backed by a call in flight, and the room in *)
(* view has no unread messages.  The list is, in the end, exactly the room *)
(* but for what was lost or overtaken: ListInv says of every message where *)
(* it is until then, and that one call at most may still change the list.  *)
(*                                                                         *)
(* ThreadPanel: the open thread shows its own replies, and all that are    *)
(* not deleted once nothing is under way. That is not inductive: it says   *)
(* nothing of a page that is still to land. PanelInv says of every reply   *)
(* of the thread where it is: older than what was asked for, shown, or on  *)
(* its way.                                                                *)
(*                                                                         *)
(* Inbox: the store shows the newest items of the user who is signed in.   *)
(* MailInv adds the items announced but not received, and the pages that   *)
(* are to replace what is shown.                                           *)
(***************************************************************************)
EXTENDS MCRoom, FiniteSetTheorems, WellFoundedInduction, TLAPS

-----------------------------------------------------------------------------
(* RoomFeed. *)

(* Reconnecting selects the room in view again, which must be selected already. *)
ViewIsSelected == view # NoRoom => currentRoomId = view

FeedPlaces == view \in Rooms \cup {NoRoom} /\ unread \subseteq Rooms

Browser ==
  /\ FeedPlaces
  /\ ViewIsSelected
  /\ LoadingHasACall
  /\ RoomInViewIsRead

(* What is announced has been stored, in a room. *)
Server ==
  /\ log \in Seq(Entry)
  /\ \A e \in todo : e.id \in 1..Len(log)

FeedInv == Server /\ Browser

(* A call that ends takes its flag with it, and no call of the selected    *)
(* room leaves the flag of another one behind.                             *)
LEMMA FinallyKeepsFlags ==
  ASSUME LoadingHasACall, NEW c \in calls, Finally(c),
         calls' = calls \ {c}, currentRoomId' = currentRoomId
  PROVE  LoadingHasACall'
<1>1. isLoading' => isLoading /\ ~(c.kind = "list" /\ c.room = currentRoomId)
  BY ZenonT(30) DEF Finally, IsCurrent
<1>2. isLoadingMore' => isLoadingMore /\ c.kind # "more"
  BY ZenonT(30) DEF Finally
<1>3. isLoading' => \E d \in calls' : d.kind = "list" /\ d.room = currentRoomId'
  BY <1>1 DEF LoadingHasACall
<1>4. isLoadingMore' => \E d \in calls' : d.kind = "more"
  BY <1>2 DEF LoadingHasACall
<1> QED BY <1>3, <1>4 DEF LoadingHasACall

(* The same call, waiting for its next page, still backs the flags. *)
LEMMA NextPageKeepsFlags ==
  ASSUME LoadingHasACall, NEW c \in calls, NextPage(c)
  PROVE  LoadingHasACall'
<1> DEFINE d == [NewCall(c.kind, c.room, c.serial, NextCursor(c)) EXCEPT
                   !.oldest = NextCursor(c), !.pages = c.pages + 1]
<1>1. d \in calls' /\ d.kind = c.kind /\ d.room = c.room
  BY DEF NextPage, NewCall
<1>2. /\ calls \ {c} \subseteq calls' /\ currentRoomId' = currentRoomId
      /\ isLoading' = isLoading /\ isLoadingMore' = isLoadingMore
  BY DEF NextPage, where, flags
<1> HIDE DEF d
<1>3. isLoading' => \E e \in calls' : e.kind = "list" /\ e.room = currentRoomId'
  BY <1>1, <1>2 DEF LoadingHasACall
<1>4. isLoadingMore' => \E e \in calls' : e.kind = "more"
  BY <1>1, <1>2 DEF LoadingHasACall
<1> QED BY <1>3, <1>4 DEF LoadingHasACall

LEMMA EndedKeepsBrowser ==
  ASSUME Browser, NEW c \in calls, Ended(c)
  PROVE  Browser'
<1>1. Finally(c) /\ calls' = calls \ {c} /\ UNCHANGED <<where, unread>>
  BY DEF Ended
<1>2. UNCHANGED <<view, currentRoomId, unread>>
  BY <1>1 DEF where
<1>3. LoadingHasACall'
  BY <1>1, <1>2, FinallyKeepsFlags DEF Browser
<1> QED BY <1>2, <1>3 DEF Browser, FeedPlaces, ViewIsSelected, RoomInViewIsRead

(* Only the flags, the calls, the room in view and the unread counts count. *)
LEMMA UnchangedKeepsBrowser ==
  ASSUME Browser, UNCHANGED <<view, currentRoomId, isLoading, isLoadingMore, calls, unread>>
  PROVE  Browser'
BY DEF Browser, FeedPlaces, ViewIsSelected, LoadingHasACall, RoomInViewIsRead

LEMMA LoadMessagesKeepsBrowser ==
  ASSUME NEW r \in Rooms, Browser, LoadMessages(r), view' = r, isLoadingMore' = isLoadingMore
  PROVE  Browser'
<1> DEFINE new == NewCall("list", r, serial + 1, 0)
<1>1. new \in calls' /\ calls \subseteq calls' /\ currentRoomId' = r /\ unread' = unread \ {r}
  BY DEF LoadMessages
<1>2. new.kind = "list" /\ new.room = r
  BY DEF NewCall
<1> HIDE DEF new
<1>3. \E c \in calls' : c.kind = "list" /\ c.room = currentRoomId'
  BY <1>1, <1>2
<1>4. isLoadingMore' => \E c \in calls' : c.kind = "more"
  BY <1>1 DEF Browser, LoadingHasACall
<1> QED BY <1>1, <1>3, <1>4 DEF Browser, FeedPlaces, ViewIsSelected, LoadingHasACall, RoomInViewIsRead

LEMMA LoadMoreKeepsBrowser ==
  ASSUME Browser, LoadMore
  PROVE  Browser'
<1>1. PICK n \in {0} \cup Ids \cup {oldestFetchedId, Head(messages)} :
        calls' = calls \cup {NewCall("more", view, serial, n)}
  BY DEF LoadMore
<1> DEFINE new == NewCall("more", view, serial, n)
<1>2. new \in calls' /\ calls \subseteq calls' /\ new.kind = "more"
  BY <1>1 DEF NewCall
<1>3. UNCHANGED <<view, currentRoomId, isLoading, unread>>
  BY DEF LoadMore, where
<1> HIDE DEF new
<1>4. isLoading' => \E c \in calls' : c.kind = "list" /\ c.room = currentRoomId'
  BY <1>2, <1>3 DEF Browser, LoadingHasACall
<1> QED BY <1>2, <1>3, <1>4 DEF Browser, FeedPlaces, ViewIsSelected, LoadingHasACall, RoomInViewIsRead

LEMMA NewMessageKeepsBrowser ==
  ASSUME NEW e \in todo, FeedInv, NewMessage(e)
  PROVE  Browser'
<1>1. UNCHANGED <<view, currentRoomId, isLoading, isLoadingMore, calls>>
  BY DEF NewMessage, where, flags, pages
<1>2. unread' = IF TopLevel({e.id}) # {} /\ log[e.id].room # view
                THEN unread \cup {log[e.id].room} ELSE unread
  BY DEF NewMessage, CountsAsUnread
<1>3. RoomInViewIsRead'
  BY <1>1, <1>2 DEF FeedInv, Browser, RoomInViewIsRead
<1>4. log[e.id].room \in Rooms
  <2>1. log \in Seq(Entry) /\ e.id \in 1..Len(log)
    BY DEF FeedInv, Server
  <2>2. log[e.id] \in Entry
    BY <2>1
  <2> QED BY <2>2 DEF Entry
<1>5. FeedPlaces'
  BY <1>1, <1>2, <1>4 DEF FeedInv, Browser, FeedPlaces
<1> QED BY <1>1, <1>3, <1>5 DEF FeedInv, Browser, ViewIsSelected, LoadingHasACall

LEMMA ServerReadsKeepsBrowser ==
  ASSUME Browser, NEW c \in calls, ServerReads(c)
  PROVE  Browser'
<1> DEFINE found == Before(c.room, c.before)
           d == [c EXCEPT !.answered = TRUE, !.page = Newest(found),
                          !.more = Cardinality(found) > PageSize]
<1>1. calls' = (calls \ {c}) \cup {d}
  BY DEF ServerReads
<1>2. UNCHANGED <<view, currentRoomId, isLoading, isLoadingMore, unread>>
  BY DEF ServerReads, where, flags
<1>3. d.kind = c.kind /\ d.room = c.room
  OBVIOUS
<1> HIDE DEF d
<1>4. isLoading' => \E e \in calls' : e.kind = "list" /\ e.room = currentRoomId'
  BY <1>1, <1>2, <1>3 DEF Browser, LoadingHasACall
<1>5. isLoadingMore' => \E e \in calls' : e.kind = "more"
  BY <1>1, <1>2, <1>3 DEF Browser, LoadingHasACall
<1> QED BY <1>2, <1>4, <1>5 DEF Browser, FeedPlaces, ViewIsSelected, LoadingHasACall, RoomInViewIsRead

LEMMA BrowserInductive == FeedInv /\ [Next]_vars => Browser'
<1> SUFFICES ASSUME FeedInv, [Next]_vars PROVE Browser'
  OBVIOUS
<1>0. Browser
  BY DEF FeedInv
<1> USE <1>0, UnchangedKeepsBrowser
<1>1. ASSUME NEW r \in Rooms, NEW b \in BOOLEAN, Store(r, b) PROVE Browser'
  BY <1>1 DEF Store, where, flags, pages
<1>2. ASSUME NEW i \in 1..Len(log), Delete(i) PROVE Browser'
  BY <1>2 DEF Delete, where, flags, pages
<1>3. ASSUME NEW e \in todo, AnnouncementLost(e) PROVE Browser'
  BY <1>3 DEF AnnouncementLost, where, flags, pages
<1>4. ASSUME NEW e \in todo, NewMessage(e) PROVE Browser'
  BY <1>4, NewMessageKeepsBrowser
<1>5. ASSUME NEW e \in todo, MessageDeleted(e) PROVE Browser'
  BY <1>5 DEF MessageDeleted, where, flags, pages
<1>6. ASSUME NEW r \in Rooms, OpenRoom(r) PROVE Browser'
  BY <1>6, LoadMessagesKeepsBrowser DEF OpenRoom
<1>7. ASSUME Retry PROVE Browser'
  BY <1>7, LoadMessagesKeepsBrowser DEF Retry, Browser, FeedPlaces
<1>8. ASSUME LeaveChat PROVE Browser'
  BY <1>8, NoRoomAssumption DEF LeaveChat, flags, pages, Browser, FeedPlaces, ViewIsSelected, LoadingHasACall, RoomInViewIsRead
<1>9. ASSUME LoadMore PROVE Browser'
  BY <1>9, LoadMoreKeepsBrowser
<1>10. ASSUME NEW c \in calls, ServerReads(c) PROVE Browser'
  BY <1>10, ServerReadsKeepsBrowser
<1>11. ASSUME NEW c \in calls, PageArrives(c) PROVE Browser'
  BY <1>11, EndedKeepsBrowser DEF PageArrives
<1>12. ASSUME NEW c \in calls, NextPage(c) PROVE Browser'
  <2>1. LoadingHasACall'
    BY <1>12, NextPageKeepsFlags DEF Browser
  <2> QED BY <1>12, <2>1 DEF NextPage, where, Browser, FeedPlaces, ViewIsSelected, RoomInViewIsRead
<1>13. ASSUME NEW c \in calls, CallFails(c) PROVE Browser'
  BY <1>13, EndedKeepsBrowser DEF CallFails
<1>14. ASSUME NEW r \in roomCalls, RoomArrives(r) PROVE Browser'
  BY <1>14 DEF RoomArrives, flags, pages
<1>15. ASSUME Disconnect \/ RoomsJoined PROVE Browser'
  BY <1>15 DEF Disconnect, RoomsJoined, where, flags, pages
<1>16. ASSUME Reconnect PROVE Browser'
  BY <1>16 DEF Reconnect, flags, pages, Browser, FeedPlaces, ViewIsSelected, LoadingHasACall, RoomInViewIsRead
<1>17. ASSUME UNCHANGED vars PROVE Browser'
  BY <1>17 DEF vars, where, flags, pages
<1> QED
  BY <1>1, <1>2, <1>3, <1>4, <1>5, <1>6, <1>7, <1>8, <1>9, <1>10, <1>11, <1>12, <1>13,
     <1>14, <1>15, <1>16, <1>17 DEF Next

LEMMA ServerInductive == Server /\ [Next]_vars => Server'
<1> SUFFICES ASSUME Server, [Next]_vars PROVE Server'
  OBVIOUS
<1>1. ASSUME NEW r \in Rooms, NEW b \in BOOLEAN, Store(r, b) PROVE Server'
  <2>1. /\ log' = Append(log, [room |-> r, reply |-> b])
        /\ todo' = todo \cup {[type |-> "new", id |-> Len(log) + 1]}
    BY <1>1 DEF Store
  <2>2. log' \in Seq(Entry) /\ Len(log') = Len(log) + 1
    BY <2>1 DEF Server, Entry
  <2> QED BY <2>1, <2>2 DEF Server
<1>2. ASSUME NEW i \in 1..Len(log), Delete(i) PROVE Server'
  BY <1>2 DEF Delete, Server
<1>3. ASSUME log' = log, todo' \subseteq todo PROVE Server'
  BY <1>3 DEF Server
<1>4. ASSUME NEW c \in calls, Ended(c) PROVE log' = log /\ todo' = todo
  BY <1>4 DEF Ended, server
<1>5. ASSUME UNCHANGED server PROVE log' = log /\ todo' = todo
  BY <1>5 DEF server
<1>6. CASE \E e \in todo : AnnouncementLost(e) \/ NewMessage(e) \/ MessageDeleted(e)
  BY <1>3, <1>6 DEF AnnouncementLost, NewMessage, MessageDeleted
<1>7. CASE \E c \in calls : PageArrives(c) \/ CallFails(c)
  BY <1>3, <1>4, <1>7 DEF PageArrives, CallFails
<1>8. CASE \/ \E r \in Rooms : OpenRoom(r)
           \/ Retry \/ LeaveChat \/ LoadMore \/ Disconnect \/ Reconnect \/ RoomsJoined
           \/ \E c \in calls : ServerReads(c) \/ NextPage(c)
           \/ \E r \in roomCalls : RoomArrives(r)
           \/ UNCHANGED vars
  <2>1. UNCHANGED server
    BY <1>8 DEF OpenRoom, Retry, LeaveChat, LoadMore, Disconnect, Reconnect, RoomsJoined,
                ServerReads, NextPage, RoomArrives, vars
  <2> QED BY <1>3, <1>5, <2>1
<1> QED BY <1>1, <1>2, <1>6, <1>7, <1>8 DEF Next

LEMMA FeedInitial == Init => FeedInv
BY DEF Init, FeedInv, Server, Browser, FeedPlaces, ViewIsSelected, LoadingHasACall,
       RoomInViewIsRead, Entry

LEMMA FeedHolds == Spec => []FeedInv
<1>1. FeedInv /\ [Next]_vars => FeedInv'
  BY BrowserInductive, ServerInductive DEF FeedInv
<1> QED BY FeedInitial, <1>1, PTL DEF Spec

(* Whatever is switched, fails or arrives late, a loading flag of chatStore *)
(* is on only while a call is in flight that will clear it.                *)
THEOREM FlagsAreBacked == Spec => []LoadingHasACall
<1>1. FeedInv => LoadingHasACall
  BY DEF FeedInv, Browser
<1> QED BY FeedHolds, <1>1, PTL

(* The room in view never has unread messages.                             *)
THEOREM ViewIsRead == Spec => []RoomInViewIsRead
<1>1. FeedInv => RoomInViewIsRead
  BY DEF FeedInv, Browser
<1> QED BY FeedHolds, <1>1, PTL

-----------------------------------------------------------------------------
(* RoomFeed: what is in the list. *)

(* A call made since the messages of the room were last asked for. *)
Latest(c) == c.serial = serial

Announced(i) == [type |-> "new", id |-> i] \in todo
InList(i) == i \in ToSet(messages)

(* A cursor is one of loadMoreMessages, or of a later page; a page holds    *)
(* messages of its room from before it.                                    *)
SoundCall(c) ==
  /\ c.serial <= serial /\ (Latest(c) => c.room = currentRoomId)
  /\ c.oldest = (IF c.pages > 0 THEN c.before ELSE 0)
  /\ c.pages > 0 \/ c.kind = "more" <=> c.before # 0
  /\ ~c.answered => c.page = {}
  /\ c.page \subseteq {i \in 1..Len(log) : log[i].room = c.room /\ (c.before = 0 \/ i < c.before)}

(* The calls of loadMoreMessages are made one at a time. *)
FeedCalls ==
  /\ serial = 0 => view = NoRoom
  /\ hasMoreMessages => oldestFetchedId # 0
  /\ \A c \in calls : SoundCall(c)
  /\ \A c, d \in calls : c.kind = "more" /\ d.kind = "more" => c = d /\ isLoadingMore

(* As long as no outdated call has landed, one call may change the list. *)
OneLatest ==
  /\ \A c, d \in calls : Latest(c) /\ Latest(d) => c = d
  /\ \A c \in calls : Latest(c) =>
       IF c.kind = "more" THEN c.before <= oldestFetchedId ELSE ~hasMoreMessages

(* The messages OthersAreExact speaks of. *)
Others == {i \in TopLevel(1..Len(log)) \ raced : log[i].room = currentRoomId}

(* i stands in s once at most. *)
Single(s, i) == \A j, k \in 1..Len(s) : s[j] = i /\ s[k] = i => j = k

(* i is shown once at most, and only if it is not older than what was       *)
(* fetched.                                                                *)
ShownOnce(i) ==
  /\ Single(messages, i)
  /\ InList(i) => i >= oldestFetchedId

(* i will be in the list when c has landed, though c may not bring it. *)
Outlasts(c, i) == Announced(i) \/ (c.kind = "more" /\ InList(i))

(* Where a message that is not deleted is: older than what was asked for,  *)
(* or shown, or on its way.                                                *)
Located(i) ==
  /\ oldestFetchedId # 0 /\ i >= oldestFetchedId => Announced(i) \/ InList(i)
  /\ oldestFetchedId = 0 =>
       \/ Announced(i) \/ InList(i) \/ messagesError
       \/ \E c \in calls : Latest(c) /\ c.kind = "list"
  /\ \A c \in calls : Latest(c) =>
       /\ c.before # 0 /\ i >= c.before => Outlasts(c, i)
       /\ c.answered => \/ Outlasts(c, i) \/ i \in c.page
                        \/ c.page # {} /\ \A j \in c.page : i < j

(* A deleted message that is shown, or will be, is still to be removed. *)
Leaving(i) ==
  InList(i) \/ (\E c \in calls : Latest(c) /\ i \in c.page) => [type |-> "deleted", id |-> i] \in todo

FeedList ==
  ~crossed =>
    /\ OneLatest
    /\ \A i \in Others : ShownOnce(i) /\ (IF i \in deleted THEN Leaving(i) ELSE Located(i))

FeedTypes ==
  /\ TypeOK /\ ToSet(messages) \subseteq 1..Len(log)
  /\ \A e \in todo : e.type = "deleted" => e.id \in deleted

ListInv == FeedInv /\ FeedTypes /\ FeedCalls /\ FeedList

-----------------------------------------------------------------------------
(* Sets of numbers, and putting them in order. *)

LEMMA LeastElement ==
  ASSUME NEW S \in SUBSET Nat, S # {}
  PROVE  \E m \in S : \A x \in S : m <= x
<1>1. PICK m \in S : \A x \in S : ~(<<x, m>> \in OpToRel(<, Nat))
  BY WFMin, NatLessThanWellFounded, Zenon
<1>2. \A x \in S : ~(x < m)
  BY <1>1, Zenon DEF OpToRel
<1> QED BY <1>2

LEMMA GreatestElement ==
  ASSUME NEW n \in Nat, NEW S, \A x \in S : x \in Nat /\ x <= n, S # {}
  PROVE  \E m \in S : \A x \in S : x <= m
<1> DEFINE T == {n - x : x \in S}
<1>1. T \in SUBSET Nat /\ T # {}
  OBVIOUS
<1> HIDE DEF T
<1>2. PICK k \in T : \A x \in T : k <= x
  BY <1>1, LeastElement
<1>3. PICK m \in S : k = n - m
  BY <1>2 DEF T
<1>4. \A x \in S : n - x \in T
  BY DEF T
<1> QED BY <1>2, <1>3, <1>4

(* A page holds the newest of a set; where some are left out it is not      *)
(* empty, and they are older than all of it.                                *)
NewestOf(S, limit) == {i \in S : Cardinality({j \in S : j > i}) < limit}

LEMMA NewestAreLatest ==
  ASSUME NEW n \in Nat, NEW S, S \subseteq 1..n, NEW limit \in Nat \ {0}
  PROVE  /\ NewestOf(S, limit) \subseteq S
         /\ \A i \in S \ NewestOf(S, limit) :
              NewestOf(S, limit) # {} /\ \A j \in NewestOf(S, limit) : i < j
<1> DEFINE Above(i) == {j \in S : j > i}
           P == NewestOf(S, limit)
<1>1. P = {i \in S : Cardinality(Above(i)) < limit}
  BY DEF NewestOf
<1>a. \A x \in S : x \in Nat /\ x <= n
  OBVIOUS
<1>b. IsFiniteSet(1..n)
  BY FS_Interval
<1>2. ASSUME NEW T, T \subseteq S PROVE IsFiniteSet(T) /\ Cardinality(T) \in Nat
  <2>1. T \in SUBSET (1..n)
    BY <1>2
  <2> QED BY <1>b, <2>1, FS_Subset, FS_CardinalityType
<1>3. ASSUME NEW i \in S \ P, NEW j \in P, j <= i PROVE FALSE
  <2>0. i \in Nat /\ j \in Nat /\ i >= j
    BY <1>1, <1>3, <1>a
  <2>1. Above(i) \subseteq Above(j)
    <3> SUFFICES ASSUME NEW k \in S, k > i PROVE k > j
      OBVIOUS
    <3>1. k \in Nat
      BY <1>a
    <3> QED BY <2>0, <3>1
  <2>2. Cardinality(Above(i)) <= Cardinality(Above(j))
    BY <1>2, <2>1, FS_Subset
  <2> QED BY <1>1, <1>2, <1>3, <2>2
<1>4. ASSUME S # {} PROVE P # {}
  <2>1. PICK m \in S : \A x \in S : x <= m
    BY <1>4, <1>a, GreatestElement
  <2>2. Above(m) = {}
    <3> SUFFICES ASSUME NEW k \in S PROVE ~(k > m)
      OBVIOUS
    <3>1. k \in Nat /\ m \in Nat /\ k <= m
      BY <1>a, <2>1
    <3> QED BY <3>1
  <2> QED BY <1>1, <2>1, <2>2, FS_EmptySet
<1>5. P \subseteq S
  BY <1>1
<1> HIDE DEF Above, P
<1>6. \A i \in S, j \in P : ~(j <= i) => i < j
  <2> TAKE i \in S, j \in P
  <2>1. i \in Nat /\ j \in Nat
    BY <1>5, <1>a
  <2> QED BY <2>1
<1> QED BY <1>3, <1>4, <1>5, <1>6 DEF P

(* The numbers of a finite set can be put in order. *)
LEMMA CanBeOrdered ==
  ASSUME NEW n \in Nat, NEW S \in SUBSET (1..n)
  PROVE  \E s \in [1..Cardinality(S) -> S] : \A j, k \in 1..Cardinality(S) : j < k => s[j] < s[k]
<1> DEFINE Ordered(T) == \E s \in [1..Cardinality(T) -> T] :
                           \A j, k \in 1..Cardinality(T) : j < k => s[j] < s[k]
           Sizes == {Cardinality(T) : T \in {U \in SUBSET (1..n) : ~Ordered(U)}}
<1>1. ASSUME NEW T \in SUBSET (1..n) PROVE IsFiniteSet(T) /\ Cardinality(T) \in Nat
  <2>1. IsFiniteSet(1..n)
    BY FS_Interval
  <2> QED BY <2>1, FS_Subset, FS_CardinalityType
<1> SUFFICES ASSUME ~Ordered(S) PROVE FALSE
  OBVIOUS
<1> HIDE DEF Ordered
<1>2. Sizes \in SUBSET Nat /\ Sizes # {}
  BY <1>1
<1>3. PICK m \in Sizes : \A x \in Sizes : m <= x
  BY <1>2, LeastElement
<1>4. PICK T \in SUBSET (1..n) : m = Cardinality(T) /\ ~Ordered(T)
  BY <1>3
<1>5. \A U \in SUBSET (1..n) : Cardinality(U) < m => Ordered(U)
  <2> SUFFICES ASSUME NEW U \in SUBSET (1..n), Cardinality(U) < m, ~Ordered(U) PROVE FALSE
    OBVIOUS
  <2>1. Cardinality(U) \in Sizes
    OBVIOUS
  <2> QED BY <1>1, <1>2, <1>3, <2>1
<1> HIDE DEF Sizes
<1>6. T # {}
  <2> SUFFICES ASSUME T = {} PROVE FALSE
    OBVIOUS
  <2>1. Cardinality(T) = 0
    BY FS_EmptySet
  <2>2. [k \in 1..0 |-> k] \in [1..0 -> {}]
    OBVIOUS
  <2> QED BY <1>4, <2>1, <2>2 DEF Ordered
<1>7. PICK g \in T : \A x \in T : x <= g
  <2>1. \A x \in T : x \in Nat /\ x <= n
    BY <1>4
  <2> QED BY <1>6, <2>1, GreatestElement
<1> DEFINE U == T \ {g}
<1>8. U \in SUBSET (1..n) /\ Cardinality(U) = m - 1 /\ m \in Nat \ {0}
  <2>1. Cardinality(U) = Cardinality(T) - 1
    BY <1>1, <1>4, <1>7, FS_RemoveElement
  <2>2. U \in SUBSET (1..n)
    BY <1>4
  <2>3. Cardinality(U) \in Nat /\ m \in Nat
    BY <1>1, <1>4, <2>2
  <2> QED BY <1>4, <2>1, <2>2, <2>3
<1>9. PICK t \in [1..m - 1 -> U] : \A j, k \in 1..m - 1 : j < k => t[j] < t[k]
  <2>1. Ordered(U)
    BY <1>5, <1>8
  <2> QED BY <1>8, <2>1 DEF Ordered
<1> DEFINE s == [k \in 1..m |-> IF k = m THEN g ELSE t[k]]
<1>10. s \in [1..m -> T]
  BY <1>7, <1>8, <1>9
<1>11. \A x \in U : x \in Nat /\ g \in Nat /\ x < g
  BY <1>4, <1>7
<1>12. \A j, k \in 1..m : j < k => s[j] < s[k]
  <2> SUFFICES ASSUME NEW j \in 1..m, NEW k \in 1..m, j < k PROVE s[j] < s[k]
    OBVIOUS
  <2>1. j \in 1..m - 1 /\ s[j] = t[j] /\ t[j] \in U
    BY <1>8, <1>9
  <2>2. CASE k = m
    BY <1>8, <1>11, <2>1, <2>2
  <2>3. CASE k # m
    BY <1>8, <1>9, <2>1, <2>3
  <2> QED BY <2>2, <2>3
<1> QED BY <1>4, <1>10, <1>12 DEF Ordered

(* A page in order holds each message of the set once. *)
LEMMA Ordering ==
  ASSUME NEW n \in Nat, NEW S \in SUBSET (1..n)
  PROVE  /\ InOrder(S) \in Seq(S) /\ ToSet(InOrder(S)) = S
         /\ \A j, k \in 1..Len(InOrder(S)) : InOrder(S)[j] = InOrder(S)[k] => j = k
<1>0. \A x \in S : x \in Nat
  OBVIOUS
<1> DEFINE s == InOrder(S)
           N == Cardinality(S)
<1>1. s \in [1..N -> S] /\ \A j, k \in 1..N : j < k => s[j] < s[k]
  BY CanBeOrdered DEF InOrder
<1>2. IsFiniteSet(S) /\ N \in Nat
  <2>1. IsFiniteSet(1..n)
    BY FS_Interval
  <2> QED BY <2>1, FS_Subset, FS_CardinalityType
<1> HIDE DEF s
<1>3. s \in Seq(S) /\ Len(s) = N /\ DOMAIN s = 1..N
  BY <1>1, <1>2
<1>4. \A j, k \in 1..N : s[j] = s[k] => j = k
  <2> SUFFICES ASSUME NEW j \in 1..N, NEW k \in 1..N, s[j] = s[k], j # k PROVE FALSE
    OBVIOUS
  <2>1. s \in [1..N -> S]
    BY <1>1
  <2>2. s[j] \in S
    BY <2>1
  <2>3. s[j] \in Nat
    BY <1>0, <2>2
  <2>4. j < k \/ k < j
    BY <1>2
  <2> QED BY <1>1, <2>3, <2>4
<1>5. s \in Injection(1..N, S)
  BY <1>1, <1>4 DEF Injection, IsInjective
<1>6. Cardinality(1..N) = N
  BY <1>2, FS_Interval
<1>7. s \in Surjection(1..N, S)
  BY <1>2, <1>5, <1>6, FS_Injection
<1>8. ToSet(s) = S
  <2>1. \A x \in S : \E k \in 1..N : s[k] = x
    BY <1>7 DEF Surjection
  <2> QED BY <1>1, <1>3, <2>1 DEF ToSet
<1> QED BY <1>3, <1>4, <1>8 DEF s

-----------------------------------------------------------------------------
(* RoomFeed: pages, and what they do to the list. *)

LEMMA FeedMin ==
  ASSUME NEW S \in SUBSET Nat, S # {}
  PROVE  Min(S) \in S /\ \A x \in S : Min(S) <= x
BY LeastElement DEF Min

LEMMA FeedNewest ==
  ASSUME NEW n \in Nat, NEW S, S \subseteq 1..n
  PROVE  Newest(S) \subseteq S /\ \A i \in S \ Newest(S) : Newest(S) # {} /\ \A j \in Newest(S) : i < j
<1>1. Newest(S) = NewestOf(S, PageSize)
  BY DEF Newest, NewestOf
<1>2. PageSize \in Nat \ {0}
  BY BoundsAssumption
<1>3. /\ NewestOf(S, PageSize) \subseteq S
      /\ \A i \in S \ NewestOf(S, PageSize) :
           NewestOf(S, PageSize) # {} /\ \A j \in NewestOf(S, PageSize) : i < j
  BY <1>2, NewestAreLatest, ZenonT(60)
<1> QED BY <1>1, <1>3

(* What is in a list, and how often, when a message is added, removed, or  *)
(* a page put before it.                                                   *)
LEMMA Adding ==
  ASSUME NEW T, messages \in Seq(T), NEW i \in T
  PROVE  /\ AddMessage(i) \in Seq(T) /\ ToSet(AddMessage(i)) = ToSet(messages) \cup {i}
         /\ \A j : Single(messages, j) => Single(AddMessage(i), j)
<1>1. CASE i \in ToSet(messages)
  <2>1. AddMessage(i) = messages
    BY <1>1 DEF AddMessage
  <2> QED BY <1>1, <2>1
<1>2. CASE i \notin ToSet(messages)
  <2>1. AddMessage(i) = Append(messages, i)
    BY <1>2 DEF AddMessage
  <2> DEFINE s == Append(messages, i)
             n == Len(messages)
  <2>2. n \in Nat /\ s \in Seq(T) /\ Len(s) = n + 1 /\ s[n + 1] = i /\ DOMAIN s = 1..n + 1 /\ DOMAIN messages = 1..n
    OBVIOUS
  <2>3. \A k \in 1..n : s[k] = messages[k]
    OBVIOUS
  <2> HIDE DEF s
  <2>4. ToSet(s) = ToSet(messages) \cup {i}
    <3>1. \A x \in ToSet(s) : x \in ToSet(messages) \cup {i}
      BY <2>2, <2>3 DEF ToSet
    <3>2. \A k \in 1..n : messages[k] \in ToSet(s)
      BY <2>2, <2>3 DEF ToSet
    <3>3. i \in ToSet(s)
      BY <2>2 DEF ToSet
    <3> QED BY <2>2, <3>1, <3>2, <3>3 DEF ToSet
  <2>5. \A k \in 1..n : messages[k] # i
    BY <1>2, <2>2 DEF ToSet
  <2>6. ASSUME NEW j, Single(messages, j) PROVE Single(s, j)
    <3> SUFFICES ASSUME NEW a \in 1..n + 1, NEW b \in 1..n + 1, s[a] = j, s[b] = j PROVE a = b
      BY <2>2 DEF Single
    <3>1. CASE j = i
      <4>1. a = n + 1 /\ b = n + 1
        BY <2>2, <2>3, <2>5, <3>1
      <4> QED BY <4>1
    <3>2. CASE j # i
      <4>1. a \in 1..n /\ b \in 1..n
        BY <2>2, <3>2
      <4> QED BY <2>3, <2>6, <4>1 DEF Single
    <3> QED BY <3>1, <3>2
  <2> QED BY <2>1, <2>2, <2>4, <2>6 DEF s
<1> QED BY <1>1, <1>2

LEMMA Joining ==
  ASSUME NEW T, NEW s \in Seq(T), NEW t \in Seq(T)
  PROVE  /\ s \o t \in Seq(T) /\ ToSet(s \o t) = ToSet(s) \cup ToSet(t)
         /\ \A j : Single(s, j) /\ Single(t, j) /\ ~(j \in ToSet(s) /\ j \in ToSet(t)) => Single(s \o t, j)
<1> DEFINE u == s \o t
           m == Len(s)
           n == Len(t)
<1>1. /\ m \in Nat /\ n \in Nat /\ u \in Seq(T) /\ Len(u) = m + n
      /\ DOMAIN u = 1..m + n /\ DOMAIN s = 1..m /\ DOMAIN t = 1..n
  OBVIOUS
<1>2. \A k \in 1..m : u[k] = s[k]
  OBVIOUS
<1>3. \A k \in 1..m + n : k > m => u[k] = t[k - m] /\ k - m \in 1..n
  OBVIOUS
<1>4. \A k \in 1..n : u[m + k] = t[k] /\ m + k \in 1..m + n
  OBVIOUS
<1> HIDE DEF u
<1>5. ToSet(u) = ToSet(s) \cup ToSet(t)
  <2>1. ASSUME NEW k \in 1..m + n PROVE u[k] \in ToSet(s) \cup ToSet(t)
    <3>1. CASE k <= m
      <4>1. k \in 1..m
        BY <1>1, <3>1
      <4> QED BY <1>1, <1>2, <4>1 DEF ToSet
    <3>2. CASE k > m
      BY <1>1, <1>3, <3>2 DEF ToSet
    <3> QED BY <1>1, <3>1, <3>2
  <2>2. \A k \in 1..m : s[k] \in ToSet(u)
    <3> TAKE k \in 1..m
    <3>1. k \in 1..m + n
      BY <1>1
    <3> QED BY <1>1, <1>2, <3>1 DEF ToSet
  <2>3. \A k \in 1..n : t[k] \in ToSet(u)
    BY <1>1, <1>4 DEF ToSet
  <2> QED BY <1>1, <2>1, <2>2, <2>3 DEF ToSet
<1>6. ASSUME NEW j, Single(s, j), Single(t, j), ~(j \in ToSet(s) /\ j \in ToSet(t)) PROVE Single(u, j)
  <2> SUFFICES ASSUME NEW a \in 1..m + n, NEW b \in 1..m + n, u[a] = j, u[b] = j PROVE a = b
    BY <1>1 DEF Single
  <2>1. \A k \in 1..m + n : k <= m => k \in 1..m
    BY <1>1
  <2>2. CASE a <= m /\ b <= m
    BY <1>2, <1>6, <2>1, <2>2 DEF Single
  <2>3. CASE a > m /\ b > m
    <3>1. a - m = b - m
      BY <1>3, <1>6, <2>3 DEF Single
    <3> QED BY <1>1, <3>1
  <2>4. ASSUME NEW c \in 1..m + n, NEW d \in 1..m + n, c <= m, d > m, u[c] = j, u[d] = j PROVE FALSE
    <3>1. j \in ToSet(s)
      BY <1>1, <1>2, <2>1, <2>4 DEF ToSet
    <3>2. j \in ToSet(t)
      BY <1>1, <1>3, <2>4 DEF ToSet
    <3> QED BY <1>6, <3>1, <3>2
  <2>5. (a <= m \/ a > m) /\ (b <= m \/ b > m)
    BY <1>1
  <2> QED BY <2>2, <2>3, <2>4, <2>5
<1> QED BY <1>1, <1>5, <1>6 DEF u

LEMMA Removing ==
  ASSUME NEW T, messages \in Seq(T), NEW i
  PROVE  /\ Without(i) \in Seq(T) /\ ToSet(Without(i)) = ToSet(messages) \ {i}
         /\ \A j : Single(messages, j) => Single(Without(i), j)
<1> DEFINE places == {k \in 1..Len(messages) : messages[k] # i}
           kept == InOrder(places)
           w == Without(i)
<1>1. Len(messages) \in Nat /\ DOMAIN messages = 1..Len(messages) /\ \A k \in 1..Len(messages) : messages[k] \in T
  OBVIOUS
<1>2. /\ kept \in Seq(places) /\ ToSet(kept) = places
      /\ \A j, k \in 1..Len(kept) : kept[j] = kept[k] => j = k
  <2>1. PICK n \in Nat : n = Len(messages)
    BY <1>1
  <2>2. PICK S \in SUBSET (1..n) : S = places
    BY <2>1
  <2>3. /\ InOrder(S) \in Seq(S) /\ ToSet(InOrder(S)) = S
        /\ \A j, k \in 1..Len(InOrder(S)) : InOrder(S)[j] = InOrder(S)[k] => j = k
    BY Ordering
  <2> QED BY <2>2, <2>3
<1>3. w = [k \in 1..Len(kept) |-> messages[kept[k]]]
  BY DEF Without
<1> HIDE DEF w, kept
<1>4. Len(kept) \in Nat /\ DOMAIN kept = 1..Len(kept) /\ \A k \in 1..Len(kept) : kept[k] \in places
  BY <1>2
<1>5. \A k \in 1..Len(kept) : kept[k] \in 1..Len(messages) /\ messages[kept[k]] # i /\ messages[kept[k]] \in T
  BY <1>1, <1>4
<1>6. w \in Seq(T) /\ Len(w) = Len(kept) /\ DOMAIN w = 1..Len(kept)
  BY <1>3, <1>4, <1>5
<1>7. \A k \in 1..Len(kept) : w[k] = messages[kept[k]]
  BY <1>3
<1>8. ToSet(w) = ToSet(messages) \ {i}
  <2>1. \A x \in ToSet(w) : x \in ToSet(messages) \ {i}
    BY <1>1, <1>5, <1>6, <1>7 DEF ToSet
  <2>2. ASSUME NEW x \in ToSet(messages), x # i PROVE x \in ToSet(w)
    <3>1. PICK k \in 1..Len(messages) : messages[k] = x
      BY <1>1 DEF ToSet
    <3>2. k \in ToSet(kept)
      BY <1>2, <2>2, <3>1
    <3>3. PICK j \in 1..Len(kept) : kept[j] = k
      BY <1>4, <3>2 DEF ToSet
    <3> QED BY <1>6, <1>7, <3>1, <3>3 DEF ToSet
  <2> QED BY <2>1, <2>2
<1>9. ASSUME NEW j, Single(messages, j) PROVE Single(w, j)
  <2> SUFFICES ASSUME NEW a \in 1..Len(w), NEW b \in 1..Len(w), w[a] = j, w[b] = j
               PROVE  a = b
    BY DEF Single
  <2>1. kept[a] = kept[b]
    BY <1>5, <1>6, <1>7, <1>9 DEF Single
  <2> QED BY <1>2, <1>6, <2>1
<1> QED BY <1>6, <1>8, <1>9 DEF w

(* Types. *)
LEMMA CallsAreTyped ==
  ASSUME ListInv, NEW c \in calls
  PROVE  /\ c \in Call /\ c.page \subseteq 1..Len(log) /\ c.page \subseteq Ids
         /\ c.page # {} => Min(c.page) \in c.page /\ \A i \in c.page : Min(c.page) <= i
<1>1. c \in Call
  BY DEF ListInv, FeedTypes, TypeOK
<1>2. c.page \subseteq 1..Len(log)
  BY DEF ListInv, FeedCalls, SoundCall
<1>3. PICK S \in SUBSET Nat : S = c.page
  BY <1>1 DEF Call, Ids
<1>4. S # {} => Min(S) \in S /\ \A i \in S : Min(S) <= i
  BY FeedMin
<1> QED BY <1>1, <1>2, <1>3, <1>4 DEF Call

LEMMA ShownOfPage ==
  ASSUME ListInv, NEW S, S \subseteq 1..Len(log)
  PROVE  /\ InOrder(TopLevel(S)) \in Seq(Ids) /\ ToSet(InOrder(TopLevel(S))) = TopLevel(S)
         /\ \A i : Single(InOrder(TopLevel(S)), i)
<1>1. PICK n \in Nat : n = Len(log)
  BY DEF ListInv, FeedTypes, TypeOK
<1>2. PICK T \in SUBSET (1..n) : T = TopLevel(S)
  BY <1>1 DEF TopLevel
<1>3. n <= MaxMessages /\ MaxMessages \in Nat
  BY <1>1, BoundsAssumption DEF ListInv, FeedTypes, TypeOK
<1>4. T \subseteq Ids
  BY <1>3 DEF Ids
<1>5. /\ InOrder(T) \in Seq(T) /\ ToSet(InOrder(T)) = T
      /\ \A j, k \in 1..Len(InOrder(T)) : InOrder(T)[j] = InOrder(T)[k] => j = k
  BY Ordering
<1>6. InOrder(T) \in Seq(Ids)
  <2>1. PICK s \in Seq(T) : s = InOrder(T)
    BY <1>5
  <2>2. Len(s) \in Nat /\ s \in [1..Len(s) -> T]
    OBVIOUS
  <2>3. s \in [1..Len(s) -> Ids]
    BY <1>4, <2>2
  <2> QED BY <2>1, <2>2, <2>3
<1> QED BY <1>2, <1>5, <1>6 DEF Single

LEMMA CallsOnly ==
  ASSUME NEW c \in calls, ServerReads(c) \/ NextPage(c)
  PROVE  UNCHANGED <<server, net, where, list, flags, unread, roomCalls, serial, history>>
<1>1. CASE ServerReads(c)
  BY <1>1, Zenon DEF ServerReads
<1>2. CASE NextPage(c)
  BY <1>2, Zenon DEF NextPage
<1> QED BY <1>1, <1>2

(* A call that is answered, and one that asks for its next page. *)
LEMMA CallIsAnswered ==
  ASSUME ListInv, NEW c \in calls, ServerReads(c)
  PROVE  \E d \in Call :
           /\ calls' = (calls \ {c}) \cup {d}
           /\ d.kind = c.kind /\ d.room = c.room /\ d.serial = c.serial /\ d.before = c.before
           /\ d.oldest = c.oldest /\ d.pages = c.pages /\ d.answered /\ d.page = Newest(Before(c.room, c.before))
<1> DEFINE found == Before(c.room, c.before)
           d == [c EXCEPT !.answered = TRUE, !.page = Newest(found), !.more = Cardinality(found) > PageSize]
<1>0. c \in Call
  BY CallsAreTyped
<1>1. calls' = (calls \ {c}) \cup {d}
  BY DEF ServerReads
<1>2. Newest(found) \subseteq Ids
  <2>1. Len(log) \in Nat /\ Len(log) <= MaxMessages /\ MaxMessages \in Nat
    BY BoundsAssumption DEF ListInv, FeedTypes, TypeOK
  <2> QED BY <2>1 DEF Newest, Before, Ids
<1>3. PICK page \in SUBSET Ids : page = Newest(found)
  BY <1>2
<1>a. (Cardinality(found) > PageSize) = TRUE \/ (Cardinality(found) > PageSize) = FALSE
  BY SMT
<1>4. PICK more \in BOOLEAN : more = (Cardinality(found) > PageSize)
  BY <1>a, Zenon
<1>5. d = [c EXCEPT !.answered = TRUE, !.page = page, !.more = more]
  BY <1>3, <1>4, Zenon
<1> HIDE DEF d
<1>6. d \in Call
  BY <1>0, <1>5 DEF Call
<1>7. /\ d.kind = c.kind /\ d.room = c.room /\ d.serial = c.serial /\ d.before = c.before
      /\ d.oldest = c.oldest /\ d.pages = c.pages /\ d.answered /\ d.page = page
  BY <1>0, <1>5 DEF Call
<1> QED BY <1>1, <1>3, <1>6, <1>7

LEMMA CallPagesOn ==
  ASSUME ListInv, NEW c \in calls, NextPage(c)
  PROVE  \E d \in Call :
           /\ calls' = (calls \ {c}) \cup {d} /\ c.page # {}
           /\ d.kind = c.kind /\ d.room = c.room /\ d.serial = c.serial /\ d.before = Min(c.page)
           /\ d.oldest = Min(c.page) /\ d.pages > 0 /\ ~d.answered /\ d.page = {}
<1>0. c \in Call /\ c.page # {} /\ c.pages + 1 < MaxPages /\ MaxPages \in Nat
  BY CallsAreTyped, BoundsAssumption DEF NextPage, WantsNextPage
<1>1. PICK n \in Ids : n = Min(c.page)
  BY <1>0, CallsAreTyped
<1>2. PICK k \in 1..MaxPages - 1 : k = c.pages + 1
  BY <1>0 DEF Call
<1>3. PICK new : new = NewCall(c.kind, c.room, c.serial, n)
  OBVIOUS
<1>a. /\ c.kind \in {"list", "more"} /\ c.room \in Rooms /\ c.serial \in 1..MaxLoads
      /\ n \in Ids \cup {0} /\ 0 \in 0..MaxPages - 1
  BY <1>0 DEF Call
<1>b. new \in Call
  BY <1>3, <1>a DEF NewCall, Call
<1>c. /\ new.kind = c.kind /\ new.room = c.room /\ new.serial = c.serial /\ new.before = n
      /\ ~new.answered /\ new.page = {}
  BY <1>3 DEF NewCall
<1> DEFINE d == [new EXCEPT !.oldest = n, !.pages = k]
<1>4. calls' = (calls \ {c}) \cup {d}
  BY <1>1, <1>2, <1>3, Zenon DEF NextPage, NextCursor
<1>5. d \in Call
  <2>1. k \in 0..MaxPages - 1 /\ n \in Ids \cup {0}
    BY <1>0, <1>2
  <2> QED BY <1>b, <2>1 DEF Call
<1>6. /\ d.kind = c.kind /\ d.room = c.room /\ d.serial = c.serial /\ d.before = n
      /\ d.oldest = n /\ d.pages > 0 /\ ~d.answered /\ d.page = {}
  BY <1>1, <1>2, <1>b, <1>c DEF Call
<1> HIDE DEF d
<1> QED BY <1>0, <1>1, <1>4, <1>5, <1>6

(* What a page that lands does to the list. *)
LEMMA PageShown ==
  ASSUME ListInv, NEW c \in calls, NEW S, S \subseteq 1..Len(log), NEW n, NEW more, Show(c, S, n, more)
  PROVE  /\ messages' \in Seq(Ids)
         /\ ToSet(messages') = TopLevel(S) \cup (IF c.kind = "list" THEN {} ELSE ToSet(messages))
         /\ \A i : (c.kind = "list" \/ (Single(messages, i) /\ ~(i \in S /\ InList(i)))) => Single(messages', i)
         /\ oldestFetchedId' = (IF c.kind = "more" /\ n = 0 THEN oldestFetchedId ELSE n)
         /\ hasMoreMessages' = more /\ messagesError' = messagesError
<1>1. PICK page : page = InOrder(TopLevel(S))
  OBVIOUS
<1>2. page \in Seq(Ids) /\ ToSet(page) = TopLevel(S) /\ \A i : Single(page, i)
  BY <1>1, ShownOfPage
<1>3. messages' = IF c.kind = "list" THEN page ELSE page \o messages
  BY <1>1 DEF Show
<1>4. messages \in Seq(Ids)
  BY DEF ListInv, FeedTypes, TypeOK
<1>5. PICK old \in Seq(Ids) : old = messages
  BY <1>4
<1>6. /\ page \o old \in Seq(Ids) /\ ToSet(page \o old) = ToSet(page) \cup ToSet(old)
      /\ \A i : Single(page, i) /\ Single(old, i) /\ ~(i \in ToSet(page) /\ i \in ToSet(old)) => Single(page \o old, i)
  BY <1>2, Joining
<1>7. TopLevel(S) \subseteq S
  BY DEF TopLevel
<1>8. /\ oldestFetchedId' = (IF c.kind = "more" /\ n = 0 THEN oldestFetchedId ELSE n)
      /\ hasMoreMessages' = more /\ messagesError' = messagesError
  BY DEF Show
<1>9. CASE c.kind = "list"
  BY <1>2, <1>3, <1>8, <1>9
<1>10. CASE c.kind # "list"
  <2>1. messages' = page \o old
    BY <1>3, <1>5, <1>10
  <2>2. \A i : Single(messages, i) /\ ~(i \in S /\ InList(i)) => Single(page \o old, i)
    BY <1>2, <1>5, <1>6, <1>7 DEF InList
  <2> QED BY <1>2, <1>5, <1>6, <1>8, <1>10, <2>1, <2>2
<1> QED BY <1>9, <1>10

(* The page of c, or none. *)
LEMMA LandingShows ==
  ASSUME ListInv, NEW c \in calls, PageArrives(c) \/ CallFails(c)
  PROVE  \/ list' = list /\ (messagesError' <=> messagesError \/ (c.kind = "list" /\ IsCurrent(c)))
         \/ /\ IsCurrent(c) /\ messagesError' = messagesError
            /\ \E S, n, more :
                 /\ Show(c, S, n, more) /\ S \subseteq c.page
                 /\ n \in Ids \cup {0} /\ more \in BOOLEAN
                 /\ \/ c.answered /\ S = c.page /\ S # {} /\ n = Min(S)
                    \/ c.answered /\ S = c.page /\ S = {} /\ n = c.oldest /\ more = FALSE
                    \/ S = {} /\ c.pages > 0 /\ n = c.oldest
<1>0. c \in Call /\ c.page \subseteq Ids /\ (c.page # {} => Min(c.page) \in c.page)
  BY CallsAreTyped
<1>1. CASE PageArrives(c)
  <2>1. CASE ~IsCurrent(c)
    BY <1>1, <2>1 DEF PageArrives
  <2>2. CASE IsCurrent(c)
    <3> DEFINE n == IF c.page = {} THEN c.oldest ELSE Min(c.page)
               more == c.page # {} /\ c.more
    <3>1. Show(c, c.page, n, more) /\ c.answered
      BY <1>1, <2>2 DEF PageArrives
    <3>2. messagesError' = messagesError
      BY <3>1 DEF Show
    <3>3. n \in Ids \cup {0}
      BY <1>0 DEF Call
    <3>4. more \in BOOLEAN
      OBVIOUS
    <3>5. c.page = {} => more = FALSE
      OBVIOUS
    <3>6. n = IF c.page = {} THEN c.oldest ELSE Min(c.page)
      OBVIOUS
    <3> HIDE DEF n, more
    <3> QED BY <2>2, <3>1, <3>2, <3>3, <3>4, <3>5, <3>6
  <2> QED BY <2>1, <2>2
<1>2. CASE CallFails(c)
  <2>1. \/ UNCHANGED list /\ messagesError' = (messagesError \/ (c.kind = "list" /\ IsCurrent(c)))
        \/ (c.pages > 0 /\ IsCurrent(c) /\ Show(c, {}, c.oldest, TRUE))
    BY <1>2 DEF CallFails
  <2>2. CASE UNCHANGED list /\ messagesError' = (messagesError \/ (c.kind = "list" /\ IsCurrent(c)))
    BY <2>2
  <2>3. CASE c.pages > 0 /\ IsCurrent(c) /\ Show(c, {}, c.oldest, TRUE)
    <3>1. messagesError' = messagesError
      BY <2>3 DEF Show
    <3>2. c.oldest \in Ids \cup {0}
      BY <1>0 DEF Call
    <3> QED BY <2>3, <3>1, <3>2
  <2> QED BY <2>1, <2>2, <2>3
<1> QED BY <1>1, <1>2

-----------------------------------------------------------------------------
(* RoomFeed: steps keep the types. *)

LEMMA ServerKeepsTypes ==
  ASSUME ListInv,
         \/ \E r \in Rooms, b \in BOOLEAN : Store(r, b)
         \/ \E i \in 1..Len(log) : Delete(i)
         \/ \E e \in todo : AnnouncementLost(e) \/ NewMessage(e) \/ MessageDeleted(e)
  PROVE  FeedTypes'
<1>0. /\ log \in Seq(Entry) /\ Len(log) <= MaxMessages /\ deleted \subseteq 1..Len(log) /\ todo \subseteq Event
      /\ messages \in Seq(Ids) /\ ToSet(messages) \subseteq 1..Len(log)
      /\ \A e \in todo : e.id \in 1..Len(log) /\ (e.type = "deleted" => e.id \in deleted)
      /\ unread \subseteq Rooms /\ raced \subseteq Ids /\ MaxMessages \in Nat
  BY BoundsAssumption DEF ListInv, FeedInv, Server, FeedTypes, TypeOK
<1>a. FeedTypes
  BY DEF ListInv
<1>1. ASSUME NEW r \in Rooms, NEW b \in BOOLEAN, Store(r, b) PROVE FeedTypes'
  <2> DEFINE e == [type |-> "new", id |-> Len(log) + 1]
  <2>1. log' = Append(log, [room |-> r, reply |-> b]) /\ todo' = todo \cup {e} /\ Len(log) < MaxMessages
    BY <1>1 DEF Store
  <2>2. log' \in Seq(Entry) /\ Len(log') = Len(log) + 1 /\ Len(log') <= MaxMessages
    BY <1>0, <2>1 DEF Entry
  <2>3. 1..Len(log) \subseteq 1..Len(log')
    BY <1>0, <2>2
  <2>4. e \in Event
    BY <1>0, <2>1 DEF Event, Ids
  <2>5. UNCHANGED <<deleted, net, where, list, flags, unread, roomCalls, pages, history>>
    BY <1>1 DEF Store
  <2>6. \A x \in todo' : x.type = "deleted" => x.id \in deleted'
    BY <1>0, <2>1, <2>5
  <2>7. ToSet(messages') \subseteq 1..Len(log')
    BY <1>0, <2>3, <2>5 DEF list
  <2>8. deleted' \subseteq 1..Len(log') /\ todo' \subseteq Event
    BY <1>0, <2>1, <2>3, <2>4, <2>5
  <2> HIDE DEF e
  <2> QED BY <1>a, <2>2, <2>5, <2>6, <2>7, <2>8 DEF FeedTypes, TypeOK, where, list, flags, pages, history
<1>2. ASSUME NEW i \in 1..Len(log), Delete(i) PROVE FeedTypes'
  <2>1. /\ deleted' = deleted \cup {i} /\ todo' = todo \cup {[type |-> "deleted", id |-> i]} /\ log' = log
        /\ UNCHANGED <<net, where, list, flags, unread, roomCalls, pages, history>>
    BY <1>2 DEF Delete
  <2>2. [type |-> "deleted", id |-> i] \in Event
    BY <1>0 DEF Event, Ids
  <2>3. todo' \subseteq Event /\ deleted' \subseteq 1..Len(log') /\ \A x \in todo' : x.type = "deleted" => x.id \in deleted'
    BY <1>0, <2>1, <2>2
  <2> QED BY <1>a, <2>1, <2>3 DEF FeedTypes, TypeOK, where, list, flags, pages, history
<1>3. ASSUME NEW i \in 1..Len(log) PROVE Raced(i) \subseteq Ids
  BY <1>0 DEF Raced, Ids
<1>4. ASSUME NEW e \in todo, AnnouncementLost(e) PROVE FeedTypes'
  <2>1. /\ todo' \subseteq todo /\ raced' \subseteq Ids
        /\ UNCHANGED <<log, deleted, net, where, list, flags, unread, roomCalls, pages, crossed>>
    BY <1>0, <1>3, <1>4 DEF AnnouncementLost
  <2> QED BY <1>a, <2>1 DEF FeedTypes, TypeOK, where, list, flags, pages
<1>5. ASSUME NEW e \in todo, NewMessage(e) PROVE FeedTypes'
  <2>1. /\ todo' \subseteq todo /\ raced' \subseteq Ids
        /\ UNCHANGED <<log, deleted, net, where, oldestFetchedId, hasMoreMessages, flags, roomCalls, pages, crossed>>
    BY <1>0, <1>3, <1>5 DEF NewMessage
  <2>2. messages' = AddMessage(e.id) \/ messages' = messages
    BY <1>5 DEF NewMessage
  <2>3. e.id \in Ids
    BY <1>0 DEF Ids
  <2>4. messages' \in Seq(Ids) /\ ToSet(messages') \subseteq 1..Len(log')
    BY <1>0, <2>1, <2>2, <2>3, Adding
  <2>5. unread' \subseteq Rooms
    <3>1. log[e.id] \in Entry
      BY <1>0
    <3>2. log[e.id].room \in Rooms
      BY <3>1 DEF Entry
    <3> QED BY <1>0, <1>5, <3>2 DEF NewMessage
  <2> QED BY <1>a, <2>1, <2>4, <2>5 DEF FeedTypes, TypeOK, where, flags, pages
<1>6. ASSUME NEW e \in todo, MessageDeleted(e) PROVE FeedTypes'
  <2>1. /\ todo' \subseteq todo /\ raced' \subseteq Ids /\ messages' = Without(e.id)
        /\ UNCHANGED <<log, deleted, net, where, oldestFetchedId, hasMoreMessages, flags, unread, roomCalls, pages, crossed>>
    BY <1>0, <1>3, <1>6 DEF MessageDeleted
  <2>2. messages' \in Seq(Ids) /\ ToSet(messages') \subseteq 1..Len(log')
    BY <1>0, <2>1, Removing
  <2> QED BY <1>a, <2>1, <2>2 DEF FeedTypes, TypeOK, where, flags, pages
<1> QED BY <1>1, <1>2, <1>4, <1>5, <1>6

LEMMA BrowserKeepsTypes ==
  ASSUME ListInv,
         \/ \E r \in Rooms : OpenRoom(r)
         \/ Retry \/ LeaveChat \/ LoadMore
         \/ \E c \in calls : ServerReads(c) \/ NextPage(c)
         \/ \E r \in roomCalls : RoomArrives(r)
         \/ Disconnect \/ Reconnect \/ RoomsJoined \/ UNCHANGED vars
  PROVE  FeedTypes'
<1>0. /\ log \in Seq(Entry) /\ Len(log) <= MaxMessages /\ messages \in Seq(Ids) /\ unread \subseteq Rooms
      /\ calls \subseteq Call /\ serial \in 0..MaxLoads /\ MaxMessages \in Nat /\ MaxLoads \in Nat /\ MaxPages \in Nat \ {0}
      /\ roomCalls \subseteq Rooms /\ {view, currentRoom, currentRoomId} \subseteq Rooms \cup {NoRoom}
      /\ oldestFetchedId \in Ids \cup {0}
  BY BoundsAssumption DEF ListInv, FeedTypes, TypeOK
<1>a. FeedTypes
  BY DEF ListInv
<1>1. ASSUME NEW r \in Rooms, LoadMessages(r), view' \in {r, view}, roomCalls' \subseteq Rooms,
             UNCHANGED <<server, net, currentRoom, isLoadingMore>>
      PROVE  FeedTypes'
  <2>1. NewCall("list", r, serial + 1, 0) \in Call /\ serial + 1 \in 0..MaxLoads
    BY <1>0, <1>1 DEF LoadMessages, NewCall, Call
  <2>2. calls' \subseteq Call /\ serial' \in 0..MaxLoads
    BY <1>0, <1>1, <2>1 DEF LoadMessages
  <2>3. messages' = <<>> /\ raced' = {} /\ unread' \subseteq Rooms /\ oldestFetchedId' = 0
    BY <1>0, <1>1 DEF LoadMessages
  <2>4. ToSet(<<>>) = {} /\ <<>> \in Seq(Ids)
    BY DEF ToSet
  <2>5. {hasMoreMessages', isLoading', isLoadingMore', messagesError', crossed'} \subseteq BOOLEAN
    BY <1>1, <1>a DEF LoadMessages, FeedTypes, TypeOK
  <2>6. currentRoomId' = r
    BY <1>1 DEF LoadMessages
  <2> QED BY <1>0, <1>1, <1>a, <2>2, <2>3, <2>4, <2>5, <2>6 DEF FeedTypes, TypeOK, server
<1>2. ASSUME NEW r \in Rooms, OpenRoom(r) PROVE FeedTypes'
  <2>1. roomCalls' \subseteq Rooms
    BY <1>0, <1>2 DEF OpenRoom
  <2> QED BY <1>1, <1>2, <2>1 DEF OpenRoom
<1>3. ASSUME Retry PROVE FeedTypes'
  <2>1. view \in Rooms
    BY <1>0, <1>3 DEF Retry
  <2> QED BY <1>0, <1>1, <1>3, <2>1 DEF Retry
<1>4. ASSUME LoadMore PROVE FeedTypes'
  <2>1. PICK n \in Ids : calls' = calls \cup {NewCall("more", view, serial, n)}
    <3>1. messages # <<>> => Head(messages) \in Ids
      BY <1>0
    <3> QED BY <1>0, <1>4, <3>1 DEF LoadMore
  <2>2. view \in Rooms /\ serial \in 1..MaxLoads
    BY <1>0, <1>4 DEF LoadMore, ListInv, FeedCalls
  <2>3. NewCall("more", view, serial, n) \in Call
    BY <1>0, <2>1, <2>2 DEF NewCall, Call
  <2>4. calls' \subseteq Call
    BY <1>0, <2>1, <2>3
  <2>5. isLoadingMore' = TRUE /\ UNCHANGED <<server, net, where, list, isLoading, messagesError, unread, roomCalls, serial, history>>
    BY <1>4 DEF LoadMore
  <2> QED BY <1>a, <2>4, <2>5 DEF FeedTypes, TypeOK, server, where, list, history
<1>5. ASSUME NEW c \in calls, ServerReads(c) \/ NextPage(c) PROVE FeedTypes'
  <2>1. PICK d \in Call : calls' = (calls \ {c}) \cup {d}
    <3>1. CASE ServerReads(c)
      BY <3>1, CallIsAnswered
    <3>2. CASE NextPage(c)
      BY <3>2, CallPagesOn
    <3> QED BY <1>5, <3>1, <3>2
  <2>2. UNCHANGED <<server, net, where, list, flags, unread, roomCalls, serial, history>>
    BY <1>5, CallsOnly
  <2>3. calls' \subseteq Call
    BY <1>0, <2>1
  <2> QED BY <1>a, <2>2, <2>3 DEF FeedTypes, TypeOK, server, where, list, flags, history
<1>6. ASSUME NEW r \in roomCalls, RoomArrives(r) PROVE FeedTypes'
  BY <1>0, <1>a, <1>6 DEF RoomArrives, FeedTypes, TypeOK, server, list, flags, pages, history
<1>7. ASSUME Reconnect PROVE FeedTypes'
  <2>1. roomCalls' \subseteq Rooms /\ currentRoomId' \in Rooms \cup {NoRoom} /\ net' = "joining"
    BY <1>0, <1>7 DEF Reconnect
  <2> QED BY <1>a, <1>7, <2>1 DEF Reconnect, FeedTypes, TypeOK, server, list, flags, pages, history
<1>8. ASSUME LeaveChat \/ Disconnect \/ RoomsJoined \/ UNCHANGED vars PROVE FeedTypes'
  BY <1>a, <1>8 DEF LeaveChat, Disconnect, RoomsJoined, vars, FeedTypes, TypeOK, server, where, list, flags, pages, history
<1> QED BY <1>2, <1>3, <1>4, <1>5, <1>6, <1>7, <1>8

LEMMA LandingKeepsTypes ==
  ASSUME ListInv, NEW c \in calls, PageArrives(c) \/ CallFails(c)
  PROVE  FeedTypes'
<1>0. FeedTypes
  BY DEF ListInv
<1>1. /\ calls' \subseteq calls /\ UNCHANGED <<server, net, where, unread, roomCalls, serial, raced>>
      /\ crossed' = (crossed \/ (IsCurrent(c) /\ c.serial < serial)) /\ Finally(c)
  BY DEF PageArrives, CallFails, Ended
<1>2. /\ messages' \in Seq(Ids) /\ ToSet(messages') \subseteq 1..Len(log) /\ oldestFetchedId' \in Ids \cup {0}
      /\ hasMoreMessages' \in BOOLEAN
  <2>1. CASE list' = list
    BY <1>0, <2>1 DEF FeedTypes, TypeOK, list
  <2>2. CASE \E S, n, more : Show(c, S, n, more) /\ S \subseteq c.page /\ n \in Ids \cup {0} /\ more \in BOOLEAN
    <3>1. PICK S, n, more : Show(c, S, n, more) /\ S \subseteq c.page /\ n \in Ids \cup {0} /\ more \in BOOLEAN
      BY <2>2
    <3>2. S \subseteq 1..Len(log) /\ TopLevel(S) \subseteq S
      BY <3>1, CallsAreTyped DEF TopLevel
    <3>3. /\ messages' \in Seq(Ids) /\ oldestFetchedId' = (IF c.kind = "more" /\ n = 0 THEN oldestFetchedId ELSE n)
          /\ ToSet(messages') = TopLevel(S) \cup (IF c.kind = "list" THEN {} ELSE ToSet(messages))
          /\ hasMoreMessages' = more
      BY <3>1, <3>2, PageShown
    <3> QED BY <1>0, <3>1, <3>2, <3>3 DEF FeedTypes, TypeOK
  <2> QED BY <2>1, <2>2, LandingShows
<1>3. {isLoading', isLoadingMore', messagesError', crossed'} \subseteq BOOLEAN
  <2>1. isLoading' \in BOOLEAN /\ isLoadingMore' \in BOOLEAN /\ crossed' \in BOOLEAN
    BY <1>1 DEF Finally
  <2>2. messagesError' = messagesError \/ messagesError' = (messagesError \/ (c.kind = "list" /\ IsCurrent(c)))
    BY DEF PageArrives, CallFails, Show
  <2>3. messagesError' \in BOOLEAN
    BY <1>0, <2>2 DEF FeedTypes, TypeOK
  <2> QED BY <2>1, <2>3
<1> QED BY <1>0, <1>1, <1>2, <1>3 DEF FeedTypes, TypeOK, server, where

-----------------------------------------------------------------------------
(* RoomFeed: steps keep the calls sound. *)

(* Calls. *)
LEMMA CallStaysSound ==
  ASSUME ListInv, NEW c \in calls, Len(log') \in Nat, Len(log) <= Len(log'),
         \A i \in 1..Len(log) : log'[i] = log[i],
         serial' \in Nat, serial < serial' \/ (serial' = serial /\ currentRoomId' = currentRoomId)
  PROVE  SoundCall(c)'
<1>1. SoundCall(c) /\ c.serial \in Nat /\ serial \in Nat /\ Len(log) \in Nat
  BY BoundsAssumption DEF ListInv, FeedCalls, FeedTypes, TypeOK, Call
<1>2. 1..Len(log) \subseteq 1..Len(log')
  BY <1>1
<1>3. Latest(c)' => Latest(c) /\ currentRoomId' = currentRoomId
  BY <1>1 DEF Latest, SoundCall
<1>4. c.serial <= serial'
  BY <1>1 DEF SoundCall
<1>5. c.page \subseteq {i \in 1..Len(log') : log'[i].room = c.room /\ (c.before = 0 \/ i < c.before)}
  BY <1>1, <1>2 DEF SoundCall
<1> QED BY <1>1, <1>3, <1>4, <1>5 DEF SoundCall

LEMMA ServerKeepsCalls ==
  ASSUME ListInv,
         \/ \E r \in Rooms, b \in BOOLEAN : Store(r, b)
         \/ \E i \in 1..Len(log) : Delete(i)
         \/ \E e \in todo : AnnouncementLost(e) \/ NewMessage(e) \/ MessageDeleted(e)
  PROVE  FeedCalls'
<1>1. UNCHANGED <<view, currentRoomId, oldestFetchedId, hasMoreMessages, isLoadingMore, calls, serial>>
  BY DEF Store, Delete, AnnouncementLost, NewMessage, MessageDeleted, where, list, flags, pages
<1>2. log' = log \/ \E x \in Entry : log' = Append(log, x)
  BY DEF Store, Delete, AnnouncementLost, NewMessage, MessageDeleted, Entry
<1>3. log \in Seq(Entry) /\ serial \in Nat
  BY BoundsAssumption DEF ListInv, FeedTypes, TypeOK
<1>4. Len(log') \in Nat /\ Len(log) <= Len(log') /\ \A i \in 1..Len(log) : log'[i] = log[i]
  BY <1>2, <1>3
<1>5. \A c \in calls : SoundCall(c)'
  BY <1>1, <1>3, <1>4, CallStaysSound
<1> QED BY <1>1, <1>5 DEF ListInv, FeedCalls

LEMMA BrowserKeepsCalls ==
  ASSUME ListInv,
         \/ LeaveChat \/ \E r \in roomCalls : RoomArrives(r)
         \/ Disconnect \/ Reconnect \/ RoomsJoined \/ UNCHANGED vars
  PROVE  /\ FeedCalls'
         /\ UNCHANGED <<log, deleted, todo, currentRoomId, messages, oldestFetchedId, hasMoreMessages,
                        messagesError, isLoadingMore, calls, serial, raced, crossed>>
<1>1. UNCHANGED <<log, deleted, todo, messages, oldestFetchedId, hasMoreMessages,
                  messagesError, isLoadingMore, calls, serial, raced, crossed>>
  BY DEF LeaveChat, RoomArrives, Disconnect, Reconnect, RoomsJoined, vars, server, list, flags, pages, history
<1>2. view' \in {view, NoRoom} /\ currentRoomId' = currentRoomId
  BY DEF LeaveChat, RoomArrives, Disconnect, Reconnect, RoomsJoined, vars, where,
         ListInv, FeedInv, Browser, ViewIsSelected
<1>3. log \in Seq(Entry) /\ serial \in Nat
  BY BoundsAssumption DEF ListInv, FeedTypes, TypeOK
<1>4. \A c \in calls : SoundCall(c)'
  BY <1>1, <1>2, <1>3, CallStaysSound
<1> QED BY <1>1, <1>2, <1>4 DEF ListInv, FeedCalls

(* OpenRoom and Retry. *)
LEMMA LoadKeepsCalls ==
  ASSUME ListInv, NEW r \in Rooms, LoadMessages(r), view' = r, UNCHANGED <<server, isLoadingMore>>
  PROVE  /\ FeedCalls'
         /\ \A c \in calls' : Latest(c)' => c = NewCall("list", r, serial', 0)
<1>0. PICK new : new = NewCall("list", r, serial + 1, 0)
  OBVIOUS
<1>1. /\ calls' = calls \cup {new} /\ serial' = serial + 1 /\ currentRoomId' = r
      /\ hasMoreMessages' = FALSE /\ log' = log /\ isLoadingMore' = isLoadingMore
  BY <1>0 DEF LoadMessages, server
<1>2. log \in Seq(Entry) /\ serial \in Nat
  BY BoundsAssumption DEF ListInv, FeedTypes, TypeOK
<1>3. \A c \in calls : SoundCall(c)'
  BY <1>1, <1>2, CallStaysSound
<1>4. /\ new.kind = "list" /\ new.room = r /\ new.serial = serial + 1 /\ new.before = 0 /\ new.oldest = 0
      /\ new.pages = 0 /\ ~new.answered /\ new.page = {}
  BY <1>0 DEF NewCall
<1>5. SoundCall(new)'
  BY <1>1, <1>2, <1>4 DEF SoundCall, Latest
<1>6. FeedCalls'
  BY <1>1, <1>2, <1>3, <1>4, <1>5 DEF ListInv, FeedCalls
<1>7. \A c \in calls : c.serial \in Nat /\ c.serial <= serial
  BY BoundsAssumption DEF ListInv, FeedCalls, SoundCall, FeedTypes, TypeOK, Call
<1>8. \A c \in calls' : Latest(c)' => c = new
  BY <1>1, <1>2, <1>7 DEF Latest
<1> QED BY <1>0, <1>1, <1>6, <1>8

LEMMA LoadMoreKeepsCalls ==
  ASSUME ListInv, LoadMore
  PROVE  /\ FeedCalls'
         /\ UNCHANGED <<log, deleted, todo, currentRoomId, messages, oldestFetchedId, hasMoreMessages,
                        messagesError, serial, raced, crossed>>
         /\ oldestFetchedId # 0 /\ hasMoreMessages /\ \A c \in calls : c.kind # "more"
         /\ calls' = calls \cup {NewCall("more", view, serial, oldestFetchedId)}
<1>0. oldestFetchedId # 0 /\ hasMoreMessages /\ view # NoRoom
  BY DEF LoadMore, ListInv, FeedCalls
<1>a. PICK new : new = NewCall("more", view, serial, oldestFetchedId)
  OBVIOUS
<1>1. calls' = calls \cup {new} /\ isLoadingMore' = TRUE /\ ~isLoadingMore
  BY <1>0, <1>a DEF LoadMore
<1>2. UNCHANGED <<log, deleted, todo, view, currentRoomId, messages, oldestFetchedId, hasMoreMessages,
                  messagesError, serial, raced, crossed>>
  BY DEF LoadMore, server, where, list, history
<1>3. log \in Seq(Entry) /\ serial \in Nat
  BY BoundsAssumption DEF ListInv, FeedTypes, TypeOK
<1>4. \A c \in calls : SoundCall(c)'
  BY <1>2, <1>3, CallStaysSound
<1>5. /\ new.kind = "more" /\ new.room = view /\ new.serial = serial /\ new.before = oldestFetchedId /\ new.oldest = 0
      /\ new.pages = 0 /\ ~new.answered /\ new.page = {}
  BY <1>a DEF NewCall
<1>6. view = currentRoomId
  BY <1>0 DEF ListInv, FeedInv, Browser, ViewIsSelected
<1>7. SoundCall(new)'
  BY <1>0, <1>2, <1>3, <1>5, <1>6 DEF SoundCall, Latest
<1>8. \A c \in calls : c.kind # "more"
  BY <1>1 DEF ListInv, FeedCalls
<1>9. FeedCalls'
  BY <1>0, <1>1, <1>2, <1>4, <1>7, <1>8 DEF ListInv, FeedCalls
<1> QED BY <1>0, <1>a, <1>1, <1>2, <1>8, <1>9

LEMMA AnswerKeepsCalls ==
  ASSUME ListInv, NEW c \in calls, ServerReads(c) \/ NextPage(c)
  PROVE  FeedCalls'
<1>1. UNCHANGED <<log, view, currentRoomId, oldestFetchedId, hasMoreMessages, isLoadingMore, serial>>
  BY CallsOnly DEF server, where, list, flags
<1>2. log \in Seq(Entry) /\ serial \in Nat
  BY BoundsAssumption DEF ListInv, FeedTypes, TypeOK
<1>3. \A d \in calls : SoundCall(d)'
  BY <1>1, <1>2, CallStaysSound
<1>4. SoundCall(c) /\ c \in Call
  BY CallsAreTyped DEF ListInv, FeedCalls
<1>5. ASSUME NEW d \in Call, calls' = (calls \ {c}) \cup {d}, d.kind = c.kind, SoundCall(d)'
      PROVE  FeedCalls'
  BY <1>1, <1>3, <1>5 DEF ListInv, FeedCalls
<1>6. CASE ServerReads(c)
  <2>1. PICK d \in Call :
          /\ calls' = (calls \ {c}) \cup {d}
          /\ d.kind = c.kind /\ d.room = c.room /\ d.serial = c.serial /\ d.before = c.before
          /\ d.oldest = c.oldest /\ d.pages = c.pages /\ d.answered /\ d.page = Newest(Before(c.room, c.before))
    BY <1>6, CallIsAnswered
  <2>2. d.page \subseteq Before(c.room, c.before)
    BY <2>1 DEF Newest
  <2>3. SoundCall(d)'
    BY <1>1, <1>4, <2>1, <2>2 DEF SoundCall, Latest, Before
  <2> QED BY <1>5, <2>1, <2>3
<1>7. CASE NextPage(c)
  <2>1. PICK d \in Call :
          /\ calls' = (calls \ {c}) \cup {d} /\ c.page # {}
          /\ d.kind = c.kind /\ d.room = c.room /\ d.serial = c.serial /\ d.before = Min(c.page)
          /\ d.oldest = Min(c.page) /\ d.pages > 0 /\ ~d.answered /\ d.page = {}
    BY <1>7, CallPagesOn
  <2>2. Min(c.page) \in Ids
    BY <2>1, CallsAreTyped
  <2>3. SoundCall(d)'
    BY <1>1, <1>4, <2>1, <2>2 DEF SoundCall, Latest, Ids
  <2> QED BY <1>5, <2>1, <2>3
<1> QED BY <1>6, <1>7

LEMMA LandingKeepsCalls ==
  ASSUME ListInv, NEW c \in calls, PageArrives(c) \/ CallFails(c)
  PROVE  /\ FeedCalls'
         /\ UNCHANGED <<log, deleted, todo, currentRoomId, serial, raced>> /\ calls' = calls \ {c}
         /\ crossed' = (crossed \/ (IsCurrent(c) /\ c.serial < serial))
<1>1. Ended(c)
  BY DEF PageArrives, CallFails
<1>2. /\ calls' = calls \ {c} /\ UNCHANGED <<log, deleted, todo, view, currentRoomId, serial, raced>>
      /\ crossed' = (crossed \/ (IsCurrent(c) /\ c.serial < serial))
      /\ isLoadingMore' = (isLoadingMore /\ c.kind # "more")
  BY <1>1 DEF Ended, server, where, Finally
<1>3. log \in Seq(Entry) /\ serial \in Nat
  BY BoundsAssumption DEF ListInv, FeedTypes, TypeOK
<1>4. \A d \in calls : SoundCall(d)'
  BY <1>2, <1>3, CallStaysSound
<1>5. SoundCall(c) /\ c \in Call
  BY CallsAreTyped DEF ListInv, FeedCalls
<1>6. hasMoreMessages' => oldestFetchedId' # 0
  <2>1. CASE list' = list
    BY <2>1 DEF list, ListInv, FeedCalls
  <2>2. CASE list' # list
    <3>1. PICK S, n, more :
            /\ Show(c, S, n, more) /\ S \subseteq c.page /\ n \in Ids \cup {0}
            /\ \/ c.answered /\ S = c.page /\ S # {} /\ n = Min(S)
               \/ c.answered /\ S = c.page /\ S = {} /\ n = c.oldest /\ more = FALSE
               \/ S = {} /\ c.pages > 0 /\ n = c.oldest
      BY <2>2, LandingShows
    <3>2. /\ oldestFetchedId' = (IF c.kind = "more" /\ n = 0 THEN oldestFetchedId ELSE n)
          /\ hasMoreMessages' = more
      BY <3>1 DEF Show
    <3>3. more => n # 0
      <4>1. CASE S # {}
        <5>1. Min(c.page) \in Ids
          BY <3>1, <4>1, CallsAreTyped
        <5> QED BY <3>1, <4>1, <5>1 DEF Ids
      <4>2. CASE S = {}
        BY <1>5, <3>1, <4>2 DEF SoundCall
      <4> QED BY <4>1, <4>2
    <3> QED BY <3>2, <3>3
  <2> QED BY <2>1, <2>2
<1>7. \A d, e \in calls' : d.kind = "more" /\ e.kind = "more" => d = e /\ isLoadingMore'
  <2> SUFFICES ASSUME NEW d \in calls', NEW e \in calls', d.kind = "more", e.kind = "more"
               PROVE  d = e /\ isLoadingMore'
    OBVIOUS
  <2>1. d = e /\ isLoadingMore /\ d # c
    BY <1>2 DEF ListInv, FeedCalls
  <2>2. c.kind # "more"
    BY <1>2, <2>1 DEF ListInv, FeedCalls
  <2> QED BY <1>2, <2>1, <2>2
<1> QED BY <1>2, <1>4, <1>6, <1>7 DEF ListInv, FeedCalls

-----------------------------------------------------------------------------
(* RoomFeed: steps keep the list. *)

(* The list. *)
LEMMA ListFacts ==
  ASSUME ListInv
  PROVE  /\ log \in Seq(Entry) /\ Len(log) \in Nat /\ messages \in Seq(Ids) /\ oldestFetchedId \in Nat
         /\ \A i \in Others : i \in 1..Len(log) /\ i \in Nat /\ ~log[i].reply /\ log[i].room = currentRoomId /\ i \notin raced
         /\ \A c \in calls : /\ c \in Call /\ SoundCall(c) /\ c.kind \in {"list", "more"} /\ c.before \in Nat
                             /\ c.page \subseteq Nat /\ (Latest(c) => IsCurrent(c))
<1>1. /\ log \in Seq(Entry) /\ Len(log) \in Nat /\ messages \in Seq(Ids) /\ oldestFetchedId \in Nat
  BY BoundsAssumption DEF ListInv, FeedTypes, TypeOK, Ids
<1>2. \A i \in Others : i \in 1..Len(log) /\ i \in Nat /\ ~log[i].reply /\ log[i].room = currentRoomId /\ i \notin raced
  BY <1>1 DEF Others, TopLevel
<1>3. \A c \in calls : c \in Call
  BY CallsAreTyped
<1>4. \A c \in calls : c.kind \in {"list", "more"} /\ c.before \in Nat /\ c.page \subseteq Nat
  BY <1>3 DEF Call, Ids
<1>5. \A c \in calls : SoundCall(c)
  BY DEF ListInv, FeedCalls
<1>6. \A c \in calls : Latest(c) => IsCurrent(c)
  BY <1>5 DEF SoundCall, IsCurrent
<1> QED BY <1>1, <1>2, <1>3, <1>4, <1>5, <1>6

LEMMA StoreKeepsList ==
  ASSUME ListInv, NEW r \in Rooms, NEW b \in BOOLEAN, Store(r, b)
  PROVE  FeedList'
<1> DEFINE n == Len(log) + 1
<1>1. /\ log' = Append(log, [room |-> r, reply |-> b]) /\ todo' = todo \cup {[type |-> "new", id |-> n]}
      /\ UNCHANGED <<deleted, currentRoomId, messages, oldestFetchedId, hasMoreMessages, messagesError, calls, serial, raced, crossed>>
  BY DEF Store, where, list, flags, pages, history
<1>2. Len(log') = Len(log) + 1 /\ \A i \in 1..Len(log) : log'[i] = log[i]
  BY <1>1, ListFacts DEF Entry
<1>3. Others' \subseteq Others \cup {n}
  BY <1>1, <1>2, ListFacts DEF Others, TopLevel
<1> SUFFICES ASSUME ~crossed' PROVE OneLatest' /\ \A i \in Others' : ShownOnce(i)' /\ (IF i \in deleted THEN Leaving(i) ELSE Located(i))'
  BY DEF FeedList
<1>4. FeedList /\ ~crossed
  BY <1>1 DEF ListInv
<1>5. OneLatest'
  BY <1>1, <1>4 DEF FeedList, OneLatest, Latest
<1>6. ASSUME NEW i \in Others' PROVE ShownOnce(i)' /\ (IF i \in deleted THEN Leaving(i) ELSE Located(i))'
  <2>1. CASE i \in Others
    <3>1. ShownOnce(i) /\ (IF i \in deleted THEN Leaving(i) ELSE Located(i))
      BY <1>4, <2>1 DEF FeedList
    <3>2. ShownOnce(i)'
      BY <1>1, <3>1 DEF ShownOnce, InList
    <3>3. Leaving(i) => Leaving(i)'
      BY <1>1 DEF Leaving, InList, Latest
    <3>4. Located(i) => Located(i)'
      BY <1>1 DEF Located, Outlasts, Announced, InList, Latest
    <3> QED BY <1>1, <3>1, <3>2, <3>3, <3>4
  <2>2. CASE i = n
    <3>1. i \notin ToSet(messages) /\ i \notin deleted
      BY <2>2, ListFacts DEF ListInv, FeedTypes, TypeOK
    <3>2. ShownOnce(i)'
      <4>1. \A k \in 1..Len(messages) : messages[k] # i
        BY <3>1, ListFacts DEF ToSet
      <4> QED BY <1>1, <3>1, <4>1 DEF ShownOnce, Single, InList
    <3>3. Announced(i)'
      BY <1>1, <2>2 DEF Announced
    <3> QED BY <1>1, <3>1, <3>2, <3>3 DEF Located, Outlasts
  <2> QED BY <1>3, <2>1, <2>2
<1> QED BY <1>5, <1>6

LEMMA DeleteKeepsList ==
  ASSUME ListInv, NEW j \in 1..Len(log), Delete(j)
  PROVE  FeedList'
<1>1. /\ deleted' = deleted \cup {j} /\ todo' = todo \cup {[type |-> "deleted", id |-> j]}
      /\ UNCHANGED <<log, currentRoomId, messages, oldestFetchedId, hasMoreMessages, messagesError, calls, serial, raced, crossed>>
  BY DEF Delete, where, list, flags, pages, history
<1>2. Others' = Others
  BY <1>1 DEF Others, TopLevel
<1> SUFFICES ASSUME ~crossed' PROVE OneLatest' /\ \A i \in Others' : ShownOnce(i)' /\ (IF i \in deleted THEN Leaving(i) ELSE Located(i))'
  BY DEF FeedList
<1>4. FeedList /\ ~crossed
  BY <1>1 DEF ListInv
<1>5. OneLatest'
  BY <1>1, <1>4 DEF FeedList, OneLatest, Latest
<1>6. ASSUME NEW i \in Others PROVE ShownOnce(i)' /\ (IF i \in deleted THEN Leaving(i) ELSE Located(i))'
  <2>1. ShownOnce(i) /\ (IF i \in deleted THEN Leaving(i) ELSE Located(i))
    BY <1>4 DEF FeedList
  <2>2. ShownOnce(i)'
    BY <1>1, <2>1 DEF ShownOnce, InList
  <2>3. Leaving(i) => Leaving(i)'
    BY <1>1 DEF Leaving, InList, Latest
  <2>4. Located(i) => Located(i)'
    BY <1>1 DEF Located, Outlasts, Announced, InList, Latest
  <2>5. i = j => Leaving(i)'
    BY <1>1 DEF Leaving
  <2> QED BY <1>1, <2>1, <2>2, <2>3, <2>4, <2>5
<1> QED BY <1>2, <1>5, <1>6

LEMMA LostKeepsList ==
  ASSUME ListInv, NEW e \in todo, AnnouncementLost(e)
  PROVE  FeedList'
<1>1. /\ todo' = todo \ {e} /\ raced' = Raced(e.id)
      /\ UNCHANGED <<log, deleted, currentRoomId, messages, oldestFetchedId, hasMoreMessages, messagesError, calls, serial, crossed>>
  BY DEF AnnouncementLost, where, list, flags, pages
<1>2. Others' \subseteq Others /\ e.id \notin Others'
  BY <1>1 DEF Others, TopLevel, Raced
<1> SUFFICES ASSUME ~crossed' PROVE OneLatest' /\ \A i \in Others' : ShownOnce(i)' /\ (IF i \in deleted THEN Leaving(i) ELSE Located(i))'
  BY DEF FeedList
<1>4. FeedList /\ ~crossed
  BY <1>1 DEF ListInv
<1>5. OneLatest'
  BY <1>1, <1>4 DEF FeedList, OneLatest, Latest
<1>6. ASSUME NEW i \in Others' PROVE ShownOnce(i)' /\ (IF i \in deleted THEN Leaving(i) ELSE Located(i))'
  <2>1. ShownOnce(i) /\ (IF i \in deleted THEN Leaving(i) ELSE Located(i))
    BY <1>2, <1>4, <1>6 DEF FeedList
  <2>2. ShownOnce(i)'
    BY <1>1, <2>1 DEF ShownOnce, InList
  <2>3. \A t : [type |-> t, id |-> i] \in todo => [type |-> t, id |-> i] \in todo'
    BY <1>1, <1>2, <1>6
  <2>4. Leaving(i) => Leaving(i)'
    BY <1>1, <2>3 DEF Leaving, InList, Latest
  <2>5. Announced(i) => Announced(i)'
    BY <2>3 DEF Announced
  <2>6. Located(i) => Located(i)'
    BY <1>1, <2>5 DEF Located, Outlasts, InList, Latest
  <2> QED BY <1>1, <2>1, <2>2, <2>4, <2>6
<1> QED BY <1>5, <1>6

LEMMA NewMessageKeepsList ==
  ASSUME ListInv, NEW e \in todo, NewMessage(e)
  PROVE  FeedList'
<1> DEFINE j == e.id
           late == j \in deleted /\ [type |-> "deleted", id |-> j] \notin todo
           unseen == log[j].room # ActiveRoom \/ j < oldestFetchedId \/ ListIsRead
<1>1. /\ todo' = todo \ {e} /\ e.type = "new"
      /\ raced' = (IF late \/ unseen THEN Raced(j) ELSE raced)
      /\ messages' = (IF TopLevel({j}) # {} /\ log[j].room = ActiveRoom THEN AddMessage(j) ELSE messages)
      /\ UNCHANGED <<log, deleted, currentRoomId, oldestFetchedId, hasMoreMessages, messagesError, calls, serial, crossed>>
  BY DEF NewMessage, where, flags, pages
<1>2. /\ Others' \subseteq Others
      /\ j \in Others' => ~late /\ ~unseen
  BY <1>1 DEF Others, TopLevel, Raced
<1>3. j \in Ids
  <2>1. j \in 1..Len(log)
    BY DEF ListInv, FeedInv, Server
  <2> QED BY <2>1, BoundsAssumption DEF ListInv, FeedTypes, TypeOK, Ids
<1>4. FeedList
  BY DEF ListInv
<1> HIDE DEF late, unseen
<1> SUFFICES ASSUME ~crossed' PROVE OneLatest' /\ \A i \in Others' : ShownOnce(i)' /\ (IF i \in deleted THEN Leaving(i) ELSE Located(i))'
  BY DEF FeedList
<1>5. OneLatest'
  BY <1>1, <1>4 DEF FeedList, OneLatest, Latest
<1>6. /\ ToSet(messages) \subseteq ToSet(messages') /\ ToSet(messages') \subseteq ToSet(messages) \cup {j}
      /\ \A i : Single(messages, i) => Single(messages', i)
  <2>1. CASE messages' = messages
    BY <2>1
  <2>2. CASE messages' = AddMessage(j)
    BY <1>3, <2>2, Adding, ListFacts
  <2> QED BY <1>1, <2>1, <2>2
<1>7. ASSUME NEW i \in Others' PROVE ShownOnce(i)' /\ (IF i \in deleted THEN Leaving(i) ELSE Located(i))'
  <2>1. ShownOnce(i) /\ (IF i \in deleted THEN Leaving(i) ELSE Located(i))
    BY <1>1, <1>2, <1>4, <1>7 DEF FeedList
  <2>2. Single(messages', i)
    BY <1>6, <2>1 DEF ShownOnce
  <2>3. [type |-> "deleted", id |-> i] \in todo => [type |-> "deleted", id |-> i] \in todo'
    BY <1>1
  <2>4. CASE i # j
    <3>1. InList(i)' <=> InList(i)
      BY <1>6, <2>4 DEF InList
    <3>2. Announced(i) => Announced(i)'
      BY <1>1, <2>4 DEF Announced
    <3>3. ShownOnce(i)'
      BY <1>1, <2>1, <2>2, <3>1 DEF ShownOnce
    <3>4. Leaving(i) => Leaving(i)'
      BY <1>1, <2>3, <3>1 DEF Leaving, Latest
    <3>5. Located(i) => Located(i)'
      BY <1>1, <3>1, <3>2 DEF Located, Outlasts, Latest
    <3> QED BY <1>1, <2>1, <3>3, <3>4, <3>5
  <2>5. CASE i = j
    <3>1. ~late /\ ~unseen /\ i \in Others
      BY <1>2, <1>7, <2>5
    <3>2. log[j].room = ActiveRoom /\ ~(j < oldestFetchedId) /\ ~ListIsRead
      BY <3>1 DEF unseen
    <3>3. TopLevel({j}) # {}
      BY <2>5, <3>1, ListFacts DEF TopLevel
    <3>4. InList(i)'
      BY <1>1, <1>3, <2>5, <3>2, <3>3, Adding, ListFacts DEF InList
    <3>5. ShownOnce(i)'
      <4>1. i \in Nat /\ oldestFetchedId \in Nat
        BY <3>1, ListFacts
      <4>2. i >= oldestFetchedId
        BY <2>5, <3>2, <4>1
      <4> QED BY <1>1, <2>2, <4>2 DEF ShownOnce
    <3>6. i \in deleted => Leaving(i)'
      BY <2>3, <2>5, <3>1 DEF Leaving, late
    <3>7. ASSUME NEW c \in calls, Latest(c) PROVE (c.before # 0 \/ c.answered) => c.kind = "more"
      BY <3>2, <3>7, ListFacts DEF ListIsRead, SoundCall
    <3>8. Located(i)'
      BY <1>1, <3>4, <3>7 DEF Located, Outlasts, Latest
    <3> QED BY <1>1, <3>5, <3>6, <3>8
  <2> QED BY <2>4, <2>5
<1> QED BY <1>5, <1>7

LEMMA MessageDeletedKeepsList ==
  ASSUME ListInv, NEW e \in todo, MessageDeleted(e)
  PROVE  FeedList'
<1>1. /\ todo' = todo \ {e} /\ e.type = "deleted" /\ messages' = Without(e.id)
      /\ raced' = (IF OnItsWay THEN Raced(e.id) ELSE raced)
      /\ UNCHANGED <<log, deleted, currentRoomId, oldestFetchedId, hasMoreMessages, messagesError, calls, serial, crossed>>
  BY DEF MessageDeleted, where, flags, pages
<1>2. Others' \subseteq Others /\ (e.id \in Others' => ~OnItsWay)
  BY <1>1 DEF Others, TopLevel, Raced
<1>3. ToSet(messages') = ToSet(messages) \ {e.id} /\ \A i : Single(messages, i) => Single(messages', i)
  BY <1>1, Removing, ListFacts
<1>4. FeedList /\ e.id \in deleted
  BY <1>1 DEF ListInv, FeedTypes
<1> SUFFICES ASSUME ~crossed' PROVE OneLatest' /\ \A i \in Others' : ShownOnce(i)' /\ (IF i \in deleted THEN Leaving(i) ELSE Located(i))'
  BY DEF FeedList
<1>5. OneLatest'
  BY <1>1, <1>4 DEF FeedList, OneLatest, Latest
<1>6. ASSUME NEW i \in Others' PROVE ShownOnce(i)' /\ (IF i \in deleted THEN Leaving(i) ELSE Located(i))'
  <2>1. ShownOnce(i) /\ (IF i \in deleted THEN Leaving(i) ELSE Located(i))
    BY <1>1, <1>2, <1>4, <1>6 DEF FeedList
  <2>2. ShownOnce(i)'
    BY <1>1, <1>3, <2>1 DEF ShownOnce, InList
  <2>3. CASE i # e.id
    <3>1. InList(i)' <=> InList(i)
      BY <1>3, <2>3 DEF InList
    <3>2. Announced(i) => Announced(i)'
      BY <1>1 DEF Announced
    <3>3. Leaving(i) => Leaving(i)'
      BY <1>1, <2>3, <3>1 DEF Leaving, Latest
    <3>4. Located(i) => Located(i)'
      BY <1>1, <3>1, <3>2 DEF Located, Outlasts, Latest
    <3> QED BY <1>1, <2>1, <2>2, <3>3, <3>4
  <2>4. CASE i = e.id
    <3>1. ~InList(i)'
      BY <1>3, <2>4 DEF InList
    <3>2. \A c \in calls : Latest(c) => c.page = {}
      BY <1>2, <1>6, <2>4, ListFacts DEF OnItsWay, SoundCall
    <3>3. Leaving(i)'
      BY <1>1, <3>1, <3>2 DEF Leaving, Latest
    <3> QED BY <1>1, <1>4, <2>2, <2>4, <3>3
  <2> QED BY <2>3, <2>4
<1> QED BY <1>5, <1>6

LEMMA LoadKeepsList ==
  ASSUME ListInv, NEW r \in Rooms, LoadMessages(r), view' = r, UNCHANGED <<server, isLoadingMore>>
  PROVE  FeedList'
<1>1. \A c \in calls' : Latest(c)' => c = NewCall("list", r, serial', 0)
  BY LoadKeepsCalls
<1>2. messages' = <<>> /\ hasMoreMessages' = FALSE /\ oldestFetchedId' = 0 /\ serial' = serial + 1
  BY DEF LoadMessages
<1>3. PICK new : new = NewCall("list", r, serial', 0)
  OBVIOUS
<1>4. new.kind = "list" /\ new.serial = serial' /\ new.before = 0 /\ ~new.answered /\ new.page = {}
  BY <1>3 DEF NewCall
<1>5. new \in calls'
  BY <1>2, <1>3 DEF LoadMessages
<1>6. ASSUME NEW i PROVE ~InList(i)' /\ Single(messages', i)
  BY <1>2 DEF InList, ToSet, Single
<1>7. OneLatest'
  BY <1>1, <1>2, <1>3, <1>4 DEF OneLatest
<1>8. ASSUME NEW i PROVE ShownOnce(i)' /\ Leaving(i)' /\ Located(i)'
  <2>1. ShownOnce(i)'
    BY <1>6 DEF ShownOnce
  <2>2. Leaving(i)'
    BY <1>1, <1>3, <1>4, <1>6 DEF Leaving
  <2>3. Latest(new)'
    BY <1>3, <1>4 DEF Latest
  <2>4. Located(i)'
    BY <1>1, <1>2, <1>3, <1>4, <1>5, <2>3 DEF Located
  <2> QED BY <2>1, <2>2, <2>4
<1> QED BY <1>7, <1>8 DEF FeedList

LEMMA LoadMoreKeepsList ==
  ASSUME ListInv, LoadMore
  PROVE  FeedList'
<1>1. /\ UNCHANGED <<log, deleted, todo, currentRoomId, messages, oldestFetchedId, hasMoreMessages,
                     messagesError, serial, raced, crossed>>
      /\ oldestFetchedId # 0 /\ hasMoreMessages /\ \A c \in calls : c.kind # "more"
      /\ calls' = calls \cup {NewCall("more", view, serial, oldestFetchedId)}
  BY LoadMoreKeepsCalls
<1>2. PICK new : new = NewCall("more", view, serial, oldestFetchedId)
  OBVIOUS
<1>3. new.kind = "more" /\ new.serial = serial /\ new.before = oldestFetchedId /\ ~new.answered /\ new.page = {}
  BY <1>2 DEF NewCall
<1>4. Others' = Others /\ FeedList /\ calls' = calls \cup {new}
  BY <1>1, <1>2 DEF Others, TopLevel, ListInv
<1> SUFFICES ASSUME ~crossed' PROVE OneLatest' /\ \A i \in Others' : ShownOnce(i)' /\ (IF i \in deleted THEN Leaving(i) ELSE Located(i))'
  BY DEF FeedList
<1>5. \A c \in calls' : Latest(c)' => c = new
  BY <1>1, <1>4 DEF FeedList, OneLatest, Latest
<1>6. OneLatest'
  BY <1>1, <1>3, <1>5, ListFacts DEF OneLatest
<1>7. ASSUME NEW i \in Others PROVE ShownOnce(i)' /\ (IF i \in deleted THEN Leaving(i) ELSE Located(i))'
  <2>1. ShownOnce(i) /\ (IF i \in deleted THEN Leaving(i) ELSE Located(i))
    BY <1>1, <1>4 DEF FeedList
  <2>2. ShownOnce(i)'
    BY <1>1, <2>1 DEF ShownOnce, InList
  <2>3. Leaving(i) => Leaving(i)'
    BY <1>1, <1>3, <1>5 DEF Leaving, InList
  <2>4. (Announced(i)' <=> Announced(i)) /\ (InList(i)' <=> InList(i))
    BY <1>1 DEF Announced, InList
  <2>5. Located(i) => Located(i)'
    <3> SUFFICES ASSUME Located(i) PROVE Located(i)'
      OBVIOUS
    <3>1. i >= oldestFetchedId => Announced(i) \/ InList(i)
      BY <1>1 DEF Located
    <3> QED BY <1>1, <1>3, <1>5, <2>4, <3>1 DEF Located, Outlasts
  <2> QED BY <1>1, <2>1, <2>2, <2>3, <2>5
<1> QED BY <1>4, <1>6, <1>7

LEMMA ServerReadsKeepsList ==
  ASSUME ListInv, NEW c \in calls, ServerReads(c)
  PROVE  FeedList'
<1>1. UNCHANGED <<log, deleted, todo, currentRoomId, messages, oldestFetchedId, hasMoreMessages, messagesError, serial, raced, crossed>>
  BY CallsOnly DEF server, where, list, flags, history
<1>2. PICK d \in Call :
        /\ calls' = (calls \ {c}) \cup {d}
        /\ d.kind = c.kind /\ d.room = c.room /\ d.serial = c.serial /\ d.before = c.before
        /\ d.oldest = c.oldest /\ d.pages = c.pages /\ d.answered /\ d.page = Newest(Before(c.room, c.before))
  BY CallIsAnswered
<1>3. Others' = Others /\ FeedList
  BY <1>1 DEF Others, TopLevel, ListInv
<1>4. PICK n \in Nat : n = Len(log)
  BY ListFacts
<1>5. PICK found \in SUBSET (1..n) : found = Before(c.room, c.before)
  BY <1>4 DEF Before
<1>6. d.page \subseteq found /\ \A i \in found \ d.page : d.page # {} /\ \A j \in d.page : i < j
  BY <1>2, <1>5, FeedNewest
<1> SUFFICES ASSUME ~crossed' PROVE OneLatest' /\ \A i \in Others' : ShownOnce(i)' /\ (IF i \in deleted THEN Leaving(i) ELSE Located(i))'
  BY DEF FeedList
<1>7. OneLatest'
  BY <1>1, <1>2, <1>3 DEF FeedList, OneLatest, Latest
<1>8. ASSUME NEW i \in Others PROVE ShownOnce(i)' /\ (IF i \in deleted THEN Leaving(i) ELSE Located(i))'
  <2>1. ShownOnce(i) /\ (IF i \in deleted THEN Leaving(i) ELSE Located(i))
    BY <1>1, <1>3 DEF FeedList
  <2>2. ShownOnce(i)'
    BY <1>1, <2>1 DEF ShownOnce, InList
  <2>3. (Announced(i)' <=> Announced(i)) /\ (InList(i)' <=> InList(i)) /\ (\A x : Latest(x)' <=> Latest(x))
    BY <1>1 DEF Announced, InList, Latest
  <2>4. i \in deleted => i \notin d.page
    BY <1>5, <1>6 DEF Before
  <2>5. i \in deleted /\ Leaving(i) => Leaving(i)'
    BY <1>1, <1>2, <2>3, <2>4 DEF Leaving
  <2>6. ASSUME Located(i), i \notin deleted PROVE Located(i)'
    <3>1. \A x : Outlasts(x, i)' <=> Outlasts(x, i)
      BY <2>3 DEF Outlasts
    <3>2. Outlasts(d, i) <=> Outlasts(c, i)
      BY <1>2 DEF Outlasts
    <3>3. ASSUME Latest(d) PROVE
            /\ d.before # 0 /\ i >= d.before => Outlasts(d, i)
            /\ \/ Outlasts(d, i) \/ i \in d.page
               \/ d.page # {} /\ \A j \in d.page : i < j
      <4>1. Latest(c) /\ IsCurrent(c)
        BY <1>2, <3>3, ListFacts DEF Latest
      <4>2. c.before # 0 /\ i >= c.before => Outlasts(c, i)
        BY <2>6, <4>1 DEF Located
      <4>3. ASSUME c.before = 0 \/ ~(i >= c.before) PROVE i \in found
        <5>1. i \in 1..Len(log) /\ log[i].room = c.room
          BY <4>1, ListFacts DEF IsCurrent
        <5>2. c.before = 0 \/ i < c.before
          BY <4>3, ListFacts
        <5> QED BY <1>5, <2>6, <5>1, <5>2 DEF Before
      <4>4. Outlasts(c, i) \/ i \in found
        BY <4>2, <4>3
      <4> QED BY <1>2, <1>6, <3>2, <4>2, <4>4
    <3>4. \A x \in calls' : Latest(x) =>
            /\ x.before # 0 /\ i >= x.before => Outlasts(x, i)
            /\ x.answered => \/ Outlasts(x, i) \/ i \in x.page
                             \/ x.page # {} /\ \A j \in x.page : i < j
      BY <1>2, <2>6, <3>3 DEF Located
    <3>5. (\E x \in calls : Latest(x) /\ x.kind = "list") => \E x \in calls' : Latest(x) /\ x.kind = "list"
      BY <1>2 DEF Latest
    <3> QED BY <1>1, <2>3, <2>6, <3>1, <3>4, <3>5 DEF Located
  <2> QED BY <1>1, <2>1, <2>2, <2>5, <2>6
<1> QED BY <1>3, <1>7, <1>8

LEMMA NextPageKeepsList ==
  ASSUME ListInv, NEW c \in calls, NextPage(c)
  PROVE  FeedList'
<1>1. UNCHANGED <<log, deleted, todo, currentRoomId, messages, oldestFetchedId, hasMoreMessages, messagesError, serial, raced, crossed>>
  BY CallsOnly DEF server, where, list, flags, history
<1>2. PICK d \in Call :
        /\ calls' = (calls \ {c}) \cup {d} /\ c.page # {}
        /\ d.kind = c.kind /\ d.room = c.room /\ d.serial = c.serial /\ d.before = Min(c.page)
        /\ d.oldest = Min(c.page) /\ d.pages > 0 /\ ~d.answered /\ d.page = {}
  BY CallPagesOn
<1>3. Others' = Others /\ FeedList
  BY <1>1 DEF Others, TopLevel, ListInv
<1>4. c.answered /\ TopLevel(c.page) = {}
  BY DEF NextPage, WantsNextPage
<1>5. PICK n : n = Min(c.page)
  OBVIOUS
<1>6. n \in c.page /\ n \in Nat /\ \A j \in c.page : n <= j
  BY <1>2, <1>5, CallsAreTyped, ListFacts
<1> SUFFICES ASSUME ~crossed' PROVE OneLatest' /\ \A i \in Others' : ShownOnce(i)' /\ (IF i \in deleted THEN Leaving(i) ELSE Located(i))'
  BY DEF FeedList
<1>7. OneLatest'
  <2>1. d.kind = "more" => n < c.before
    BY <1>2, <1>6, ListFacts DEF SoundCall
  <2>2. Latest(c) /\ c.kind = "more" => d.before <= oldestFetchedId
    <3>1. Latest(c) /\ c.kind = "more" => c.before <= oldestFetchedId
      BY <1>1, <1>3 DEF FeedList, OneLatest
    <3>2. c.before \in Nat /\ oldestFetchedId \in Nat
      BY ListFacts
    <3> QED BY <1>2, <1>5, <1>6, <2>1, <3>1, <3>2
  <2> QED BY <1>1, <1>2, <1>3, <2>2 DEF FeedList, OneLatest, Latest
<1>8. ASSUME NEW i \in Others PROVE ShownOnce(i)' /\ (IF i \in deleted THEN Leaving(i) ELSE Located(i))'
  <2>1. ShownOnce(i) /\ (IF i \in deleted THEN Leaving(i) ELSE Located(i))
    BY <1>1, <1>3 DEF FeedList
  <2>2. ShownOnce(i)'
    BY <1>1, <2>1 DEF ShownOnce, InList
  <2>3. (Announced(i)' <=> Announced(i)) /\ (InList(i)' <=> InList(i)) /\ (\A x : Latest(x)' <=> Latest(x))
    BY <1>1 DEF Announced, InList, Latest
  <2>4. Leaving(i) => Leaving(i)'
    BY <1>1, <1>2, <2>3 DEF Leaving
  <2>5. ASSUME Located(i) PROVE Located(i)'
    <3>1. \A x : Outlasts(x, i)' <=> Outlasts(x, i)
      BY <2>3 DEF Outlasts
    <3>2. Outlasts(d, i) <=> Outlasts(c, i)
      BY <1>2 DEF Outlasts
    <3>3. ASSUME Latest(d), i >= n PROVE Outlasts(d, i)
      <4>1. \/ Outlasts(c, i) \/ i \in c.page \/ \A j \in c.page : i < j
        BY <1>2, <1>4, <2>5, <3>3 DEF Located, Latest
      <4>2. i \notin c.page
        BY <1>4, ListFacts DEF TopLevel
      <4>3. i \in Nat
        BY ListFacts
      <4> QED BY <1>6, <3>2, <3>3, <4>1, <4>2, <4>3
    <3>4. \A x \in calls' : Latest(x) =>
            /\ x.before # 0 /\ i >= x.before => Outlasts(x, i)
            /\ x.answered => \/ Outlasts(x, i) \/ i \in x.page
                             \/ x.page # {} /\ \A j \in x.page : i < j
      BY <1>2, <1>5, <2>5, <3>3 DEF Located
    <3>5. (\E x \in calls : Latest(x) /\ x.kind = "list") => \E x \in calls' : Latest(x) /\ x.kind = "list"
      BY <1>2 DEF Latest
    <3> QED BY <1>1, <2>3, <2>5, <3>1, <3>4, <3>5 DEF Located
  <2> QED BY <1>1, <2>1, <2>2, <2>4, <2>5
<1> QED BY <1>3, <1>7, <1>8

(* A call of before then lands: it changes nothing, or the property no      *)
(* longer holds.                                                           *)
LEMMA OutdatedKeepsList ==
  ASSUME ListInv, NEW c \in calls, PageArrives(c) \/ CallFails(c), ~Latest(c)
  PROVE  FeedList'
<1>1. /\ UNCHANGED <<log, deleted, todo, currentRoomId, serial, raced>> /\ calls' = calls \ {c}
      /\ crossed' = (crossed \/ (IsCurrent(c) /\ c.serial < serial))
  BY LandingKeepsCalls
<1> SUFFICES ASSUME ~crossed' PROVE OneLatest' /\ \A i \in Others' : ShownOnce(i)' /\ (IF i \in deleted THEN Leaving(i) ELSE Located(i))'
  BY DEF FeedList
<1>2. c.serial < serial
  BY BoundsAssumption, ListFacts DEF Latest, SoundCall, Call, ListInv, FeedTypes, TypeOK
<1>3. ~IsCurrent(c) /\ ~crossed /\ FeedList
  BY <1>1, <1>2 DEF ListInv
<1>4. list' = list /\ (messagesError' <=> messagesError)
  BY <1>3, LandingShows
<1>5. UNCHANGED <<messages, oldestFetchedId, hasMoreMessages>>
  BY <1>4 DEF list
<1>6. Others' = Others
  BY <1>1 DEF Others, TopLevel
<1>7. OneLatest'
  BY <1>1, <1>3, <1>5 DEF FeedList, OneLatest, Latest
<1>8. ASSUME NEW i \in Others PROVE ShownOnce(i)' /\ (IF i \in deleted THEN Leaving(i) ELSE Located(i))'
  <2>1. ShownOnce(i) /\ (IF i \in deleted THEN Leaving(i) ELSE Located(i))
    BY <1>3 DEF FeedList
  <2>2. ShownOnce(i)'
    BY <1>5, <2>1 DEF ShownOnce, InList
  <2>3. (Announced(i)' <=> Announced(i)) /\ (InList(i)' <=> InList(i)) /\ (\A x : Latest(x)' <=> Latest(x))
    BY <1>1, <1>5 DEF Announced, InList, Latest
  <2>4. Leaving(i) => Leaving(i)'
    BY <1>1, <2>3 DEF Leaving
  <2>5. (\E x \in calls : Latest(x) /\ x.kind = "list") => \E x \in calls' : Latest(x) /\ x.kind = "list"
    BY <1>1
  <2>6. Located(i) => Located(i)'
    BY <1>1, <1>4, <1>5, <2>3, <2>5 DEF Located, Outlasts
  <2> QED BY <1>1, <2>1, <2>2, <2>4, <2>6
<1> QED BY <1>6, <1>7, <1>8

(* What the page brings, and what was there and stays, is where it should  *)
(* be from the new cursor on.                                              *)
LEMMA LatestKeepsList ==
  ASSUME ListInv, NEW c \in calls, PageArrives(c) \/ CallFails(c), Latest(c)
  PROVE  FeedList'
<1>1. /\ UNCHANGED <<log, deleted, todo, currentRoomId, serial, raced>> /\ calls' = calls \ {c}
      /\ crossed' = (crossed \/ (IsCurrent(c) /\ c.serial < serial))
  BY LandingKeepsCalls
<1> SUFFICES ASSUME ~crossed' PROVE OneLatest' /\ \A i \in Others' : ShownOnce(i)' /\ (IF i \in deleted THEN Leaving(i) ELSE Located(i))'
  BY DEF FeedList
<1>2. ~crossed /\ FeedList /\ OneLatest
  BY <1>1 DEF ListInv, FeedList
<1>3. \A d \in calls' : ~Latest(d) /\ ~Latest(d)'
  BY <1>1, <1>2 DEF OneLatest, Latest
<1>4. Others' = Others
  BY <1>1 DEF Others, TopLevel
<1>5. OneLatest'
  BY <1>3 DEF OneLatest
<1>6. ASSUME NEW i \in Others PROVE /\ ShownOnce(i) /\ (IF i \in deleted THEN Leaving(i) ELSE Located(i))
                                    /\ (Announced(i)' <=> Announced(i))
  BY <1>1, <1>2 DEF FeedList, Announced
<1>7. IsCurrent(c) /\ SoundCall(c) /\ c.kind \in {"list", "more"} /\ c.before \in Nat /\ c.page \subseteq Nat
  BY ListFacts
<1>8. CASE list' = list /\ (messagesError' <=> messagesError \/ (c.kind = "list" /\ IsCurrent(c)))
  <2>1. UNCHANGED <<messages, oldestFetchedId, hasMoreMessages>>
    BY <1>8 DEF list
  <2>2. ASSUME NEW i \in Others PROVE ShownOnce(i)' /\ (IF i \in deleted THEN Leaving(i) ELSE Located(i))'
    <3>1. ShownOnce(i)' /\ (InList(i)' <=> InList(i))
      BY <1>6, <2>1 DEF ShownOnce, InList
    <3>2. Leaving(i) => Leaving(i)'
      BY <1>1, <1>3, <3>1 DEF Leaving
    <3>3. ASSUME Located(i) PROVE Located(i)'
      <4>1. oldestFetchedId = 0 => Announced(i) \/ InList(i) \/ messagesError'
        BY <1>2, <1>7, <1>8, <3>3 DEF Located, OneLatest
      <4>2. oldestFetchedId # 0 /\ i >= oldestFetchedId => Announced(i) \/ InList(i)
        BY <3>3 DEF Located
      <4> QED BY <1>3, <1>6, <2>1, <3>1, <4>1, <4>2 DEF Located
    <3> QED BY <1>1, <1>6, <3>1, <3>2, <3>3
  <2> QED BY <1>4, <1>5, <2>2
<1>9. CASE \E S, n, more :
             /\ Show(c, S, n, more) /\ S \subseteq c.page
             /\ n \in Ids \cup {0} /\ more \in BOOLEAN
             /\ \/ c.answered /\ S = c.page /\ S # {} /\ n = Min(S)
                \/ c.answered /\ S = c.page /\ S = {} /\ n = c.oldest /\ more = FALSE
                \/ S = {} /\ c.pages > 0 /\ n = c.oldest
  <2>1. PICK S, n, more :
             /\ Show(c, S, n, more) /\ S \subseteq c.page
             /\ n \in Ids \cup {0} /\ more \in BOOLEAN
             /\ \/ c.answered /\ S = c.page /\ S # {} /\ n = Min(S)
                \/ c.answered /\ S = c.page /\ S = {} /\ n = c.oldest /\ more = FALSE
                \/ S = {} /\ c.pages > 0 /\ n = c.oldest
    BY <1>9
  <2>2. S \subseteq 1..Len(log) /\ S \subseteq Nat /\ n \in Nat /\ oldestFetchedId \in Nat
    BY <2>1, CallsAreTyped, ListFacts DEF Ids
  <2>3. /\ ToSet(messages') = TopLevel(S) \cup (IF c.kind = "list" THEN {} ELSE ToSet(messages))
        /\ \A i : (c.kind = "list" \/ (Single(messages, i) /\ ~(i \in S /\ InList(i)))) => Single(messages', i)
        /\ oldestFetchedId' = (IF c.kind = "more" /\ n = 0 THEN oldestFetchedId ELSE n)
    BY <2>1, <2>2, PageShown
  <2>4. S # {} => n \in S /\ n # 0 /\ \A j \in S : n <= j
    <3>1. S # {} => S = c.page /\ n = Min(c.page)
      BY <2>1
    <3>2. S # {} => n \in S /\ \A j \in S : n <= j
      BY <3>1, CallsAreTyped
    <3>3. \A j \in S : j # 0
      BY <2>2
    <3> QED BY <3>2, <3>3
  <2>5. S = {} => n = (IF c.pages > 0 THEN c.before ELSE 0)
    BY <1>7, <2>1 DEF SoundCall
  <2>6. c.kind = "more" => /\ c.before # 0 /\ c.before <= oldestFetchedId /\ n <= c.before
                           /\ \A j \in S : j < c.before
    <3>1. c.kind = "more" => c.before # 0 /\ c.before <= oldestFetchedId
      BY <1>2, <1>7 DEF OneLatest, SoundCall
    <3>2. c.kind = "more" => \A j \in S : j < c.before
      BY <1>7, <2>1, <3>1 DEF SoundCall
    <3>3. c.kind = "more" => n <= c.before
      <4>1. CASE S # {}
        BY <1>7, <2>2, <2>4, <3>2, <4>1
      <4>2. CASE S = {}
        BY <1>7, <2>5, <4>2
      <4> QED BY <4>1, <4>2
    <3> QED BY <3>1, <3>2, <3>3
  <2>7. ASSUME NEW i \in Others PROVE ShownOnce(i)' /\ (IF i \in deleted THEN Leaving(i) ELSE Located(i))'
    <3>1. i \in Nat /\ ~log[i].reply
      BY ListFacts
    <3>2. InList(i)' <=> i \in S \/ (c.kind = "more" /\ InList(i))
      BY <1>7, <2>3, <3>1 DEF InList, TopLevel
    <3>3. InList(i) => i >= oldestFetchedId
      BY <1>6 DEF ShownOnce
    <3>4. ShownOnce(i)'
      <4>1. c.kind = "more" => ~(i \in S /\ InList(i))
        BY <1>7, <2>2, <2>6, <3>1, <3>3
      <4>2. Single(messages', i)
        BY <1>6, <1>7, <2>3, <4>1 DEF ShownOnce
      <4>3. InList(i)' => i >= oldestFetchedId'
        <5>1. CASE i \in S
          BY <2>2, <2>3, <2>4, <3>1, <5>1
        <5>2. CASE c.kind = "more" /\ InList(i)
          <6>1. oldestFetchedId' <= oldestFetchedId
            BY <1>7, <2>2, <2>3, <2>6, <5>2
          <6> QED BY <2>2, <2>3, <3>1, <3>3, <5>2, <6>1
        <5> QED BY <3>2, <5>1, <5>2
      <4> QED BY <4>2, <4>3 DEF ShownOnce
    <3>5. Leaving(i) => Leaving(i)'
      BY <1>1, <1>3, <2>1, <3>2 DEF Leaving
    <3>6. ASSUME Located(i) PROVE Located(i)'
      <4>1. /\ c.before # 0 /\ i >= c.before => Announced(i) \/ (c.kind = "more" /\ InList(i))
            /\ c.answered => \/ Announced(i) \/ (c.kind = "more" /\ InList(i)) \/ i \in c.page
                             \/ c.page # {} /\ \A j \in c.page : i < j
        BY <3>6 DEF Located, Outlasts
      <4>2. CASE S # {}
        <5>1. c.answered /\ S = c.page
          BY <2>1, <4>2
        <5>2. i >= n => Announced(i) \/ InList(i)'
          BY <2>2, <2>4, <3>1, <3>2, <4>1, <4>2, <5>1
        <5>3. oldestFetchedId' = n /\ n # 0
          BY <2>3, <2>4, <4>2
        <5> QED BY <1>3, <1>6, <5>2, <5>3 DEF Located
      <4>3. CASE S = {} /\ c.pages > 0
        <5>1. n = c.before /\ n # 0
          BY <1>7, <2>5, <4>3 DEF SoundCall
        <5>2. oldestFetchedId' = n
          BY <2>3, <5>1
        <5>3. i >= n => Announced(i) \/ InList(i)'
          BY <3>2, <4>1, <5>1
        <5> QED BY <1>3, <1>6, <5>1, <5>2, <5>3 DEF Located
      <4>4. CASE S = {} /\ ~(c.pages > 0)
        <5>1. c.answered /\ c.page = {} /\ n = 0
          BY <2>1, <2>5, <4>4
        <5>2. Announced(i) \/ InList(i)'
          BY <3>2, <4>1, <5>1
        <5> QED BY <1>3, <1>6, <5>2 DEF Located
      <4> QED BY <4>2, <4>3, <4>4
    <3> QED BY <1>1, <1>6, <3>4, <3>5, <3>6
  <2> QED BY <1>4, <1>5, <2>7
<1> QED BY <1>8, <1>9, LandingShows

LEMMA OthersKeepList ==
  ASSUME ListInv,
         \/ LeaveChat \/ \E r \in roomCalls : RoomArrives(r)
         \/ Disconnect \/ Reconnect \/ RoomsJoined \/ UNCHANGED vars
  PROVE  FeedList'
<1>1. UNCHANGED <<log, deleted, todo, currentRoomId, messages, oldestFetchedId, hasMoreMessages,
                  messagesError, isLoadingMore, calls, serial, raced, crossed>>
  BY BrowserKeepsCalls
<1>2. FeedList
  BY DEF ListInv
<1> QED BY <1>1, <1>2 DEF FeedList, OneLatest, Others, TopLevel, ShownOnce, Leaving, Located,
           Outlasts, Announced, InList, Latest

-----------------------------------------------------------------------------
(* RoomFeed: the list in the end. *)

LEMMA ListStart == Init => ListInv
<1> SUFFICES ASSUME Init PROVE ListInv
  OBVIOUS
<1>1. FeedInv
  BY FeedInitial
<1>2. FeedTypes
  <2>1. /\ log = <<>> /\ log \in Seq(Entry) /\ Len(log) = 0 /\ deleted = {} /\ todo = {}
        /\ messages = <<>> /\ messages \in Seq(Ids)
    BY DEF Init
  <2>2. MaxMessages \in Nat /\ MaxLoads \in Nat
    BY BoundsAssumption
  <2>3. /\ {hasMoreMessages, isLoading, isLoadingMore, messagesError, crossed} \subseteq BOOLEAN
        /\ {view, currentRoom, currentRoomId} \subseteq Rooms \cup {NoRoom}
    BY DEF Init
  <2>5. net = "up" /\ oldestFetchedId = 0 /\ unread = {} /\ roomCalls = {} /\ calls = {} /\ serial = 0 /\ raced = {}
    BY DEF Init
  <2>6. Len(log) <= MaxMessages /\ serial \in 0..MaxLoads
    BY <2>1, <2>2, <2>5
  <2>7. TypeOK
    BY <2>1, <2>3, <2>5, <2>6 DEF TypeOK
  <2>4. ToSet(messages) = {}
    BY <2>1 DEF ToSet
  <2> QED BY <2>1, <2>4, <2>7 DEF FeedTypes
<1>3. FeedCalls
  BY DEF Init, FeedCalls
<1>4. FeedList
  BY DEF Init, FeedList, OneLatest, Others, TopLevel
<1> QED BY <1>1, <1>2, <1>3, <1>4 DEF ListInv

LEMMA ListInductive == ListInv /\ [Next]_vars => ListInv'
<1> SUFFICES ASSUME ListInv, [Next]_vars PROVE ListInv'
  OBVIOUS
<1>1. FeedInv'
  BY BrowserInductive, ServerInductive DEF ListInv, FeedInv
<1>2. ASSUME FeedTypes', FeedCalls', FeedList' PROVE ListInv'
  BY <1>1, <1>2 DEF ListInv
<1>3. ASSUME NEW r \in Rooms, NEW b \in BOOLEAN, Store(r, b) PROVE ListInv'
  BY <1>2, <1>3, ServerKeepsTypes, ServerKeepsCalls, StoreKeepsList
<1>4. ASSUME NEW i \in 1..Len(log), Delete(i) PROVE ListInv'
  BY <1>2, <1>4, ServerKeepsTypes, ServerKeepsCalls, DeleteKeepsList
<1>5. ASSUME NEW e \in todo, AnnouncementLost(e) PROVE ListInv'
  BY <1>2, <1>5, ServerKeepsTypes, ServerKeepsCalls, LostKeepsList
<1>6. ASSUME NEW e \in todo, NewMessage(e) PROVE ListInv'
  BY <1>2, <1>6, ServerKeepsTypes, ServerKeepsCalls, NewMessageKeepsList
<1>7. ASSUME NEW e \in todo, MessageDeleted(e) PROVE ListInv'
  BY <1>2, <1>7, ServerKeepsTypes, ServerKeepsCalls, MessageDeletedKeepsList
<1>8. ASSUME NEW r \in Rooms, OpenRoom(r) PROVE ListInv'
  <2>1. LoadMessages(r) /\ view' = r /\ UNCHANGED <<server, isLoadingMore>>
    BY <1>8 DEF OpenRoom
  <2> QED BY <1>2, <1>8, <2>1, BrowserKeepsTypes, LoadKeepsCalls, LoadKeepsList
<1>9. ASSUME Retry PROVE ListInv'
  <2>1. view \in Rooms
    BY <1>9 DEF Retry, ListInv, FeedInv, Browser, FeedPlaces
  <2>2. LoadMessages(view) /\ view' = view /\ UNCHANGED <<server, isLoadingMore>>
    BY <1>9 DEF Retry
  <2>3. PICK r \in Rooms : r = view
    BY <2>1
  <2> QED BY <1>2, <1>9, <2>2, <2>3, BrowserKeepsTypes, LoadKeepsCalls, LoadKeepsList
<1>10. ASSUME LoadMore PROVE ListInv'
  BY <1>2, <1>10, BrowserKeepsTypes, LoadMoreKeepsCalls, LoadMoreKeepsList
<1>11. ASSUME NEW c \in calls, ServerReads(c) PROVE ListInv'
  BY <1>2, <1>11, BrowserKeepsTypes, AnswerKeepsCalls, ServerReadsKeepsList
<1>12. ASSUME NEW c \in calls, NextPage(c) PROVE ListInv'
  BY <1>2, <1>12, BrowserKeepsTypes, AnswerKeepsCalls, NextPageKeepsList
<1>13. ASSUME NEW c \in calls, PageArrives(c) \/ CallFails(c) PROVE ListInv'
  BY <1>2, <1>13, LandingKeepsTypes, LandingKeepsCalls, OutdatedKeepsList, LatestKeepsList
<1>14. CASE \/ LeaveChat \/ \E r \in roomCalls : RoomArrives(r)
            \/ Disconnect \/ Reconnect \/ RoomsJoined \/ UNCHANGED vars
  BY <1>2, <1>14, BrowserKeepsTypes, BrowserKeepsCalls, OthersKeepList
<1> QED
  BY <1>3, <1>4, <1>5, <1>6, <1>7, <1>8, <1>9, <1>10, <1>11, <1>12, <1>13, <1>14 DEF Next

LEMMA ListHolds == Spec => []ListInv
BY ListStart, ListInductive, PTL DEF Spec

(* The types of RoomFeed: what is shown, fetched or announced is a message  *)
(* that was stored, and the paging loop stays within its bound of pages.    *)
THEOREM FeedIsTyped == Spec => []TypeOK
<1>1. ListInv => TypeOK
  BY DEF ListInv, FeedTypes
<1> QED BY ListHolds, <1>1, PTL

(* In the end the list of a room shows every message from the oldest        *)
(* fetched one on once, and no deleted one, but for those that were lost    *)
(* or overtaken: addMessage, deleteMessage, loadMessages, loadMoreMessages. *)
THEOREM ListIsExact == Spec => []OthersAreExact
<1>1. ASSUME ListInv PROVE OthersAreExact
  <2> SUFFICES ASSUME Settled, ~crossed, currentRoomId # NoRoom,
                      NEW i \in TopLevel(1..Len(log)) \ raced,
                      log[i].room = currentRoomId, i >= oldestFetchedId
               PROVE  Cardinality({k \in 1..Len(messages) : messages[k] = i}) = (IF i \in deleted THEN 0 ELSE 1)
    BY DEF OthersAreExact
  <2>1. todo = {} /\ ~messagesError /\ \A c \in calls : ~Latest(c)
    BY <1>1, ListFacts DEF Settled
  <2>2. ShownOnce(i) /\ (IF i \in deleted THEN Leaving(i) ELSE Located(i))
    BY <1>1 DEF ListInv, FeedList, Others
  <2>3. messages \in Seq(Ids)
    BY <1>1, ListFacts
  <2>4. InList(i) <=> \E k \in 1..Len(messages) : messages[k] = i
    BY <2>3 DEF InList, ToSet
  <2>5. CASE i \in deleted
    <3>1. ~InList(i)
      BY <2>1, <2>2, <2>5 DEF Leaving
    <3>2. {k \in 1..Len(messages) : messages[k] = i} = {}
      BY <2>4, <3>1
    <3> QED BY <2>5, <3>2, FS_EmptySet
  <2>6. CASE i \notin deleted
    <3>1. InList(i)
      BY <2>1, <2>2, <2>6 DEF Located, Announced
    <3>2. PICK k \in 1..Len(messages) : messages[k] = i
      BY <2>4, <3>1
    <3>3. {j \in 1..Len(messages) : messages[j] = i} = {k}
      BY <2>2, <3>2 DEF ShownOnce, Single
    <3> QED BY <2>6, <3>3, FS_Singleton
  <2> QED BY <2>5, <2>6
<1> QED BY ListHolds, <1>1, PTL

(* No page of another room gets into the list, whatever is switched while   *)
(* it is fetched: isCurrent in chatStore.                                   *)
THEOREM PagesAreOfTheRoom == Spec => PagesStayInTheirRoom
<1>1. ASSUME ListInv, [Next]_vars, todo \subseteq todo',
             NEW i \in ToSet(messages') \ ToSet(messages)
      PROVE  log[i].room = currentRoomId'
  <2>1. CASE \E c \in calls : PageArrives(c) \/ CallFails(c)
    <3>1. PICK c \in calls : PageArrives(c) \/ CallFails(c)
      BY <2>1
    <3>2. messages' # messages
      OBVIOUS
    <3>3. IsCurrent(c) /\ \E S, n, more : Show(c, S, n, more) /\ S \subseteq c.page
      BY <1>1, <3>1, <3>2, LandingShows DEF list
    <3>4. PICK S, n, more : Show(c, S, n, more) /\ S \subseteq c.page
      BY <3>3
    <3>5. c.page \subseteq 1..Len(log) /\ \A j \in c.page : log[j].room = c.room
      BY <1>1 DEF ListInv, FeedCalls, SoundCall
    <3>6. ToSet(messages') = TopLevel(S) \cup (IF c.kind = "list" THEN {} ELSE ToSet(messages))
      BY <1>1, <3>4, <3>5, PageShown
    <3>7. i \in c.page
      BY <3>4, <3>6 DEF TopLevel
    <3>8. currentRoomId' = currentRoomId
      BY <1>1, <3>1, LandingKeepsCalls
    <3> QED BY <3>3, <3>5, <3>7, <3>8 DEF IsCurrent
  <2>2. CASE \E r \in Rooms : LoadMessages(r)
    BY <2>2 DEF LoadMessages, ToSet
  <2>3. CASE messages' = messages
    BY <2>3
  <2>4. ASSUME NEW e \in todo, AnnouncementLost(e) \/ NewMessage(e) \/ MessageDeleted(e) PROVE FALSE
    BY <1>1, <2>4 DEF AnnouncementLost, NewMessage, MessageDeleted
  <2>5. Retry => \E r \in Rooms : LoadMessages(r)
    BY <1>1 DEF Retry, ListInv, FeedInv, Browser, FeedPlaces
  <2>6. ASSUME NEW c \in calls, ServerReads(c) \/ NextPage(c) PROVE messages' = messages
    BY <2>6, CallsOnly DEF list
  <2>7. CASE \/ LeaveChat \/ \E r \in roomCalls : RoomArrives(r)
             \/ Disconnect \/ Reconnect \/ RoomsJoined \/ UNCHANGED vars
    BY <1>1, <2>7, <2>3, BrowserKeepsCalls
  <2>8. LoadMore => messages' = messages
    BY <1>1, LoadMoreKeepsCalls
  <2>9. ASSUME \/ \E r \in Rooms, b \in BOOLEAN : Store(r, b)
               \/ \E j \in 1..Len(log) : Delete(j)
        PROVE  messages' = messages
    BY <2>9, Zenon DEF Store, Delete, list
  <2> QED BY <1>1, <2>1, <2>2, <2>3, <2>4, <2>5, <2>6, <2>7, <2>8, <2>9 DEF Next, OpenRoom
<1>2. ListInv /\ [Next]_vars =>
        [todo \subseteq todo' => \A i \in ToSet(messages') \ ToSet(messages) : log[i].room = currentRoomId']_vars
  BY <1>1
<1> QED BY ListHolds, <1>2, PTL DEF PagesStayInTheirRoom, Spec

-----------------------------------------------------------------------------
(* ThreadPanel and Inbox: what their invariants say. *)

(* A call of the thread that is open now, since it was opened. *)
Fresh(c) == c.kind # "threads" /\ ~c.old

(* A reply that is shown, or whose announcement is still to come; one whose *)
(* deletion is.                                                             *)
Present(i) == i \in replies \/ [type |-> "new", id |-> i] \in replyTodo
Withdrawn(i) == [type |-> "deleted", id |-> i] \in replyTodo

Posts == 1..Len(replyLog)
PanelCall ==
  [kind: {"threads", "replies", "older"}, thread: Threads \cup {NoThread}, before: Nat,
   old: BOOLEAN, answered: BOOLEAN, page: SUBSET Nat, counts: [Threads -> Nat]]

PanelTypes ==
  /\ replyLog \in Seq(Threads) /\ repliesDeleted \subseteq Posts
  /\ \A e \in replyTodo :
       e.id \in Posts /\ e.type \in {"new", "deleted"} /\ (e.type = "deleted" => e.id \in repliesDeleted)
  /\ inRoom \in BOOLEAN
  /\ activeThreadId \in Threads \cup {NoThread} /\ (~inRoom => activeThreadId = NoThread)
  /\ oldestReplyId \in Nat /\ replyCalls \subseteq PanelCall

(* What is shown or fetched is of its thread. *)
OwnReplies ==
  /\ replies \subseteq Posts /\ \A i \in replies : replyLog[i] = activeThreadId
  /\ \A c \in replyCalls :
       /\ c.page \subseteq Panel!StoredIn(c.thread)
       /\ ~c.answered \/ c.kind = "threads" => c.page = {}
       /\ Fresh(c) => /\ c.thread = activeThreadId /\ activeThreadId \in Threads
                      /\ (c.kind = "replies" <=> c.before = 0)

(* A deleted reply that is shown, or will be, is still to be withdrawn. *)
GoneReplies ==
  \A i \in repliesDeleted \ repliesRaced :
    i \in replies \/ (\E c \in replyCalls : Fresh(c) /\ i \in c.page) => Withdrawn(i)

(* What is known of a reply of the open thread that is not deleted: it is   *)
(* older than what was asked for, or shown, or on its way.                  *)
Reaches(i) ==
  /\ oldestReplyId # 0 /\ i >= oldestReplyId => Present(i)
  /\ oldestReplyId = 0 =>
       Present(i) \/ repliesError \/ \E c \in replyCalls : Fresh(c) /\ c.kind = "replies"
  /\ \A c \in replyCalls : Fresh(c) =>
       /\ c.before # 0 /\ i >= c.before => Present(i)
       /\ c.answered => \/ Present(i) \/ i \in c.page
                        \/ c.page # {} /\ \A j \in c.page : i < j

KeptReplies == \A i \in Panel!StoredIn(activeThreadId) : i \in repliesDeleted \cup repliesRaced \/ Reaches(i)

PanelInv == PanelTypes /\ OwnReplies /\ (~repliesCrossed => GoneReplies /\ KeptReplies)

Pending == {i \in announced : i[2] = user} \ archived

(* S, of which U is unread, becomes what the user should see once the       *)
(* announced items have arrived.                                            *)
Exact(S, U) ==
  /\ S \subseteq Mail!Listed(user) /\ Mail!Newest(S) = S
  /\ Mail!Newest(S \cup Pending) = Mail!Newest(Mail!Listed(user))
  /\ U = S \ isRead

Quiet == \A r \in requests : ~(r.kind \in Mail!Changes /\ r.answered)
LoadOf(u, R) == \E r \in R : r.kind = "load" /\ r.as = u

MailTypes ==
  /\ sent \in Seq((SUBSET Users) \ {{}}) /\ Len(sent) <= MaxItems
  /\ announced \subseteq Mail!Created /\ requests \subseteq Mail!Request
  /\ user \in Users \cup {NoUser}

(* A load that is not marked is one of the user who is signed in. *)
OwnLoads == \A r \in requests : r.kind = "load" /\ ~r.stale => r.as = user

(* While nothing has changed that a load has still to fetch, the store is   *)
(* exact, and so is a page that will replace it.                            *)
ExactPages ==
  user # NoUser /\ Quiet =>
    /\ ~missed /\ ~LoadOf(user, requests) => Exact(shown, unreadItems)
    /\ \A r \in requests :
         r.kind = "load" /\ r.answered /\ ~r.stale /\ ~LoadOf(user, requests \ {r}) =>
           Exact(r.page, r.pageUnread)

MailInv == MailTypes /\ OwnLoads /\ ExactPages

-----------------------------------------------------------------------------
(* A page of replies. *)

LEMMA PanelMin ==
  ASSUME NEW S \in SUBSET Nat, S # {}
  PROVE  Panel!Min(S) \in S /\ \A x \in S : Panel!Min(S) <= x
BY LeastElement DEF Panel!Min

LEMMA SameCardinality ==
  \A S : Panel!Cardinality(S) = Cardinality(S) /\ Mail!Cardinality(S) = Cardinality(S)
BY DEF Cardinality, Panel!Cardinality, Mail!Cardinality

(* A page holds the newest replies; where some are left out it is not       *)
(* empty, and they are older than all of it.                                *)
LEMMA PanelNewest ==
  ASSUME NEW n \in Nat, NEW S, S \subseteq 1..n
  PROVE  /\ Panel!Newest(S) \subseteq S
         /\ \A i \in S \ Panel!Newest(S) :
              Panel!Newest(S) # {} /\ \A j \in Panel!Newest(S) : i < j
<1>1. Panel!Newest(S) = NewestOf(S, ReplyLimit)
  BY SameCardinality DEF Panel!Newest, NewestOf
<1>2. ReplyLimit \in Nat \ {0}
  BY PanelAssumption DEF Panel!Configured
<1>3. /\ NewestOf(S, ReplyLimit) \subseteq S
      /\ \A i \in S \ NewestOf(S, ReplyLimit) :
           NewestOf(S, ReplyLimit) # {} /\ \A j \in NewestOf(S, ReplyLimit) : i < j
  BY <1>2, NewestAreLatest, ZenonT(60)
<1> QED BY <1>1, <1>3

----------------------------------------------------------------------------
(* The thread panel *)
LEMMA PanelStart == Panel!Init => PanelInv
<1> SUFFICES ASSUME Panel!Init PROVE PanelInv
  OBVIOUS
<1>1. /\ replyLog = <<>> /\ Len(replyLog) = 0 /\ replyLog \in Seq(Threads)
      /\ repliesDeleted = {} /\ replyTodo = {} /\ inRoom = FALSE /\ activeThreadId = NoThread
      /\ replies = {} /\ oldestReplyId = 0 /\ replyCalls = {}
  BY DEF Panel!Init
<1>2. Panel!StoredIn(activeThreadId) = {}
  BY <1>1 DEF Panel!StoredIn
<1> QED BY <1>1, <1>2 DEF PanelInv, PanelTypes, OwnReplies, GoneReplies, KeptReplies

(* What every step that leaves the open thread alone is told about the      *)
(* calls: a new one has been asked for something sensible.                  *)
LEMMA PanelCalls ==
  ASSUME PanelInv, NEW c \in PanelCall,
         UNCHANGED <<replyLog, repliesDeleted, replyTodo, activeThreadId, replies,
                     oldestReplyId, repliesRaced, repliesCrossed>>,
         replyCalls' = replyCalls \cup {c}, ~c.answered, c.page = {},
         inRoom' \in BOOLEAN, inRoom => inRoom',
         Fresh(c) => /\ c.thread = activeThreadId /\ activeThreadId \in Threads
                     /\ (c.kind = "replies" <=> c.before = 0)
                     /\ c.before \in {0, oldestReplyId},
         repliesError => repliesError' \/ (Fresh(c) /\ c.kind = "replies")
  PROVE  PanelInv'
<1>1. PanelTypes'
  BY DEF PanelInv, PanelTypes, Posts, PanelCall
<1>2. OwnReplies'
  BY DEF PanelInv, OwnReplies, Posts, Panel!StoredIn, Fresh
<1>3. GoneReplies => GoneReplies'
  BY DEF GoneReplies, Fresh, Withdrawn
<1>4. ASSUME KeptReplies PROVE KeptReplies'
  <2> SUFFICES ASSUME NEW i \in Panel!StoredIn(activeThreadId),
                      i \notin repliesDeleted \cup repliesRaced
               PROVE  Reaches(i)'
    BY DEF KeptReplies, Panel!StoredIn
  <2>1. Reaches(i)
    BY <1>4 DEF KeptReplies
  <2>2. Present(i)' <=> Present(i)
    BY DEF Present
  <2>3. oldestReplyId = 0 =>
          Present(i) \/ repliesError' \/ \E d \in replyCalls' : Fresh(d) /\ d.kind = "replies"
    BY <2>1 DEF Reaches
  <2>4. Fresh(c) => (c.before # 0 /\ i >= c.before => Present(i))
    BY <2>1 DEF Reaches
  <2> HIDE DEF Present
  <2> QED BY <2>1, <2>2, <2>3, <2>4 DEF Reaches, Fresh
<1> QED BY <1>1, <1>2, <1>3, <1>4 DEF PanelInv

LEMMA NewCallType ==
  ASSUME NEW kind \in {"threads", "replies", "older"}, NEW t \in Threads \cup {NoThread},
         NEW before \in Nat
  PROVE  LET c == Panel!NewCall(kind, t, before) IN
           /\ c \in PanelCall /\ ~c.answered /\ c.page = {} /\ ~c.old
           /\ c.kind = kind /\ c.thread = t /\ c.before = before
BY DEF Panel!NewCall, PanelCall

LEMMA PanelAsks ==
  ASSUME PanelInv,
         Panel!EnterRoom \/ Panel!LoadThreads \/ Panel!Retry \/ Panel!LoadOlderReplies
  PROVE  PanelInv'
<1> DEFINE listing == Panel!NewCall("threads", NoThread, 0)
           first == Panel!NewCall("replies", activeThreadId, 0)
           older == Panel!NewCall("older", activeThreadId, oldestReplyId)
<1>0. /\ activeThreadId \in Threads \cup {NoThread} /\ oldestReplyId \in Nat
      /\ inRoom \in BOOLEAN
  BY DEF PanelInv, PanelTypes
<1>1. /\ listing \in PanelCall /\ ~listing.answered /\ listing.page = {} /\ ~Fresh(listing)
  BY NewCallType DEF Fresh
<1>2. /\ first \in PanelCall /\ ~first.answered /\ first.page = {} /\ first.kind = "replies"
      /\ Fresh(first) /\ first.thread = activeThreadId /\ first.before = 0
  BY <1>0, NewCallType DEF Fresh
<1>3. /\ older \in PanelCall /\ ~older.answered /\ older.page = {} /\ older.kind = "older"
      /\ older.thread = activeThreadId /\ older.before = oldestReplyId
  BY <1>0, NewCallType
<1> HIDE DEF listing, first, older
<1>4. CASE Panel!EnterRoom
  BY <1>0, <1>1, <1>4, PanelCalls DEF Panel!EnterRoom, Panel!Starts, Panel!server, Panel!panel, Panel!history, listing
<1>5. CASE Panel!LoadThreads
  BY <1>0, <1>1, <1>5, PanelCalls DEF Panel!LoadThreads, Panel!Starts, Panel!server, Panel!panel, Panel!history, listing
<1>6. CASE Panel!Retry
  BY <1>0, <1>2, <1>6, PanelCalls DEF Panel!Retry, Panel!Starts, Panel!server, Panel!history, first
<1>7. CASE Panel!LoadOlderReplies
  BY <1>0, <1>3, <1>7, PanelCalls DEF Panel!LoadOlderReplies, Panel!Starts, Panel!server, Panel!history, older
<1> QED BY <1>4, <1>5, <1>6, <1>7

(* Another thread is shown, or none: the calls in flight are no longer      *)
(* fresh, and nothing is known yet.                                         *)
LEMMA PanelShows ==
  ASSUME PanelInv, NEW t \in Threads \cup {NoThread}, Panel!Shows(t),
         UNCHANGED <<replyLog, repliesDeleted, replyTodo>>,
         inRoom' \in BOOLEAN, ~inRoom' => t = NoThread,
         \/ t = NoThread /\ replyCalls' = Panel!Aged
         \/ t \in Threads /\ replyCalls' = Panel!Aged \cup {Panel!NewCall("replies", t, 0)}
  PROVE  PanelInv'
<1> DEFINE new == Panel!NewCall("replies", t, 0)
<1>1. /\ new \in PanelCall /\ ~new.answered /\ new.page = {} /\ Fresh(new)
      /\ new.kind = "replies" /\ new.thread = t /\ new.before = 0
  BY NewCallType DEF Fresh
<1>2. \A c \in Panel!Aged :
        /\ c \in PanelCall /\ ~Fresh(c)
        /\ \E d \in replyCalls : /\ c.thread = d.thread /\ c.page = d.page
                                 /\ c.answered = d.answered /\ c.kind = d.kind
  BY DEF Panel!Aged, PanelInv, PanelTypes, PanelCall, Fresh
<1> HIDE DEF new
<1>3. \A c \in replyCalls' : c \in Panel!Aged \/ (c = new /\ t \in Threads)
  BY DEF new
<1>4. t \in Threads => new \in replyCalls'
  BY PanelAssumption DEF new, Panel!Configured
<1>5. /\ activeThreadId' = t /\ replies' = {} /\ oldestReplyId' = 0
      /\ repliesRaced' = {} /\ repliesCrossed' = FALSE
  BY DEF Panel!Shows
<1>6. PanelTypes'
  BY <1>1, <1>2, <1>3, <1>5 DEF PanelInv, PanelTypes, Posts
<1>7. OwnReplies'
  <2>1. \A c \in replyCalls' : c.page \subseteq Panel!StoredIn(c.thread)'
    BY <1>1, <1>2, <1>3 DEF PanelInv, OwnReplies, Panel!StoredIn
  <2>2. \A c \in replyCalls' : ~c.answered \/ c.kind = "threads" => c.page = {}
    BY <1>1, <1>2, <1>3 DEF PanelInv, OwnReplies
  <2>3. \A c \in replyCalls' : Fresh(c) => c = new /\ t \in Threads
    BY <1>2, <1>3
  <2> QED BY <1>1, <1>5, <2>1, <2>2, <2>3 DEF OwnReplies, Fresh
<1>8. GoneReplies'
  BY <1>1, <1>2, <1>3, <1>5 DEF GoneReplies, Fresh
<1>9. KeptReplies'
  <2>1. t = NoThread => Panel!StoredIn(t)' = {}
    BY PanelAssumption DEF Panel!Configured, Panel!StoredIn, PanelInv, PanelTypes
  <2>2. \A c \in replyCalls' : Fresh(c) => c = new
    BY <1>2, <1>3
  <2>3. ASSUME t \in Threads, NEW i PROVE Reaches(i)'
    BY <1>1, <1>4, <1>5, <2>2, <2>3 DEF Reaches, Fresh
  <2> QED BY <1>5, <2>1, <2>3 DEF KeptReplies
<1> QED BY <1>5, <1>6, <1>7, <1>8, <1>9 DEF PanelInv

LEMMA PanelSwitches ==
  ASSUME PanelInv,
         Panel!LeaveRoom \/ Panel!ClosePanel \/ \E t \in Threads : Panel!OpenThread(t)
  PROVE  PanelInv'
<1>0. inRoom \in BOOLEAN
  BY DEF PanelInv, PanelTypes
<1>1. CASE Panel!LeaveRoom
  BY <1>1, PanelShows DEF Panel!LeaveRoom, Panel!server
<1>2. CASE Panel!ClosePanel
  BY <1>0, <1>2, PanelShows DEF Panel!ClosePanel, Panel!server
<1>3. CASE \E t \in Threads : Panel!OpenThread(t)
  BY <1>0, <1>3, PanelShows DEF Panel!OpenThread, Panel!Starts, Panel!server
<1> QED BY <1>1, <1>2, <1>3

(* The two parts about single replies, over a step that keeps the calls:    *)
(* what has to be said of each reply.                                       *)
LEMMA GoneStays ==
  ASSUME GoneReplies, UNCHANGED replyCalls,
         \A i \in repliesDeleted' \ repliesRaced' :
           \/ Withdrawn(i)'
           \/ i \notin replies' /\ \A c \in replyCalls : i \notin c.page
           \/ /\ i \in repliesDeleted \ repliesRaced
              /\ (i \in replies' => i \in replies) /\ (Withdrawn(i) => Withdrawn(i)')
  PROVE  GoneReplies'
<1> SUFFICES ASSUME NEW i \in repliesDeleted' \ repliesRaced',
                    i \in replies' \/ \E c \in replyCalls : Fresh(c) /\ i \in c.page
             PROVE  Withdrawn(i)'
  BY DEF GoneReplies, Fresh
<1> QED BY DEF GoneReplies

LEMMA KeptStays ==
  ASSUME KeptReplies, UNCHANGED <<replyCalls, activeThreadId, oldestReplyId, repliesError>>,
         \A i \in Panel!StoredIn(activeThreadId)' :
           \/ i \in repliesDeleted' \cup repliesRaced' \/ Present(i)'
           \/ /\ i \in Panel!StoredIn(activeThreadId) /\ i \notin repliesDeleted \cup repliesRaced
              /\ (Present(i) => Present(i)')
  PROVE  KeptReplies'
<1> SUFFICES ASSUME NEW i \in Panel!StoredIn(activeThreadId)',
                    i \notin repliesDeleted' \cup repliesRaced'
             PROVE  Reaches(i)'
  BY DEF KeptReplies
<1>1. CASE Present(i)'
  BY <1>1 DEF Reaches, Fresh
<1>2. CASE Reaches(i) /\ (Present(i) => Present(i)')
  BY <1>2, Zenon DEF Reaches, Fresh
<1> QED BY <1>1, <1>2 DEF KeptReplies

LEMMA PanelStores ==
  ASSUME PanelInv, NEW t \in Threads, Panel!Store(t)
  PROVE  PanelInv'
<1> DEFINE new == Len(replyLog) + 1
<1>1. /\ replyLog' = Append(replyLog, t)
      /\ replyTodo' = replyTodo \cup {[type |-> "new", id |-> new]}
      /\ UNCHANGED <<repliesDeleted, inRoom, activeThreadId, replies, oldestReplyId, repliesError,
                     replyCalls, repliesRaced, repliesCrossed>>
  BY DEF Panel!Store, Panel!panel, Panel!history
<1>2. /\ replyLog' \in Seq(Threads) /\ Len(replyLog') = new /\ new \in Nat
      /\ Posts \subseteq Posts' /\ Posts' = Posts \cup {new}
      /\ \A i \in Posts : replyLog'[i] = replyLog[i]
  BY <1>1 DEF PanelInv, PanelTypes, Posts
<1>3. PanelTypes'
  BY <1>1, <1>2 DEF PanelInv, PanelTypes
<1>4. \A u : Panel!StoredIn(u) \subseteq Panel!StoredIn(u)'
             /\ Panel!StoredIn(u)' \subseteq Panel!StoredIn(u) \cup {new}
  BY <1>2 DEF Panel!StoredIn, Posts
<1>5. OwnReplies'
  BY <1>1, <1>2, <1>4 DEF PanelInv, OwnReplies, Fresh
<1>6. GoneReplies => GoneReplies'
  BY <1>1, GoneStays DEF Withdrawn
<1>7. \A i : i = new \/ Present(i) => Present(i)'
  BY <1>1 DEF Present
<1>8. KeptReplies => KeptReplies'
  <2> HIDE DEF new
  <2>1. \A i \in Panel!StoredIn(activeThreadId)' :
          i # new /\ i \notin repliesDeleted' \cup repliesRaced' =>
            i \in Panel!StoredIn(activeThreadId) /\ i \notin repliesDeleted \cup repliesRaced
    BY <1>1, <1>4
  <2> QED BY <1>1, <1>7, <2>1, KeptStays
<1> QED BY <1>1, <1>3, <1>5, <1>6, <1>8 DEF PanelInv

LEMMA PanelDeletes ==
  ASSUME PanelInv, NEW d \in Posts, Panel!Delete(d)
  PROVE  PanelInv'
<1>1. /\ repliesDeleted' = repliesDeleted \cup {d}
      /\ replyTodo' = replyTodo \cup {[type |-> "deleted", id |-> d]}
      /\ UNCHANGED <<replyLog, inRoom, activeThreadId, replies, oldestReplyId, repliesError,
                     replyCalls, repliesRaced, repliesCrossed>>
  BY DEF Panel!Delete, Panel!panel, Panel!history
<1>2. PanelTypes'
  BY <1>1 DEF PanelInv, PanelTypes, Posts
<1>3. OwnReplies'
  BY <1>1 DEF PanelInv, OwnReplies, Fresh, Posts, Panel!StoredIn
<1>4. Withdrawn(d)' /\ \A i : (Withdrawn(i) => Withdrawn(i)') /\ (Present(i) => Present(i)')
  BY <1>1 DEF Withdrawn, Present
<1>5. GoneReplies => GoneReplies'
  BY <1>1, <1>4, GoneStays
<1>6. KeptReplies => KeptReplies'
  BY <1>1, <1>4, KeptStays DEF Panel!StoredIn
<1> QED BY <1>1, <1>2, <1>3, <1>5, <1>6 DEF PanelInv

LEMMA PanelLoses ==
  ASSUME PanelInv, NEW e \in replyTodo, Panel!AnnouncementLost(e)
  PROVE  PanelInv'
<1>1. /\ replyTodo' = replyTodo \ {e} /\ repliesRaced' = repliesRaced \cup {e.id}
      /\ UNCHANGED <<replyLog, repliesDeleted, inRoom, activeThreadId, replies, oldestReplyId,
                     repliesError, replyCalls, repliesCrossed>>
  BY DEF Panel!AnnouncementLost, Panel!panel
<1>2. PanelTypes'
  BY <1>1 DEF PanelInv, PanelTypes, Posts
<1>3. OwnReplies'
  BY <1>1 DEF PanelInv, OwnReplies, Fresh, Posts, Panel!StoredIn
<1>4. \A i : i # e.id => (Withdrawn(i) => Withdrawn(i)') /\ (Present(i) => Present(i)')
  BY <1>1 DEF Withdrawn, Present
<1>5. GoneReplies => GoneReplies'
  BY <1>1, <1>4, GoneStays
<1>6. KeptReplies => KeptReplies'
  BY <1>1, <1>4, KeptStays DEF Panel!StoredIn
<1> QED BY <1>1, <1>2, <1>3, <1>5, <1>6 DEF PanelInv

(* A live reply: shown if its thread is open, and in any case no longer     *)
(* announced, or announced once more.                                       *)
LEMMA PanelReplies ==
  ASSUME PanelInv, NEW e \in replyTodo, NEW again \in BOOLEAN, Panel!NewReply(e, again)
  PROVE  PanelInv'
<1> DEFINE i == e.id
           isOpen == activeThreadId = replyLog[i]
           late == i \in repliesDeleted /\ ~Withdrawn(i)
<1>1. /\ e.type = "new" /\ i \in Posts
      /\ replyTodo \ {e} \subseteq replyTodo' /\ replyTodo' \subseteq replyTodo
      /\ replies' = IF isOpen THEN replies \cup {i} ELSE replies
      /\ repliesRaced' = IF late THEN repliesRaced \cup {i} ELSE repliesRaced
      /\ UNCHANGED <<replyLog, repliesDeleted, inRoom, activeThreadId, oldestReplyId,
                     repliesError, replyCalls, repliesCrossed>>
  BY DEF Panel!NewReply, Withdrawn, PanelInv, PanelTypes
<1> HIDE DEF i, isOpen, late
<1>2. PanelTypes'
  BY <1>1 DEF PanelInv, PanelTypes, Posts
<1>3. OwnReplies'
  BY <1>1 DEF PanelInv, OwnReplies, Fresh, Posts, Panel!StoredIn, isOpen
<1>4. \A j : Withdrawn(j) => Withdrawn(j)'
  BY <1>1 DEF Withdrawn
<1>5. \A j : Present(j) => Present(j)' \/ (j = i /\ ~isOpen)
  BY <1>1 DEF Present, i
<1>6. GoneReplies => GoneReplies'
  <2>1. \A j \in repliesDeleted' \ repliesRaced' :
          \/ Withdrawn(j)'
          \/ j \in repliesDeleted \ repliesRaced /\ (j \in replies' => j \in replies)
    BY <1>1, <1>4 DEF late
  <2> QED BY <1>1, <1>4, <2>1, GoneStays
<1>7. KeptReplies => KeptReplies'
  <2>1. \A j \in Panel!StoredIn(activeThreadId) : j = i => isOpen
    BY DEF Panel!StoredIn, isOpen
  <2>2. Panel!StoredIn(activeThreadId)' = Panel!StoredIn(activeThreadId)
    BY <1>1 DEF Panel!StoredIn
  <2> QED BY <1>1, <1>5, <2>1, <2>2, KeptStays
<1> QED BY <1>1, <1>2, <1>3, <1>6, <1>7 DEF PanelInv

LEMMA PanelWithdraws ==
  ASSUME PanelInv, NEW e \in replyTodo, Panel!ReplyDeleted(e)
  PROVE  PanelInv'
<1> DEFINE i == e.id
           coming == \E c \in replyCalls : c.answered /\ i \in c.page
<1>1. /\ e.type = "deleted" /\ i \in repliesDeleted
      /\ replyTodo' = replyTodo \ {e} /\ replies' = replies \ {i}
      /\ repliesRaced' = IF coming THEN repliesRaced \cup {i} ELSE repliesRaced
      /\ UNCHANGED <<replyLog, repliesDeleted, inRoom, activeThreadId, oldestReplyId,
                     repliesError, replyCalls, repliesCrossed>>
  BY DEF Panel!ReplyDeleted, Panel!OnItsWay, PanelInv, PanelTypes
<1>2. PanelTypes'
  BY <1>1 DEF PanelInv, PanelTypes, Posts
<1>3. OwnReplies'
  BY <1>1 DEF PanelInv, OwnReplies, Fresh, Posts, Panel!StoredIn
<1>4. \A j : j # i => (Withdrawn(j) => Withdrawn(j)')
  BY <1>1 DEF Withdrawn
<1>5. \A j : j # i => (Present(j) => Present(j)')
  BY <1>1 DEF Present
<1>6. GoneReplies => GoneReplies'
  <2>1. i \in repliesRaced' \/ (i \notin replies' /\ \A c \in replyCalls : i \notin c.page)
    BY <1>1 DEF PanelInv, OwnReplies
  <2> QED BY <1>1, <1>4, <2>1, GoneStays
<1>7. KeptReplies => KeptReplies'
  BY <1>1, <1>5, KeptStays DEF Panel!StoredIn
<1> QED BY <1>1, <1>2, <1>3, <1>6, <1>7 DEF PanelInv

LEMMA PanelReads ==
  ASSUME PanelInv, NEW c \in replyCalls, Panel!ServerReads(c)
  PROVE  PanelInv'
<1> DEFINE found == {i \in Panel!StoredIn(c.thread) \ repliesDeleted : c.before = 0 \/ i < c.before}
           page == IF c.kind = "threads" THEN {} ELSE Panel!Newest(found)
           counts == IF c.kind = "threads"
                     THEN [t \in Threads |-> Panel!Cardinality(Panel!StoredIn(t))] ELSE c.counts
           d == [c EXCEPT !.answered = TRUE, !.page = page, !.counts = counts]
<1>1. /\ replyCalls' = (replyCalls \ {c}) \cup {d} /\ ~c.answered
      /\ UNCHANGED <<replyLog, repliesDeleted, replyTodo, inRoom, activeThreadId, replies,
                     oldestReplyId, repliesError, repliesRaced, repliesCrossed>>
  BY DEF Panel!ServerReads, Panel!server, Panel!panel, Panel!history
<1>2. c \in PanelCall /\ Len(replyLog) \in Nat
  BY DEF PanelInv, PanelTypes
<1>3. \A t : Panel!StoredIn(t) \subseteq Posts
  BY DEF Panel!StoredIn, Posts
<1>4. /\ page \subseteq Panel!StoredIn(c.thread) \ repliesDeleted
      /\ c.kind = "threads" => page = {}
      /\ c.kind # "threads" => \A i \in found \ page : page # {} /\ \A j \in page : i < j
  <2>1. found \subseteq 1..Len(replyLog)
    BY <1>3 DEF Posts
  <2>2. page \subseteq found
    BY <1>2, <2>1, PanelNewest
  <2>3. c.kind # "threads" => \A i \in found \ page : page # {} /\ \A j \in page : i < j
    BY <1>2, <2>1, PanelNewest
  <2> HIDE DEF page
  <2>4. c.kind = "threads" => page = {}
    BY DEF page
  <2> QED BY <2>2, <2>3, <2>4
<1>5. counts \in [Threads -> Nat]
  <2>1. \A t : Panel!Cardinality(Panel!StoredIn(t)) \in Nat
    <3> TAKE t
    <3>1. IsFiniteSet(1..Len(replyLog)) /\ Panel!StoredIn(t) \in SUBSET (1..Len(replyLog))
      BY <1>2, FS_Interval DEF Panel!StoredIn
    <3> QED BY <3>1, FS_Subset, FS_CardinalityType, SameCardinality
  <2> QED BY <1>2, <2>1 DEF PanelCall
<1>6. /\ d \in PanelCall /\ d.kind = c.kind /\ d.thread = c.thread /\ d.before = c.before
      /\ d.old = c.old /\ d.answered /\ d.page = page
  <2> HIDE DEF page, counts
  <2>1. page \in SUBSET Nat
    BY <1>3, <1>4 DEF Posts
  <2> QED BY <1>2, <1>5, <2>1 DEF PanelCall
<1> HIDE DEF page, counts, d
<1>7. PanelTypes'
  BY <1>1, <1>6 DEF PanelInv, PanelTypes, Posts
<1>8. OwnReplies'
  <2>1. d.page \subseteq Panel!StoredIn(d.thread)
    BY <1>4, <1>6
  <2>2. Fresh(d) => /\ d.thread = activeThreadId /\ activeThreadId \in Threads
                    /\ (d.kind = "replies" <=> d.before = 0)
    BY <1>6 DEF PanelInv, OwnReplies, Fresh
  <2>3. \A t : Panel!StoredIn(t)' = Panel!StoredIn(t)
    BY <1>1 DEF Panel!StoredIn
  <2>4. d.kind = "threads" => d.page = {}
    BY <1>4, <1>6
  <2> QED BY <1>1, <1>6, <2>1, <2>2, <2>3, <2>4 DEF PanelInv, OwnReplies, Fresh, Posts
<1>9. GoneReplies => GoneReplies'
  BY <1>1, <1>4, <1>6 DEF GoneReplies, Fresh, Withdrawn
<1>10. ASSUME KeptReplies PROVE KeptReplies'
  <2> SUFFICES ASSUME NEW i \in Panel!StoredIn(activeThreadId),
                      i \notin repliesDeleted \cup repliesRaced
               PROVE  Reaches(i)'
    BY <1>1 DEF KeptReplies, Panel!StoredIn
  <2>1. Reaches(i)
    BY <1>10 DEF KeptReplies
  <2>2. Present(i)' <=> Present(i)
    BY <1>1 DEF Present
  <2>3. (\E a \in replyCalls : Fresh(a) /\ a.kind = "replies") =>
          \E a \in replyCalls' : Fresh(a)' /\ a.kind = "replies"
    BY <1>1, <1>6 DEF Fresh
  <2>4. Fresh(d) => /\ d.before # 0 /\ i >= d.before => Present(i)
                    /\ \/ Present(i) \/ i \in d.page
                       \/ d.page # {} /\ \A j \in d.page : i < j
    <3> SUFFICES ASSUME Fresh(d) PROVE /\ d.before # 0 /\ i >= d.before => Present(i)
                                       /\ \/ Present(i) \/ i \in d.page
                                          \/ d.page # {} /\ \A j \in d.page : i < j
      OBVIOUS
    <3>1. Fresh(c) /\ c.kind # "threads" /\ c.thread = activeThreadId
      BY <1>6 DEF Fresh, PanelInv, OwnReplies
    <3>2. c.before # 0 /\ i >= c.before => Present(i)
      BY <2>1, <3>1 DEF Reaches
    <3>3. i \in Nat /\ c.before \in Nat
      BY <1>2, <1>3 DEF Posts, PanelCall
    <3>4. i \in found \/ Present(i)
      BY <3>1, <3>2, <3>3
    <3> QED BY <1>4, <1>6, <3>1, <3>2, <3>4
  <2> HIDE DEF Present
  <2>5. \A a \in replyCalls' : Fresh(a)' =>
          /\ a.before # 0 /\ i >= a.before => Present(i)
          /\ a.answered => \/ Present(i) \/ i \in a.page
                           \/ a.page # {} /\ \A j \in a.page : i < j
    BY <1>1, <2>1, <2>4 DEF Reaches, Fresh
  <2>6. oldestReplyId' = oldestReplyId /\ repliesError' = repliesError
    BY <1>1
  <2> QED BY <2>1, <2>2, <2>3, <2>5, <2>6 DEF Reaches
<1> QED BY <1>1, <1>7, <1>8, <1>9, <1>10 DEF PanelInv

(* A call of the open thread, asked for since it was opened, is the only    *)
(* one that may put a page into it; any other one is noticed.               *)
LEMMA PanelEnds ==
  ASSUME PanelInv, NEW c \in replyCalls, Panel!Ended(c)
  PROVE  /\ replyCalls' = replyCalls \ {c}
         /\ UNCHANGED <<replyLog, repliesDeleted, replyTodo, inRoom, activeThreadId, repliesRaced>>
         /\ repliesCrossed => repliesCrossed'
         /\ Panel!IsCurrent(c) /\ c.kind # "threads" /\ ~repliesCrossed' => Fresh(c)
         /\ Fresh(c) => Panel!IsCurrent(c)
         /\ c \in PanelCall
<1>1. /\ replyCalls' = replyCalls \ {c}
      /\ UNCHANGED <<replyLog, repliesDeleted, replyTodo, inRoom, activeThreadId, repliesRaced>>
      /\ repliesCrossed' = (repliesCrossed \/ (c.kind # "threads" /\ Panel!IsCurrent(c) /\ c.old))
  BY DEF Panel!Ended, Panel!server
<1>2. Fresh(c) => Panel!IsCurrent(c)
  BY PanelAssumption DEF PanelInv, OwnReplies, PanelTypes, Panel!IsCurrent, Panel!Configured
<1>3. c \in PanelCall
  BY DEF PanelInv, PanelTypes
<1> QED BY <1>1, <1>2, <1>3 DEF Fresh

LEMMA PanelFails ==
  ASSUME PanelInv, NEW c \in replyCalls, Panel!CallFails(c)
  PROVE  PanelInv'
<1>1. /\ Panel!Ended(c) /\ UNCHANGED <<replies, oldestReplyId>>
      /\ repliesError' = (repliesError \/ (c.kind = "replies" /\ Panel!IsCurrent(c)))
  BY DEF Panel!CallFails
<1>2. /\ replyCalls' = replyCalls \ {c}
      /\ UNCHANGED <<replyLog, repliesDeleted, replyTodo, inRoom, activeThreadId, repliesRaced>>
      /\ repliesCrossed => repliesCrossed'
      /\ Fresh(c) => Panel!IsCurrent(c)
  BY <1>1, PanelEnds
<1>3. PanelTypes'
  BY <1>1, <1>2 DEF PanelInv, PanelTypes, Posts
<1>4. OwnReplies'
  BY <1>1, <1>2 DEF PanelInv, OwnReplies, Fresh, Posts, Panel!StoredIn
<1>5. GoneReplies => GoneReplies'
  BY <1>1, <1>2 DEF GoneReplies, Fresh, Withdrawn
<1>6. ASSUME KeptReplies PROVE KeptReplies'
  <2> SUFFICES ASSUME NEW i \in Panel!StoredIn(activeThreadId),
                      i \notin repliesDeleted \cup repliesRaced
               PROVE  Reaches(i)'
    BY <1>2 DEF KeptReplies, Panel!StoredIn
  <2>1. Reaches(i)
    BY <1>6 DEF KeptReplies
  <2>2. Present(i)' <=> Present(i)
    BY <1>1, <1>2 DEF Present
  <2>3. repliesError \/ (\E a \in replyCalls : Fresh(a) /\ a.kind = "replies") =>
          repliesError' \/ (\E a \in replyCalls' : Fresh(a) /\ a.kind = "replies")
    BY <1>1, <1>2
  <2> HIDE DEF Present
  <2> QED BY <1>1, <1>2, <2>1, <2>2, <2>3 DEF Reaches, Fresh
<1> QED BY <1>2, <1>3, <1>4, <1>5, <1>6 DEF PanelInv

(* The page of a fresh call joins what is shown, and its oldest reply       *)
(* becomes the oldest that is known.                                        *)
LEMMA PanelLands ==
  ASSUME PanelInv, NEW c \in replyCalls, Panel!PageArrives(c)
  PROVE  PanelInv'
<1> DEFINE lands == Panel!IsCurrent(c) /\ c.kind # "threads"
<1>1. /\ Panel!Ended(c) /\ c.answered /\ repliesError' = repliesError
      /\ replies' = IF lands THEN replies \cup c.page ELSE replies
      /\ oldestReplyId' = IF lands /\ c.page # {} THEN Panel!Min(c.page) ELSE oldestReplyId
  BY DEF Panel!PageArrives, Panel!Merged
<1>2. /\ replyCalls' = replyCalls \ {c}
      /\ UNCHANGED <<replyLog, repliesDeleted, replyTodo, inRoom, activeThreadId, repliesRaced>>
      /\ repliesCrossed => repliesCrossed'
      /\ lands /\ ~repliesCrossed' => Fresh(c)
      /\ Fresh(c) => lands
      /\ c \in PanelCall
  BY <1>1, PanelEnds DEF Fresh
<1>3. lands => c.thread = activeThreadId
  BY DEF Panel!IsCurrent
<1>4. /\ c.page \subseteq Panel!StoredIn(c.thread) /\ c.page \in SUBSET Nat
      /\ Panel!StoredIn(c.thread) \subseteq Posts
      /\ \A i \in Panel!StoredIn(c.thread) : replyLog[i] = c.thread
      /\ 0 \notin c.page
  BY <1>2 DEF PanelInv, OwnReplies, PanelCall, Panel!StoredIn, Posts
<1>5. c.page # {} => /\ Panel!Min(c.page) \in c.page
                     /\ \A x \in c.page : Panel!Min(c.page) <= x
  BY <1>4, PanelMin
<1> HIDE DEF lands
<1>6. PanelTypes'
  BY <1>1, <1>2, <1>4, <1>5 DEF PanelInv, PanelTypes, Posts
<1>7. OwnReplies'
  <2>1. replies' \subseteq Posts /\ \A i \in replies' : replyLog[i] = activeThreadId
    BY <1>1, <1>3, <1>4 DEF PanelInv, OwnReplies
  <2> QED BY <1>2, <2>1 DEF PanelInv, OwnReplies, Fresh, Posts, Panel!StoredIn
<1>8. ASSUME GoneReplies, ~repliesCrossed' PROVE GoneReplies'
  BY <1>1, <1>2, <1>8 DEF GoneReplies, Fresh, Withdrawn
<1>9. ASSUME KeptReplies, ~repliesCrossed' PROVE KeptReplies'
  <2> SUFFICES ASSUME NEW i \in Panel!StoredIn(activeThreadId),
                      i \notin repliesDeleted \cup repliesRaced
               PROVE  Reaches(i)'
    BY <1>2 DEF KeptReplies, Panel!StoredIn
  <2>1. Reaches(i)
    BY <1>9 DEF KeptReplies
  <2>2. Present(i) => Present(i)'
    BY <1>1, <1>2 DEF Present
  <2>3. Fresh(c) /\ i \in c.page => Present(i)'
    BY <1>1, <1>2 DEF Present
  <2>4. i \in Nat
    BY DEF Panel!StoredIn
  <2>5. oldestReplyId' # 0 /\ i >= oldestReplyId' => Present(i)'
    <3>1. CASE Fresh(c) /\ c.page # {}
      <4>1. oldestReplyId' = Panel!Min(c.page) /\ Panel!Min(c.page) \in Nat
        BY <1>1, <1>2, <1>4, <1>5, <3>1
      <4>2. \/ Present(i) \/ i \in c.page
            \/ \A j \in c.page : i < j
        BY <1>1, <2>1, <3>1 DEF Reaches
      <4> QED BY <1>5, <2>2, <2>3, <2>4, <3>1, <4>1, <4>2
    <3>2. CASE ~(Fresh(c) /\ c.page # {})
      <4>1. oldestReplyId' = oldestReplyId
        BY <1>1, <1>2, <1>9, <3>2
      <4> QED BY <2>1, <2>2, <4>1 DEF Reaches
    <3> QED BY <3>1, <3>2
  <2>6. ASSUME oldestReplyId' = 0
        PROVE  Present(i)' \/ repliesError' \/ \E d \in replyCalls' : Fresh(d)' /\ d.kind = "replies"
    <3>1. oldestReplyId = 0 /\ (Fresh(c) => c.page = {})
      BY <1>1, <1>2, <1>4, <1>5, <1>9, <2>6
    <3>2. Fresh(c) => Present(i)
      BY <1>1, <2>1, <3>1 DEF Reaches
    <3> QED BY <1>1, <1>2, <2>1, <2>2, <3>1, <3>2 DEF Reaches, Fresh
  <2>7. \A d \in replyCalls' : Fresh(d)' => 
           /\ d.before # 0 /\ i >= d.before => Present(i)'
           /\ d.answered => \/ Present(i)' \/ i \in d.page
                            \/ d.page # {} /\ \A j \in d.page : i < j
    <3> HIDE DEF Present
    <3> QED BY <1>2, <2>1, <2>2 DEF Reaches, Fresh
  <2> HIDE DEF Present
  <2> QED BY <2>5, <2>6, <2>7 DEF Reaches
<1> QED BY <1>2, <1>6, <1>7, <1>8, <1>9 DEF PanelInv

LEMMA PanelStays == PanelInv /\ [Panel!Next]_panelVars => PanelInv'
<1> SUFFICES ASSUME PanelInv, [Panel!Next]_panelVars PROVE PanelInv'
  OBVIOUS
<1>1. CASE UNCHANGED panelVars
  BY <1>1 DEF panelVars, PanelInv, PanelTypes, OwnReplies, GoneReplies, KeptReplies, Reaches,
              Posts, Fresh, Present, Withdrawn, Panel!StoredIn
<1>2. CASE \E t \in Threads : Panel!Store(t)
  BY <1>2, PanelStores
<1>3. CASE \E i \in Posts : Panel!Delete(i)
  BY <1>3, PanelDeletes
<1>4. CASE \E e \in replyTodo :
             \/ Panel!AnnouncementLost(e) \/ Panel!ReplyDeleted(e)
             \/ \E again \in BOOLEAN : Panel!NewReply(e, again)
  BY <1>4, PanelLoses, PanelWithdraws, PanelReplies
<1>5. CASE \E c \in replyCalls :
             Panel!ServerReads(c) \/ Panel!PageArrives(c) \/ Panel!CallFails(c)
  BY <1>5, PanelReads, PanelLands, PanelFails
<1> QED BY <1>1, <1>2, <1>3, <1>4, <1>5, PanelAsks, PanelSwitches DEF Panel!Next, Posts

LEMMA PanelHolds == RoomSpec => []PanelInv
<1>1. RoomInit => PanelInv
  BY PanelStart DEF RoomInit
<1>2. PanelInv /\ [RoomNext]_<<store, vars, panelVars, inboxVars>> => PanelInv'
  BY PanelStays DEF RoomNext
<1> QED BY <1>1, <1>2, PTL DEF RoomSpec

(* The open thread shows its own replies only, and in the end exactly those *)
(* that are stored and not deleted from the oldest one fetched on, for any  *)
(* number of threads, replies and calls (threadStore).                      *)
THEOREM ThreadsShowTheirReplies == RoomSpec => []RepliesAreExact
<1> SUFFICES ASSUME PanelInv PROVE RepliesAreExact
  BY PanelHolds, PTL
<1>1. \A i \in replies : replyLog[i] = activeThreadId
  BY DEF PanelInv, OwnReplies
<1>2. ASSUME Panel!Settled, ~repliesCrossed, activeThreadId # NoThread,
             NEW i \in Panel!StoredIn(activeThreadId) \ repliesRaced, i >= oldestReplyId
      PROVE  i \in replies <=> i \notin repliesDeleted
  <2>1. replyTodo = {} /\ ~repliesError
    BY <1>2 DEF Panel!Settled
  <2>2. \A c \in replyCalls : ~Fresh(c)
    BY <1>2 DEF Panel!Settled, PanelInv, OwnReplies, PanelTypes, Panel!IsCurrent, Fresh
  <2>3. i \in repliesDeleted => i \notin replies
    BY <1>2, <2>1 DEF PanelInv, GoneReplies, Withdrawn
  <2>4. i \notin repliesDeleted => i \in replies
    BY <1>2, <2>1, <2>2 DEF PanelInv, KeptReplies, Reaches, Present
  <2> QED BY <2>3, <2>4
<1> QED BY <1>1, <1>2 DEF RepliesAreExact, Panel!RepliesAreExact

----------------------------------------------------------------------------
(* The inbox *)

LEMMA MailConstants ==
  /\ NoUser \notin Users /\ MaxShown \in Nat /\ MaxItems \in Nat
  /\ IsFiniteSet(Users) /\ IsFiniteSet(Mail!Items)
  /\ \A i \in Mail!Items : i[1] \in Nat /\ i[1] <= MaxItems
<1>1. NoUser \notin Users /\ MaxShown \in Nat /\ MaxItems \in Nat /\ IsFiniteSet(Users)
  BY MailAssumption DEF Mail!Configured, IsFiniteSet, Mail!IsFiniteSet
<1>2. IsFiniteSet(1..MaxItems)
  BY <1>1, FS_Interval
<1>3. IsFiniteSet(Mail!Items)
  BY <1>1, <1>2, FS_Product DEF Mail!Items
<1>4. \A i \in Mail!Items : i[1] \in Nat /\ i[1] <= MaxItems
  BY <1>1 DEF Mail!Items
<1> QED BY <1>1, <1>3, <1>4

LEMMA ItemSets ==
  ASSUME NEW S, S \subseteq Mail!Items
  PROVE  IsFiniteSet(S) /\ Cardinality(S) \in Nat
BY MailConstants, FS_Subset, FS_CardinalityType

LEMMA NewestItem ==
  ASSUME NEW S, S \subseteq Mail!Items, S # {}
  PROVE  \E m \in S : \A x \in S : x[1] <= m[1]
<1> DEFINE T == {x[1] : x \in S}
<1>1. \A n \in T : n \in Nat /\ n <= MaxItems
  BY MailConstants
<1>2. T # {}
  OBVIOUS
<1> HIDE DEF T
<1>3. PICK n \in T : \A k \in T : k <= n
  BY <1>1, <1>2, MailConstants, GreatestElement
<1> QED BY <1>3 DEF T

LEMMA NewestOfSet ==
  ASSUME NEW S, S \subseteq Mail!Items
  PROVE  /\ Mail!Newest(S) \subseteq S
         /\ Mail!Newest(S) = {i \in S : Cardinality({j \in S : j[1] > i[1]}) < MaxShown}
BY SameCardinality DEF Mail!Newest

(* Items that are not among the newest of a part are not among those of the *)
(* whole: the newest items may be taken step by step.                       *)
LEMMA NewestStepByStep ==
  ASSUME NEW A, NEW B, A \subseteq Mail!Items, B \subseteq Mail!Items
  PROVE  Mail!Newest(Mail!Newest(A) \cup B) = Mail!Newest(A \cup B)
<1> DEFINE Over(S, i) == {j \in S : j[1] > i[1]}
           N == Mail!Newest(A)
           C == A \cup B
           D == N \cup B
<1>1. N \subseteq A /\ N = {i \in A : Cardinality(Over(A, i)) < MaxShown}
  BY NewestOfSet
<1>2. Mail!Newest(C) = {i \in C : Cardinality(Over(C, i)) < MaxShown}
  BY NewestOfSet
<1>3. D \subseteq Mail!Items
  BY <1>1
<1>4. Mail!Newest(D) = {i \in D : Cardinality(Over(D, i)) < MaxShown}
  <2> HIDE DEF D
  <2> QED BY <1>3, NewestOfSet
<1>5. ASSUME NEW S, NEW T, S \subseteq T, T \subseteq Mail!Items, NEW i
      PROVE  /\ Cardinality(Over(S, i)) <= Cardinality(Over(T, i))
             /\ Cardinality(Over(S, i)) \in Nat /\ Cardinality(Over(T, i)) \in Nat
  <2>1. Over(S, i) \in SUBSET Over(T, i) /\ Over(T, i) \subseteq Mail!Items
    BY <1>5
  <2> HIDE DEF Over
  <2>2. IsFiniteSet(Over(T, i)) /\ Cardinality(Over(T, i)) \in Nat
    BY <2>1, ItemSets
  <2> QED BY <2>1, <2>2, FS_Subset, FS_CardinalityType
<1> HIDE DEF Over, N
<1>6. MaxShown \in Nat /\ \A i \in Mail!Items : i[1] \in Nat
  BY MailConstants
<1>7. ASSUME NEW i \in Mail!Newest(C) PROVE i \in Mail!Newest(D)
  <2>1. i \in C /\ Cardinality(Over(C, i)) < MaxShown
    BY <1>2
  <2>2. Cardinality(Over(A, i)) < MaxShown /\ Cardinality(Over(D, i)) < MaxShown
    BY <1>1, <1>5, <1>6, <2>1
  <2> QED BY <1>1, <1>4, <2>1, <2>2
<1>8. ASSUME NEW i \in Mail!Newest(D), i \notin Mail!Newest(C) PROVE FALSE
  <2>1. i \in D /\ Cardinality(Over(D, i)) < MaxShown /\ i \in Mail!Items
    BY <1>3, <1>4
  <2>2. ~(Cardinality(Over(C, i)) < MaxShown)
    BY <1>1, <1>2, <1>8, <2>1
  <2>3. PICK j \in A \ N : j[1] > i[1]
    <3>1. Over(C, i) # Over(D, i)
      BY <2>1, <2>2
    <3>2. Over(D, i) \subseteq Over(C, i)
      BY <1>1 DEF Over
    <3>3. PICK j \in C \ D : j[1] > i[1]
      BY <3>1, <3>2 DEF Over
    <3> QED BY <3>3
  <2>4. PICK m \in A \ N : \A x \in A \ N : x[1] <= m[1]
    BY <2>3, NewestItem
  <2>5. ~(Cardinality(Over(A, m)) < MaxShown)
    BY <1>1, <2>4
  <2>6. i[1] \in Nat /\ j[1] \in Nat /\ m[1] \in Nat /\ m[1] > i[1]
    BY <1>6, <2>1, <2>3, <2>4
  <2>7. Over(A, m) \subseteq Over(D, i)
    <3> SUFFICES ASSUME NEW k \in A, k[1] > m[1] PROVE k \in N /\ k[1] > i[1]
      BY DEF Over
    <3>1. k[1] \in Nat
      BY <1>6
    <3> QED BY <2>4, <2>6, <3>1
  <2>8. /\ Cardinality(Over(A, m)) <= Cardinality(Over(D, i))
        /\ Cardinality(Over(A, m)) \in Nat /\ Cardinality(Over(D, i)) \in Nat
    <3>1. Over(D, i) \subseteq Mail!Items
      BY <1>3 DEF Over
    <3>2. Over(A, m) \in SUBSET Over(D, i)
      BY <2>7
    <3>3. Over(A, m) \subseteq Mail!Items
      BY <2>7, <3>1
    <3> QED BY <3>1, <3>2, <3>3, ItemSets, FS_Subset
  <2> QED BY <1>6, <2>1, <2>5, <2>8
<1>9. Mail!Newest(D) = Mail!Newest(C)
  <2> HIDE DEF C, D
  <2> QED BY <1>7, <1>8
<1> QED BY <1>9 DEF N

LEMMA NewestAgain ==
  ASSUME NEW A, A \subseteq Mail!Items
  PROVE  Mail!Newest(Mail!Newest(A)) = Mail!Newest(A)
<1>1. Mail!Newest(Mail!Newest(A) \cup {}) = Mail!Newest(A \cup {})
  BY NewestStepByStep
<1> QED BY <1>1

LEMMA MailSets ==
  ASSUME MailTypes
  PROVE  /\ Mail!Created \subseteq Mail!Items /\ Mail!Listed(user) \subseteq Mail!Items
         /\ announced \subseteq Mail!Items /\ Pending \subseteq Mail!Listed(user)
BY DEF MailTypes, Mail!Created, Mail!Listed, Mail!ItemsOf, Pending

----------------------------------------------------------------------------
(* What a step of the server or of the socket does to an exact set. *)

LEMMA NewsKeepsExact ==
  ASSUME MailTypes, NEW R \in (SUBSET Users) \ {{}}, Mail!Notify(R), MailTypes',
         NEW S, NEW U, Exact(S, U)
  PROVE  Exact(S, U)'
<1> DEFINE n == Len(sent) + 1
           N == {i \in {n} \X R : i[2] = user} \ archived
<1>1. /\ sent' = Append(sent, R) /\ announced' = announced \cup ({n} \X R)
      /\ UNCHANGED <<isRead, archived, user>>
  BY DEF Mail!Notify
<1>2. sent' \in Seq((SUBSET Users) \ {{}}) /\ Len(sent') = n /\ n \in Nat /\ n <= MaxItems
      /\ sent'[n] = R /\ \A k \in 1..Len(sent) : sent'[k] = sent[k]
  BY <1>1 DEF MailTypes
<1>3. Mail!Created' = Mail!Created \cup ({n} \X R)
  BY <1>2, MailConstants DEF Mail!Created, Mail!Items, MailTypes
<1>4. Mail!Listed(user)' = Mail!Listed(user) \cup N
  BY <1>1, <1>3 DEF Mail!Listed, Mail!ItemsOf
<1>5. Pending' = Pending \cup N
  BY <1>1 DEF Pending
<1>6. N \subseteq Mail!Items
  BY <1>2 DEF Mail!Items
<1> HIDE DEF N
<1>7. S \subseteq Mail!Items /\ S \cup Pending \subseteq Mail!Items
  BY MailSets DEF Exact
<1>8. Mail!Newest((S \cup Pending) \cup N) = Mail!Newest(Mail!Newest(S \cup Pending) \cup N)
  BY <1>6, <1>7, NewestStepByStep
<1>9. Mail!Newest(Mail!Listed(user) \cup N) = Mail!Newest(Mail!Newest(Mail!Listed(user)) \cup N)
  BY <1>6, MailSets, NewestStepByStep
<1>10. Mail!Newest(S \cup Pending') = Mail!Newest(Mail!Listed(user)')
  <2>1. S \cup Pending' = (S \cup Pending) \cup N
    BY <1>5
  <2> QED BY <1>4, <1>8, <1>9, <2>1 DEF Exact
<1>11. S \subseteq Mail!Listed(user)'
  BY <1>4 DEF Exact
<1> QED BY <1>1, <1>10, <1>11 DEF Exact, Mail!Newest

(* An announcement goes that does not matter any more. *)
LEMMA LossKeepsExact ==
  ASSUME NEW i \in announced, announced' = announced \ {i}, UNCHANGED <<sent, isRead, archived, user>>,
         NEW S, NEW U, Exact(S, U), i[2] = user => i \in S
  PROVE  Exact(S, U)'
<1>1. S \cup Pending' = S \cup Pending
  BY DEF Pending
<1>2. Mail!Listed(user)' = Mail!Listed(user)
  BY DEF Mail!Listed, Mail!ItemsOf, Mail!Created
<1> QED BY <1>1, <1>2 DEF Exact, Mail!Newest

(* It is received, and its item joins the set. *)
LEMMA ArrivalKeepsExact ==
  ASSUME MailTypes, NEW i \in announced, i[2] = user, i \notin isRead \cup archived,
         announced' = announced \ {i}, UNCHANGED <<sent, isRead, archived, user>>,
         NEW S, NEW U, Exact(S, U), NEW S2, S2 = Mail!Newest(S \cup {i}),
         NEW U2, U2 = (U \cup {i}) \cap S2
  PROVE  Exact(S2, U2)'
<1>1. /\ Mail!Listed(user)' = Mail!Listed(user)
      /\ i \in Mail!Listed(user) /\ S \cup {i} \subseteq Mail!Items
  <2>1. Mail!Listed(user)' = Mail!Listed(user)
    BY DEF Mail!Listed, Mail!ItemsOf, Mail!Created
  <2>2. i \in Mail!Listed(user)
    BY DEF Mail!Listed, Mail!ItemsOf, MailTypes
  <2> QED BY <2>1, <2>2, MailSets DEF Exact
<1>2. S2 \subseteq S \cup {i} /\ Mail!Newest(S2) = S2
  BY <1>1, NewestOfSet, NewestAgain
<1>3. Pending' \subseteq Mail!Items /\ {i} \cup Pending' = Pending
  BY MailSets DEF Pending
<1>4. Mail!Newest(S2 \cup Pending') = Mail!Newest(S \cup Pending)
  <2>1. Mail!Newest(S2 \cup Pending') = Mail!Newest((S \cup {i}) \cup Pending')
    BY <1>1, <1>3, NewestStepByStep
  <2>2. (S \cup {i}) \cup Pending' = S \cup Pending
    BY <1>3
  <2> QED BY <2>1, <2>2
<1>5. S2 \subseteq Mail!Listed(user)
  BY <1>1, <1>2 DEF Exact
<1>6. U2 = S2 \ isRead
  BY <1>2 DEF Exact
<1>7. Mail!Newest(S2 \cup Pending') = Mail!Newest(Mail!Listed(user)')
  BY <1>1, <1>4 DEF Exact
<1> QED BY <1>1, <1>2, <1>5, <1>6, <1>7 DEF Exact

(* A page that is read now is exact. *)
LEMMA PageIsExact ==
  ASSUME MailTypes
  PROVE  Exact(Mail!Newest(Mail!Listed(user)), Mail!Newest(Mail!Listed(user)) \ isRead)
<1> DEFINE L == Mail!Listed(user)
<1>1. L \subseteq Mail!Items /\ Pending \subseteq L
  BY MailSets
<1> HIDE DEF L
<1>2. L \cup Pending = L /\ Mail!Newest(L) \subseteq L
  BY <1>1, NewestOfSet
<1>3. Mail!Newest(Mail!Newest(L)) = Mail!Newest(L)
  BY <1>1, NewestAgain
<1>4. Mail!Newest(Mail!Newest(L) \cup Pending) = Mail!Newest(L)
  BY <1>1, <1>2, NewestStepByStep
<1> QED BY <1>2, <1>3, <1>4 DEF Exact, L

----------------------------------------------------------------------------
(* Requests *)

LEMMA RequestFields ==
  ASSUME NEW r \in Mail!Request, NEW b \in BOOLEAN
  PROVE  LET s == [r EXCEPT !.stale = b] IN
           /\ s \in Mail!Request /\ s.stale = b
           /\ s.kind = r.kind /\ s.as = r.as /\ s.item = r.item /\ s.answered = r.answered
           /\ s.page = r.page /\ s.pageUnread = r.pageUnread
BY DEF Mail!Request

(* The requests of S, those of T marked. *)
Marked(S, T) == {[r EXCEPT !.stale = (r.stale \/ r \in T)] : r \in S}

LEMMA MarkedRequests ==
  ASSUME NEW S, S \subseteq Mail!Request, NEW T
  PROVE  /\ Marked(S, T) \subseteq Mail!Request
         /\ \A x \in Marked(S, T) : \E r \in S :
              /\ x.kind = r.kind /\ x.as = r.as /\ x.answered = r.answered
              /\ x.page = r.page /\ x.pageUnread = r.pageUnread
              /\ x.stale <=> r.stale \/ r \in T
              /\ ~x.stale => x = r
         /\ \A r \in S : \E x \in Marked(S, T) :
              /\ x.kind = r.kind /\ x.as = r.as /\ x.answered = r.answered
              /\ ~x.stale => x = r
<1> DEFINE Of(r) == [r EXCEPT !.stale = (r.stale \/ r \in T)]
<1>1. ASSUME NEW r \in S
      PROVE  /\ Of(r) \in Mail!Request
             /\ Of(r).kind = r.kind /\ Of(r).as = r.as /\ Of(r).answered = r.answered
             /\ Of(r).page = r.page /\ Of(r).pageUnread = r.pageUnread
             /\ Of(r).stale <=> r.stale \/ r \in T
             /\ ~Of(r).stale => Of(r) = r
  <2> DEFINE b == r.stale \/ r \in T
             x == [r EXCEPT !.stale = b]
  <2>1. b \in BOOLEAN /\ r \in Mail!Request
    OBVIOUS
  <2>2. b <=> r.stale \/ r \in T
    OBVIOUS
  <2>3. r.stale \in BOOLEAN
    BY <2>1 DEF Mail!Request
  <2> HIDE DEF b
  <2>4. /\ x \in Mail!Request /\ x.stale = b
        /\ x.kind = r.kind /\ x.as = r.as /\ x.answered = r.answered
        /\ x.page = r.page /\ x.pageUnread = r.pageUnread /\ x.item = r.item
    BY <2>1, RequestFields
  <2>5. ~b => x = r
    <3> SUFFICES ASSUME ~b PROVE x = r
      OBVIOUS
    <3>1. r.stale = b
      BY <2>1, <2>2, <2>3
    <3> QED BY <2>1, <3>1 DEF Mail!Request
  <2>6. x.stale <=> r.stale \/ r \in T
    BY <2>2, <2>4, Zenon
  <2>7. ~x.stale => x = r
    BY <2>4, <2>5
  <2> QED BY <2>4, <2>6, <2>7 DEF b
<1>2. Marked(S, T) = {Of(r) : r \in S}
  BY DEF Marked
<1> HIDE DEF Of
<1>3. Marked(S, T) \subseteq Mail!Request
  BY <1>1, <1>2
<1>4. \A x \in Marked(S, T) : \E r \in S : x = Of(r)
  BY <1>2
<1>5. \A r \in S : Of(r) \in Marked(S, T)
  BY <1>2
<1>6. ASSUME NEW x \in Marked(S, T)
      PROVE  \E r \in S : /\ x.kind = r.kind /\ x.as = r.as /\ x.answered = r.answered
                          /\ x.page = r.page /\ x.pageUnread = r.pageUnread
                          /\ x.stale <=> r.stale \/ r \in T
                          /\ ~x.stale => x = r
  <2>1. PICK r \in S : x = Of(r)
    BY <1>4
  <2> WITNESS r \in S
  <2>2. /\ x.kind = r.kind /\ x.as = r.as /\ x.answered = r.answered
        /\ x.page = r.page /\ x.pageUnread = r.pageUnread
    BY <1>1, <2>1
  <2>3. x.stale <=> r.stale \/ r \in T
    BY <1>1, <2>1, Zenon
  <2>4. ~x.stale => x = r
    BY <1>1, <2>1, Zenon
  <2> QED BY <2>2, <2>3, <2>4
<1>7. \A r \in S : \E x \in Marked(S, T) :
        /\ x.kind = r.kind /\ x.as = r.as /\ x.answered = r.answered
        /\ ~x.stale => x = r
  BY <1>1, <1>5
<1> QED BY <1>3, <1>6, <1>7, Zenon

LEMMA AgedIsMarked ==
  /\ \A S : Mail!Aged(S) = Marked(S, {r \in S : r.kind = "load" /\ r.answered})
  /\ \A i : Mail!AgedBy(i) =
       Marked(requests, {r \in requests : r.kind = "load" /\ r.answered /\ i \notin r.page})
  /\ Mail!Stale(requests, LAMBDA r : TRUE) = Marked(requests, {r \in requests : r.kind = "load"})
BY DEF Mail!Aged, Mail!AgedBy, Mail!Stale, Marked

LEMMA NewRequestType ==
  ASSUME NEW kind \in Mail!Changes \cup {"load"}, NEW u \in Users, NEW i \in Mail!Items \cup {<<>>}
  PROVE  LET r == Mail!NewRequest(kind, u, i) IN
           /\ r \in Mail!Request /\ r.kind = kind /\ r.as = u /\ ~r.answered /\ ~r.stale
BY DEF Mail!NewRequest, Mail!Request

LEMMA Kinds == "load" \notin Mail!Changes
BY DEF Mail!Changes

LEMMA MailStart == Mail!Init => MailInv
<1> SUFFICES ASSUME Mail!Init PROVE MailInv
  OBVIOUS
<1>1. /\ sent = <<>> /\ sent \in Seq((SUBSET Users) \ {{}}) /\ Len(sent) = 0
      /\ announced = {} /\ requests = {} /\ user = NoUser
  BY DEF Mail!Init
<1> QED BY <1>1, MailConstants DEF MailInv, MailTypes, OwnLoads, ExactPages

(* Nothing is claimed while something is under way that a load will fetch,  *)
(* or while nobody is signed in.                                            *)
LEMMA NothingClaimed ==
  ASSUME \/ user = NoUser
         \/ \E r \in requests : \/ r.kind \in Mail!Changes /\ r.answered
                                \/ r.kind = "load" /\ r.as = user /\ ~r.answered
  PROVE  ExactPages
<1>1. CASE user = NoUser \/ \E r \in requests : r.kind \in Mail!Changes /\ r.answered
  BY <1>1 DEF ExactPages, Quiet
<1>2. CASE \E r \in requests : r.kind = "load" /\ r.as = user /\ ~r.answered
  BY <1>2 DEF ExactPages, LoadOf
<1> QED BY <1>1, <1>2

LEMMA MailNews ==
  ASSUME MailInv, NEW R \in (SUBSET Users) \ {{}}, Mail!Notify(R)
  PROVE  MailInv'
<1> DEFINE n == Len(sent) + 1
<1>1. /\ sent' = Append(sent, R) /\ announced' = announced \cup ({n} \X R)
      /\ UNCHANGED <<isRead, archived, user, shown, unreadItems, requests, missed>>
      /\ Cardinality(Mail!Created) + Cardinality(R) <= MaxItems
  BY SameCardinality DEF Mail!Notify, Mail!store
<1>2. sent' \in Seq((SUBSET Users) \ {{}}) /\ Len(sent') = n /\ n \in Nat
      /\ sent'[n] = R /\ \A k \in 1..Len(sent) : sent'[k] = sent[k]
  BY <1>1 DEF MailInv, MailTypes
<1>3. n <= MaxItems
  <2>1. Mail!Created \subseteq Mail!Items
    BY DEF Mail!Created
  <2>2. IsFiniteSet(Mail!Created) /\ Cardinality(Mail!Created) \in Nat
    BY <2>1, ItemSets
  <2>3. Cardinality(R) \in Nat /\ Cardinality(R) # 0
    BY MailConstants, FS_Subset, FS_CardinalityType, FS_EmptySet
  <2>4. Len(sent) <= Cardinality(Mail!Created)
    <3> DEFINE f == [i \in Mail!Created |-> i[1]]
    <3>1. \A i \in Mail!Created : i[1] \in 1..Len(sent)
      BY DEF Mail!Created, Mail!Items
    <3>2. ASSUME NEW k \in 1..Len(sent) PROVE \E i \in Mail!Created : i[1] = k
      <4>1. sent[k] \in (SUBSET Users) \ {{}} /\ k \in 1..MaxItems
        BY MailConstants DEF MailInv, MailTypes
      <4>2. PICK u \in Users : u \in sent[k]
        BY <4>1
      <4>3. <<k, u>> \in Mail!Created
        BY <4>1, <4>2 DEF Mail!Created, Mail!Items
      <4> QED BY <4>3
    <3>3. f \in Surjection(Mail!Created, 1..Len(sent))
      BY <3>1, <3>2 DEF Surjection
    <3>4. Cardinality(1..Len(sent)) <= Cardinality(Mail!Created)
      BY <2>2, <3>3, FS_Surjection
    <3>5. Len(sent) \in Nat
      BY DEF MailInv, MailTypes
    <3> QED BY <3>4, <3>5, FS_Interval
  <2>5. Len(sent) \in Nat
    BY DEF MailInv, MailTypes
  <2> QED BY <1>1, <2>2, <2>3, <2>4, <2>5, MailConstants
<1>4. MailTypes'
  <2>1. Mail!Created \cup ({n} \X R) \subseteq Mail!Created'
    BY <1>2, <1>3, MailConstants DEF Mail!Created, Mail!Items, MailInv, MailTypes
  <2> QED BY <1>1, <1>2, <1>3, <2>1 DEF MailInv, MailTypes
<1>5. OwnLoads'
  BY <1>1 DEF MailInv, OwnLoads
<1>6. \A S, U : Exact(S, U) => Exact(S, U)'
  BY <1>4, NewsKeepsExact DEF MailInv
<1>7. ExactPages'
  <2>1. PICK S, U : S = shown /\ U = unreadItems
    OBVIOUS
  <2>2. Exact(shown, unreadItems) => Exact(shown, unreadItems)'
    BY <1>1, <1>6, <2>1
  <2> HIDE DEF Exact
  <2> QED BY <1>1, <1>6, <2>2 DEF MailInv, ExactPages, Quiet, LoadOf
<1> QED BY <1>4, <1>5, <1>7 DEF MailInv

LEMMA MailServes ==
  ASSUME MailInv, NEW r \in requests, NEW failed \in BOOLEAN, Mail!Serve(r, failed)
  PROVE  MailInv'
<1> DEFINE page == Mail!Newest(Mail!Listed(r.as))
           done == [r EXCEPT !.answered = TRUE]
           d == IF r.kind = "load" THEN [done EXCEPT !.page = page, !.pageUnread = page \ isRead]
                ELSE done
<1>0. r \in Mail!Request /\ Mail!Listed(r.as) \subseteq Mail!Items
  BY DEF MailInv, MailTypes, Mail!Listed, Mail!ItemsOf, Mail!Created
<1>1. /\ requests' = (requests \ {r}) \cup {d} /\ ~r.answered
      /\ UNCHANGED <<sent, announced, user, shown, unreadItems, missed>>
  BY DEF Mail!Serve, Mail!store
<1>2. /\ d \in Mail!Request /\ d.kind = r.kind /\ d.as = r.as /\ d.stale = r.stale /\ d.answered
      /\ r.kind = "load" => d.page = page /\ d.pageUnread = page \ isRead
  <2>1. page \subseteq Mail!Items
    BY <1>0, NewestOfSet
  <2> HIDE DEF page
  <2> QED BY <1>0, <2>1 DEF Mail!Request
<1> HIDE DEF done, d
<1>3. MailTypes'
  BY <1>1, <1>2 DEF MailInv, MailTypes, Mail!Created
<1>4. OwnLoads'
  BY <1>1, <1>2 DEF MailInv, OwnLoads
<1>5. CASE r.kind \in Mail!Changes
  <2>1. d \in requests'
    BY <1>1
  <2>2. ExactPages'
    BY <1>2, <1>5, <2>1, NothingClaimed DEF ExactPages, Quiet
  <2> QED BY <1>3, <1>4, <2>2 DEF MailInv
<1>6. CASE r.kind = "load"
  <2>1. UNCHANGED <<isRead, archived>>
    BY <1>6 DEF Mail!Serve
  <2>2. Quiet' => Quiet
    BY <1>1, <1>6, Kinds DEF Quiet
  <2>3. \A S, U : Exact(S, U)' <=> Exact(S, U)
    BY <1>1, <2>1 DEF Exact, Pending, Mail!Newest, Mail!Listed, Mail!ItemsOf, Mail!Created
  <2>4. CASE r.as = user
    <3>1. Exact(d.page, d.pageUnread)
      BY <1>2, <1>6, <2>4, PageIsExact DEF MailInv
    <3>2. LoadOf(user, requests')
      BY <1>1, <1>2, <1>6, <2>4 DEF LoadOf
    <3>3. \A x \in requests' : x # d => LoadOf(user, requests' \ {x})
      BY <1>1, <1>2, <1>6, <2>4 DEF LoadOf
    <3>4. ASSUME NEW x \in requests', ~LoadOf(user, requests' \ {x})
          PROVE  Exact(x.page, x.pageUnread)'
      <4>1. x = d
        BY <3>3, <3>4
      <4>2. Exact(x.page, x.pageUnread)
        BY <3>1, <4>1
      <4> QED BY <2>3, <4>2
    <3>5. ExactPages'
      <4> HIDE DEF Exact
      <4> QED BY <1>1, <3>2, <3>4 DEF ExactPages
    <3> QED BY <1>3, <1>4, <3>5 DEF MailInv
  <2>5. CASE r.as # user
    <3>1. d.stale
      BY <1>2, <1>6, <2>5 DEF MailInv, OwnLoads
    <3>2. LoadOf(user, requests) => LoadOf(user, requests')
      BY <1>1, <1>2, <2>5 DEF LoadOf
    <3>3. ASSUME NEW x \in requests', ~x.stale, x.kind = "load", x.answered, ~LoadOf(user, requests' \ {x})
          PROVE  x \in requests /\ ~LoadOf(user, requests \ {x})
      BY <1>1, <1>2, <2>5, <3>1, <3>3 DEF LoadOf
    <3>4. Exact(shown, unreadItems) => Exact(shown, unreadItems)'
      <4>1. PICK S, U : S = shown /\ U = unreadItems
        OBVIOUS
      <4> QED BY <1>1, <2>3, <4>1
    <3>5. ExactPages'
      <4> HIDE DEF Exact
      <4> QED BY <1>1, <2>2, <2>3, <3>2, <3>3, <3>4 DEF MailInv, ExactPages
    <3> QED BY <1>3, <1>4, <3>5 DEF MailInv
  <2> QED BY <2>4, <2>5
<1>7. r.kind \in Mail!Changes \/ r.kind = "load"
  BY <1>0 DEF Mail!Request
<1> QED BY <1>5, <1>6, <1>7

(* A request is added, or one goes, that is neither a load of the user who  *)
(* is signed in nor a change that was made.                                 *)
LEMMA MailRequests ==
  ASSUME MailInv, NEW r \in Mail!Request,
         requests' = requests \cup {r} \/ requests' = requests \ {r},
         \/ r.kind \in Mail!Changes /\ ~r.answered
         \/ r.kind = "load" /\ r.stale /\ r.as # user,
         UNCHANGED <<sent, isRead, archived, announced, user, shown, unreadItems>>,
         missed => missed'
  PROVE  MailInv'
<1>1. MailTypes'
  BY DEF MailInv, MailTypes, Mail!Created
<1>2. OwnLoads'
  BY Kinds DEF MailInv, OwnLoads
<1>3. Quiet' <=> Quiet
  BY Kinds DEF Quiet
<1>4. LoadOf(user, requests) <=> LoadOf(user, requests')
  BY Kinds DEF LoadOf
<1>5. ASSUME NEW x \in requests', x.kind = "load", ~x.stale
      PROVE  x \in requests /\ (LoadOf(user, requests \ {x}) <=> LoadOf(user, requests' \ {x}))
  BY <1>5, Kinds DEF LoadOf
<1>6. \A S, U : Exact(S, U) => Exact(S, U)'
  BY DEF Exact, Pending, Mail!Newest, Mail!Listed, Mail!ItemsOf, Mail!Created
<1>7. Exact(shown, unreadItems) => Exact(shown, unreadItems)'
  <2>1. PICK S, U : S = shown /\ U = unreadItems
    OBVIOUS
  <2> QED BY <1>6, <2>1
<1>8. ExactPages'
  <2> HIDE DEF Exact
  <2> QED BY <1>3, <1>4, <1>5, <1>6, <1>7 DEF MailInv, ExactPages
<1> QED BY <1>1, <1>2, <1>8 DEF MailInv

LEMMA MailLogsIn ==
  ASSUME MailInv, NEW u \in Users, Mail!Login(u)
  PROVE  MailInv'
<1> DEFINE new == Mail!NewRequest("load", u, <<>>)
<1>1. /\ user = NoUser /\ user' = u /\ requests' = requests \cup {new}
      /\ UNCHANGED <<sent, announced>>
  BY DEF Mail!Login, Mail!Sends, Mail!server
<1>2. new \in Mail!Request /\ new.kind = "load" /\ new.as = u /\ ~new.answered
  BY NewRequestType
<1> HIDE DEF new
<1>3. MailTypes'
  BY <1>1, <1>2 DEF MailInv, MailTypes, Mail!Created
<1>4. OwnLoads'
  <2>1. \A r \in requests : r.as \in Users
    BY DEF MailInv, MailTypes, Mail!Request
  <2> QED BY <1>1, <1>2, <2>1, MailConstants DEF MailInv, OwnLoads
<1>5. new \in requests'
  BY <1>1
<1>6. ExactPages'
  <2>1. \E r \in requests' : r.kind = "load" /\ r.as = user' /\ ~r.answered
    BY <1>1, <1>2, <1>5
  <2> QED BY <2>1 DEF ExactPages, LoadOf
<1> QED BY <1>3, <1>4, <1>6 DEF MailInv

LEMMA MailLogsOut ==
  ASSUME MailInv, Mail!Logout
  PROVE  MailInv'
<1>1. /\ user' = NoUser /\ UNCHANGED <<sent, announced>>
      /\ requests' = Marked(requests, {r \in requests : r.kind = "load"})
  BY AgedIsMarked DEF Mail!Logout, Mail!server
<1>2. requests \subseteq Mail!Request
  BY DEF MailInv, MailTypes
<1>3. requests' \subseteq Mail!Request /\ \A x \in requests' : x.kind = "load" => x.stale
  BY <1>1, <1>2, MarkedRequests
<1>4. MailTypes' /\ OwnLoads'
  BY <1>1, <1>3 DEF MailInv, MailTypes, OwnLoads, Mail!Created
<1>5. ExactPages'
  BY <1>1 DEF ExactPages
<1> QED BY <1>4, <1>5 DEF MailInv

LEMMA MailChanges ==
  ASSUME MailInv, NEW kind \in Mail!Changes, NEW i \in Mail!Items \cup {<<>>}, Mail!Change(kind, i)
  PROVE  MailInv'
<1> DEFINE new == Mail!NewRequest(kind, user, i)
<1>1. /\ user \in Users /\ requests' = requests \cup {new}
      /\ UNCHANGED <<sent, isRead, archived, announced, user, shown, unreadItems, missed>>
  BY DEF Mail!Change, Mail!Sends, Mail!server, Mail!store, MailInv, MailTypes
<1>2. new \in Mail!Request /\ new.kind \in Mail!Changes /\ ~new.answered
  BY <1>1, NewRequestType
<1> HIDE DEF new
<1> QED BY <1>1, <1>2, MailRequests

LEMMA MailReturns ==
  ASSUME MailInv, NEW r \in requests, Mail!ChangeReturns(r)
  PROVE  MailInv'
<1> DEFINE new == Mail!NewRequest("load", user, <<>>)
<1>1. /\ r.kind \in Mail!Changes /\ UNCHANGED <<sent, announced, user>>
      /\ IF user = NoUser THEN requests' = requests \ {r}
         ELSE requests' = (requests \ {r}) \cup {new}
  BY DEF Mail!ChangeReturns, Mail!Sends, Mail!server
<1>2. CASE user = NoUser
  <2>1. MailTypes' /\ OwnLoads'
    BY <1>1, <1>2 DEF MailInv, MailTypes, OwnLoads, Mail!Created
  <2>2. ExactPages'
    BY <1>1, <1>2 DEF ExactPages
  <2> QED BY <2>1, <2>2 DEF MailInv
<1>3. CASE user # NoUser
  <2>1. /\ new \in Mail!Request /\ new.kind = "load" /\ new.as = user /\ ~new.answered
    BY <1>3, NewRequestType DEF MailInv, MailTypes
  <2> HIDE DEF new
  <2>2. MailTypes' /\ OwnLoads'
    BY <1>1, <1>3, <2>1 DEF MailInv, MailTypes, OwnLoads, Mail!Created
  <2>3. \E x \in requests' : x.kind = "load" /\ x.as = user' /\ ~x.answered
    BY <1>1, <1>3, <2>1
  <2>4. ExactPages'
    BY <2>3 DEF ExactPages, LoadOf
  <2> QED BY <2>2, <2>4 DEF MailInv
<1> QED BY <1>2, <1>3

(* A load lands: its page replaces the store, and other pages are old.      *)
LEMMA MailLoads ==
  ASSUME MailInv, NEW r \in requests, Mail!LoadReturns(r)
  PROVE  MailInv'
<1> DEFINE others == requests \ {r}
           read == {x \in others : x.kind = "load" /\ x.answered}
<1>1. /\ r.kind = "load" /\ r.answered /\ missed' = r.stale
      /\ shown' = Mail!Newest(r.page) /\ unreadItems' = (r.pageUnread \cup (unreadItems \ r.page)) \cap shown'
      /\ requests' = IF r.as = user THEN Marked(others, read) ELSE others
      /\ UNCHANGED <<sent, isRead, archived, announced, user>>
  <2>1. r.page \cup Mail!Kept = r.page
    BY DEF Mail!Kept
  <2> QED BY <2>1, AgedIsMarked DEF Mail!LoadReturns, Mail!server
<1>2. others \subseteq Mail!Request /\ requests' \subseteq Mail!Request
  <2>1. others \subseteq Mail!Request
    BY DEF MailInv, MailTypes
  <2> HIDE DEF others, read
  <2> QED BY <1>1, <2>1, MarkedRequests
<1>3. MailTypes'
  BY <1>1, <1>2 DEF MailInv, MailTypes, Mail!Created
<1>4. \A S, U : Exact(S, U) => Exact(S, U)'
  BY <1>1 DEF Exact, Pending, Mail!Newest, Mail!Listed, Mail!ItemsOf, Mail!Created
<1>5. CASE r.as # user
  <2>1. r.stale /\ requests' = others
    BY <1>1, <1>5 DEF MailInv, OwnLoads
  <2>2. OwnLoads'
    BY <1>1, <2>1 DEF MailInv, OwnLoads
  <2>3. Quiet' => Quiet
    BY <1>1, <2>1, Kinds DEF Quiet
  <2>4. \A x \in requests' : LoadOf(user, requests \ {x}) => LoadOf(user, requests' \ {x})
    BY <1>5, <2>1 DEF LoadOf
  <2>5. ExactPages'
    <3> HIDE DEF Exact
    <3> QED BY <1>1, <1>4, <2>1, <2>3, <2>4 DEF MailInv, ExactPages
  <2> QED BY <1>3, <2>2, <2>5 DEF MailInv
<1>6. CASE r.as = user
  <2> HIDE DEF others, read
  <2>1. \A x \in requests' :
          \E y \in others : /\ x.kind = y.kind /\ x.as = y.as /\ x.answered = y.answered
                            /\ x.stale <=> y.stale \/ y \in read
                            /\ ~x.stale => x = y
    BY <1>1, <1>2, <1>6, MarkedRequests
  <2>2. \A y \in others : \E x \in requests' :
          x.kind = y.kind /\ x.as = y.as /\ x.answered = y.answered
    BY <1>1, <1>2, <1>6, MarkedRequests
  <2>3. OwnLoads'
    BY <1>1, <2>1 DEF MailInv, OwnLoads, others
  <2>4. Quiet' => Quiet
    BY <1>1, <2>2, Kinds DEF Quiet, others
  <2>5. \A x \in requests' : x.kind = "load" /\ x.answered => x.stale
    BY <2>1 DEF read
  <2>6. LoadOf(user, others) => LoadOf(user, requests')
    BY <2>2 DEF LoadOf
  <2>7. ASSUME user # NoUser, Quiet', ~missed', ~LoadOf(user, requests')
        PROVE  Exact(shown, unreadItems)'
    <3>1. Exact(r.page, r.pageUnread)
      BY <1>1, <2>4, <2>6, <2>7 DEF MailInv, ExactPages, others
    <3>2. shown' = r.page /\ unreadItems' = r.pageUnread
      BY <1>1, <3>1 DEF Exact
    <3>3. PICK S, U : S = r.page /\ U = r.pageUnread
      OBVIOUS
    <3>4. Exact(S, U)'
      BY <1>4, <3>1, <3>3
    <3> QED BY <3>2, <3>3, <3>4
  <2>8. ExactPages'
    <3> HIDE DEF Exact
    <3> QED BY <1>1, <2>5, <2>7 DEF ExactPages
  <2> QED BY <1>3, <2>3, <2>8 DEF MailInv
<1> QED BY <1>5, <1>6

LEMMA MailFails ==
  ASSUME MailInv, NEW r \in requests, Mail!RequestFails(r)
  PROVE  MailInv'
<1> DEFINE matters == (r.kind = "load" /\ r.as = user) \/ (r.kind \in Mail!Changes /\ r.answered)
           others == requests \ {r}
           read == {x \in others : x.kind = "load" /\ x.answered}
<1>1. /\ requests' = IF matters THEN Marked(others, read) ELSE others
      /\ missed' = (missed \/ matters)
      /\ UNCHANGED <<sent, isRead, archived, announced, user, shown, unreadItems>>
  BY AgedIsMarked DEF Mail!RequestFails, Mail!server, Mail!store
<1>2. others \subseteq Mail!Request /\ r \in Mail!Request
  BY DEF MailInv, MailTypes
<1>3. CASE ~matters
  <2>1. r.kind \in Mail!Changes \/ r.kind = "load"
    BY <1>2 DEF Mail!Request
  <2>2. \/ r.kind \in Mail!Changes /\ ~r.answered
        \/ r.kind = "load" /\ r.stale /\ r.as # user
    BY <1>3, <2>1 DEF MailInv, OwnLoads
  <2>3. requests' = requests \ {r}
    BY <1>1, <1>3
  <2>4. missed => missed'
    BY <1>1
  <2> QED BY <1>1, <1>2, <2>2, <2>3, <2>4, MailRequests
<1>4. CASE matters
  <2> HIDE DEF others, read
  <2>1. requests' = Marked(others, read) /\ missed'
    BY <1>1, <1>4
  <2>2. requests' \subseteq Mail!Request /\
        \A x \in requests' :
          \E y \in others : /\ x.kind = y.kind /\ x.as = y.as /\ x.answered = y.answered
                            /\ y.stale \/ y \in read => x.stale
    BY <1>2, <2>1, MarkedRequests
  <2>3. MailTypes'
    BY <1>1, <2>2 DEF MailInv, MailTypes, Mail!Created
  <2>a. OwnLoads'
    BY <1>1, <2>2 DEF MailInv, OwnLoads, others
  <2>4. \A x \in requests' : x.kind = "load" /\ x.answered => x.stale
    BY <2>2 DEF read
  <2>5. ExactPages'
    BY <2>1, <2>4 DEF ExactPages
  <2> QED BY <2>3, <2>a, <2>5 DEF MailInv
<1> QED BY <1>3, <1>4

(* What an announcement that goes does to the requests: the pages that do   *)
(* not hold its item are old.                                               *)
LEMMA MailMarks ==
  ASSUME MailInv, NEW i \in announced, announced' = announced \ {i},
         UNCHANGED <<sent, isRead, archived, user>>,
         \/ requests' = Mail!AgedBy(i)
         \/ i[2] # user /\ requests' = requests
  PROVE  /\ MailTypes' /\ OwnLoads' /\ (Quiet' => Quiet)
         /\ LoadOf(user, requests) => LoadOf(user, requests')
         /\ user # NoUser /\ Quiet' =>
              \A x \in requests' :
                x.kind = "load" /\ x.answered /\ ~x.stale /\ ~LoadOf(user, requests' \ {x}) =>
                  Exact(x.page, x.pageUnread)'
<1> DEFINE old == {r \in requests : r.kind = "load" /\ r.answered /\ i \notin r.page}
<1>1. requests \subseteq Mail!Request
  BY DEF MailInv, MailTypes
<1>2. /\ requests' \subseteq Mail!Request
      /\ \A x \in requests' : \E r \in requests :
           /\ x.kind = r.kind /\ x.as = r.as /\ x.answered = r.answered
           /\ r.stale => x.stale
           /\ ~x.stale => x = r /\ (x \in old => i[2] # user)
      /\ \A r \in requests : \E x \in requests' :
           /\ x.kind = r.kind /\ x.as = r.as /\ x.answered = r.answered
           /\ ~x.stale => x = r
  <2>1. CASE requests' = Mail!AgedBy(i)
    <3>1. requests' = Marked(requests, old)
      BY <2>1, AgedIsMarked
    <3> HIDE DEF old
    <3> QED BY <1>1, <3>1, MarkedRequests
  <2>2. CASE i[2] # user /\ requests' = requests
    BY <1>1, <2>2
  <2> QED BY <2>1, <2>2
<1>3. MailTypes'
  BY <1>2 DEF MailInv, MailTypes, Mail!Created
<1>4. OwnLoads'
  BY <1>2 DEF MailInv, OwnLoads
<1>5. Quiet' => Quiet
  BY <1>2, Kinds DEF Quiet
<1>6. LoadOf(user, requests) => LoadOf(user, requests')
  BY <1>2 DEF LoadOf
<1>7. ASSUME user # NoUser, Quiet', NEW x \in requests', x.kind = "load", x.answered, ~x.stale,
             ~LoadOf(user, requests' \ {x})
      PROVE  Exact(x.page, x.pageUnread)'
  <2>1. x \in requests /\ (x \in old => i[2] # user)
    BY <1>2, <1>7
  <2>2. ~LoadOf(user, requests \ {x})
    BY <1>2, <1>7 DEF LoadOf
  <2>3. Exact(x.page, x.pageUnread)
    BY <1>5, <1>7, <2>1, <2>2 DEF MailInv, ExactPages
  <2>4. i[2] = user => i \in x.page
    BY <1>7, <2>1
  <2> QED BY <2>3, <2>4, LossKeepsExact
<1> QED BY <1>3, <1>4, <1>5, <1>6, <1>7

LEMMA MailArrives ==
  ASSUME MailInv, NEW i \in announced, Mail!ItemArrives(i)
  PROVE  MailInv'
<1>1. /\ i[2] = user /\ announced' = announced \ {i}
      /\ shown' = Mail!Newest(shown \cup {i}) /\ unreadItems' = (unreadItems \cup {i}) \cap shown'
      /\ requests' = Mail!AgedBy(i) /\ missed' = (missed \/ i \in isRead \cup archived)
      /\ UNCHANGED <<sent, isRead, archived, user>>
  BY DEF Mail!ItemArrives, Mail!server
<1>2. /\ MailTypes' /\ OwnLoads' /\ (Quiet' => Quiet)
      /\ LoadOf(user, requests) => LoadOf(user, requests')
      /\ user # NoUser /\ Quiet' =>
           \A x \in requests' :
             x.kind = "load" /\ x.answered /\ ~x.stale /\ ~LoadOf(user, requests' \ {x}) =>
               Exact(x.page, x.pageUnread)'
  BY <1>1, MailMarks
<1>3. ASSUME user # NoUser, Quiet', ~missed', ~LoadOf(user, requests')
      PROVE  Exact(shown, unreadItems)'
  <2>1. Exact(shown, unreadItems) /\ i \notin isRead \cup archived
    BY <1>1, <1>2, <1>3 DEF MailInv, ExactPages
  <2>2. PICK S, U, S2, U2 : S = shown /\ U = unreadItems /\ S2 = shown' /\ U2 = unreadItems'
    OBVIOUS
  <2>3. Exact(S2, U2)'
    BY <1>1, <2>1, <2>2, ArrivalKeepsExact DEF MailInv
  <2> QED BY <2>2, <2>3
<1>4. ExactPages'
  <2> HIDE DEF Exact
  <2> QED BY <1>1, <1>2, <1>3 DEF ExactPages
<1> QED BY <1>2, <1>4 DEF MailInv

LEMMA MailLoses ==
  ASSUME MailInv, NEW i \in announced, Mail!ItemLost(i)
  PROVE  MailInv'
<1>1. /\ announced' = announced \ {i}
      /\ requests' = IF i[2] = user THEN Mail!AgedBy(i) ELSE requests
      /\ missed' = (missed \/ (i[2] = user /\ i \notin shown))
      /\ UNCHANGED <<sent, isRead, archived, user, shown, unreadItems>>
  BY DEF Mail!ItemLost, Mail!server, Mail!store
<1>2. /\ MailTypes' /\ OwnLoads' /\ (Quiet' => Quiet)
      /\ LoadOf(user, requests) => LoadOf(user, requests')
      /\ user # NoUser /\ Quiet' =>
           \A x \in requests' :
             x.kind = "load" /\ x.answered /\ ~x.stale /\ ~LoadOf(user, requests' \ {x}) =>
               Exact(x.page, x.pageUnread)'
  BY <1>1, MailMarks
<1>3. ASSUME user # NoUser, Quiet', ~missed', ~LoadOf(user, requests')
      PROVE  Exact(shown, unreadItems)'
  <2>1. Exact(shown, unreadItems) /\ (i[2] = user => i \in shown)
    BY <1>1, <1>2, <1>3 DEF MailInv, ExactPages
  <2>2. PICK S, U : S = shown /\ U = unreadItems
    OBVIOUS
  <2>3. Exact(S, U)'
    BY <1>1, <2>1, <2>2, LossKeepsExact
  <2> QED BY <1>1, <2>2, <2>3
<1>4. ExactPages'
  <2> HIDE DEF Exact
  <2> QED BY <1>1, <1>2, <1>3 DEF ExactPages
<1> QED BY <1>2, <1>4 DEF MailInv

LEMMA MailStays == MailInv /\ [Mail!Next]_inboxVars => MailInv'
<1> SUFFICES ASSUME MailInv, [Mail!Next]_inboxVars PROVE MailInv'
  OBVIOUS
<1>1. CASE UNCHANGED inboxVars
  BY <1>1 DEF inboxVars, MailInv, MailTypes, OwnLoads, ExactPages, Quiet, LoadOf, Exact, Pending,
              Mail!Newest, Mail!Listed, Mail!ItemsOf, Mail!Created
<1>2. CASE \E R \in (SUBSET Users) \ {{}} : Mail!Notify(R)
  BY <1>2, MailNews
<1>3. CASE \E u \in Users : Mail!Login(u)
  BY <1>3, MailLogsIn
<1>4. CASE Mail!Logout
  BY <1>4, MailLogsOut
<1>5. CASE \E kind \in Mail!Changes, i \in Mail!Items \cup {<<>>} : Mail!Change(kind, i)
  BY <1>5, MailChanges
<1>6. CASE \E r \in requests :
             \/ \E failed \in BOOLEAN : Mail!Serve(r, failed)
             \/ Mail!ChangeReturns(r) \/ Mail!LoadReturns(r) \/ Mail!RequestFails(r)
  BY <1>6, MailServes, MailReturns, MailLoads, MailFails
<1>7. CASE \E i \in announced : Mail!ItemArrives(i) \/ Mail!ItemLost(i)
  BY <1>7, MailArrives, MailLoses
<1> QED BY <1>1, <1>2, <1>3, <1>4, <1>5, <1>6, <1>7 DEF Mail!Next

LEMMA MailHolds == RoomSpec => []MailInv
<1>1. RoomInit => MailInv
  BY MailStart DEF RoomInit
<1>2. MailInv /\ [RoomNext]_<<store, vars, panelVars, inboxVars>> => MailInv'
  BY MailStays DEF RoomNext
<1> QED BY <1>1, <1>2, PTL DEF RoomSpec

(* Once nothing is under way, the store shows the newest items of the user *)
(* who is signed in, read and unread as on the server, for any users and    *)
(* any number of items and requests (notificationStore).                    *)
THEOREM InboxStaysExact == RoomSpec => []InboxIsExact
<1> SUFFICES ASSUME MailInv PROVE InboxIsExact
  BY MailHolds, PTL
<1> SUFFICES ASSUME user # NoUser, Mail!Settled, ~missed
             PROVE  shown = Mail!Newest(Mail!Listed(user)) /\ unreadItems = shown \ isRead
  BY DEF InboxIsExact, Mail!InboxIsExact
<1>1. Quiet /\ ~LoadOf(user, requests)
  BY Kinds DEF Mail!Settled, Quiet, LoadOf
<1>2. Exact(shown, unreadItems)
  BY <1>1 DEF MailInv, ExactPages
<1>3. shown \cup Pending = shown
  BY DEF Mail!Settled, Pending
<1> QED BY <1>2, <1>3 DEF Exact

-----------------------------------------------------------------------------
(* The types of the three stores.                                          *)

(* What the types of the panel need besides PanelInv.  A count that is      *)
(* shown is one the server had answered with, and at most one more for each *)
(* reply that has been counted since the room was entered.                  *)
PanelBounds ==
  /\ Len(replyLog) <= MaxReplies /\ replyTodo \subseteq [type: {"new", "deleted"}, id: Posts]
  /\ hasMoreReplies \in BOOLEAN /\ loadingOlderReplies \in BOOLEAN
  /\ repliesError \in BOOLEAN /\ repliesCrossed \in BOOLEAN
  /\ repliesRaced \subseteq Posts /\ oldestReplyId \in Posts \cup {0}
  /\ \A c \in replyCalls : c.before \in Posts \cup {0} /\ c.counts \in [Threads -> 0..MaxReplies]

CountBounds ==
  /\ counted \subseteq Posts /\ threads \in [Threads -> Int]
  /\ \A t \in Threads :
       Panel!Unlisted <= threads[t] /\ threads[t] <= MaxReplies + Cardinality(counted)

LEMMA PostsAreFinite ==
  ASSUME replyLog \in Seq(Threads), NEW S, S \subseteq Posts
  PROVE  /\ IsFiniteSet(S) /\ Cardinality(S) \in Nat /\ Cardinality(S) <= Len(replyLog)
         /\ Panel!Cardinality(S) = Cardinality(S)
<1>1. Len(replyLog) \in Nat
  OBVIOUS
<1>2. IsFiniteSet(Posts) /\ Cardinality(Posts) = Len(replyLog)
  <2>1. PICK n \in Nat : n = Len(replyLog)
    BY <1>1
  <2>2. IsFiniteSet(1..n) /\ Cardinality(1..n) = IF 1 > n THEN 0 ELSE n - 1 + 1
    BY FS_Interval
  <2>3. Posts = 1..n
    BY <2>1 DEF Posts
  <2> QED BY <2>1, <2>2, <2>3
<1>3. IsFiniteSet(S) /\ Cardinality(S) <= Cardinality(Posts)
  BY <1>2, FS_Subset
<1>4. Cardinality(S) \in Nat
  BY <1>3, FS_CardinalityType
<1> QED BY <1>2, <1>3, <1>4, SameCardinality

LEMMA PanelIsTyped == PanelInv /\ PanelBounds /\ CountBounds => Panel!TypeOK
<1> SUFFICES ASSUME PanelInv, PanelBounds, CountBounds PROVE Panel!TypeOK
  OBVIOUS
<1>1. /\ replyLog \in Seq(Threads) /\ Len(replyLog) \in Nat /\ Len(replyLog) <= MaxReplies
      /\ MaxReplies \in Nat
  BY PanelAssumption DEF PanelInv, PanelTypes, PanelBounds, Panel!Configured
<1>2. Posts \subseteq Panel!Ids
  BY <1>1 DEF Posts, Panel!Ids
<1>3. replyTodo \subseteq Panel!Event
  BY <1>2 DEF PanelBounds, Panel!Event
<1>4. \A c \in replyCalls : c.page \subseteq Panel!Ids
  BY <1>2 DEF PanelInv, OwnReplies, Panel!StoredIn, Posts
<1>5. replyCalls \subseteq Panel!Call
  <2> SUFFICES ASSUME NEW c \in replyCalls PROVE c \in Panel!Call
    OBVIOUS
  <2>1. c \in PanelCall
    BY DEF PanelInv, PanelTypes
  <2>2. c.before \in Panel!Ids \cup {0} /\ c.counts \in [Threads -> 0..MaxReplies]
    BY <1>2 DEF PanelBounds
  <2> QED BY <1>4, <2>1, <2>2 DEF PanelCall, Panel!Call
<1>6. threads \in [Threads -> Panel!Unlisted..2 * MaxReplies]
  <2>1. Cardinality(counted) \in Nat /\ Cardinality(counted) <= MaxReplies
    BY <1>1, PostsAreFinite DEF CountBounds
  <2>2. \A t \in Threads : threads[t] \in Panel!Unlisted..2 * MaxReplies
    BY <1>1, <2>1 DEF CountBounds, Panel!Unlisted
  <2> QED BY <2>2 DEF CountBounds
<1>7. /\ repliesDeleted \subseteq 1..Len(replyLog) /\ inRoom \in BOOLEAN
      /\ activeThreadId \in Threads \cup {NoThread} /\ replies \subseteq Panel!Ids
      /\ oldestReplyId \in Panel!Ids \cup {0} /\ repliesRaced \subseteq Panel!Ids
      /\ counted \subseteq Panel!Ids
  BY <1>2 DEF PanelInv, PanelTypes, OwnReplies, PanelBounds, CountBounds, Posts
<1> QED BY <1>1, <1>3, <1>5, <1>6, <1>7 DEF Panel!TypeOK, PanelBounds

(* The bounds over a step that keeps the log, by what it does to the calls. *)
LEMMA BoundsStay ==
  ASSUME PanelBounds, UNCHANGED replyLog, replyTodo' \subseteq replyTodo,
         hasMoreReplies' \in BOOLEAN, loadingOlderReplies' \in BOOLEAN,
         repliesError' \in BOOLEAN, repliesCrossed' \in BOOLEAN,
         repliesRaced' \subseteq Posts, oldestReplyId' \in Posts \cup {0},
         \A c \in replyCalls' : \/ c \in replyCalls
                                \/ c.before \in Posts \cup {0} /\ c.counts \in [Threads -> 0..MaxReplies]
  PROVE  PanelBounds'
BY DEF PanelBounds, Posts

LEMMA NewCallBounds ==
  ASSUME NEW kind, NEW t, NEW before \in Posts \cup {0}
  PROVE  LET c == Panel!NewCall(kind, t, before) IN
           c.before \in Posts \cup {0} /\ c.counts \in [Threads -> 0..MaxReplies]
BY PanelAssumption DEF Panel!NewCall, Panel!Configured

LEMMA ServerKeepsBounds ==
  ASSUME PanelInv, PanelBounds,
         \/ \E t \in Threads : Panel!Store(t)
         \/ \E i \in Posts : Panel!Delete(i)
  PROVE  PanelBounds'
<1>1. replyLog \in Seq(Threads) /\ Len(replyLog) \in Nat /\ MaxReplies \in Nat
  BY PanelAssumption DEF PanelInv, PanelTypes, Panel!Configured
<1>2. UNCHANGED <<hasMoreReplies, loadingOlderReplies, repliesError, repliesCrossed,
                  repliesRaced, oldestReplyId, replyCalls>>
  BY DEF Panel!Store, Panel!Delete, Panel!panel, Panel!history
<1>3. ASSUME NEW t \in Threads, Panel!Store(t)
      PROVE  PanelBounds'
  <2> DEFINE new == Len(replyLog) + 1
  <2>1. /\ Len(replyLog) < MaxReplies /\ replyLog' = Append(replyLog, t)
        /\ replyTodo' = replyTodo \cup {[type |-> "new", id |-> new]}
    BY <1>3 DEF Panel!Store
  <2>2. Len(replyLog') = new /\ Posts \subseteq Posts' /\ new \in Posts'
    BY <1>1, <2>1 DEF Posts
  <2>3. Len(replyLog') <= MaxReplies
    BY <1>1, <2>1, <2>2
  <2>4. replyTodo' \subseteq [type: {"new", "deleted"}, id: Posts']
    BY <2>1, <2>2 DEF PanelBounds
  <2> QED BY <1>2, <2>2, <2>3, <2>4 DEF PanelBounds
<1>4. ASSUME NEW i \in Posts, Panel!Delete(i)
      PROVE  PanelBounds'
  <2>1. replyLog' = replyLog /\ replyTodo' = replyTodo \cup {[type |-> "deleted", id |-> i]}
    BY <1>4 DEF Panel!Delete
  <2>2. replyTodo' \subseteq [type: {"new", "deleted"}, id: Posts]
    BY <2>1 DEF PanelBounds
  <2> QED BY <1>2, <2>1, <2>2 DEF PanelBounds, Posts
<1> QED BY <1>3, <1>4

LEMMA EventsKeepBounds ==
  ASSUME PanelInv, PanelBounds, NEW e \in replyTodo,
         \/ Panel!AnnouncementLost(e) \/ Panel!ReplyDeleted(e)
         \/ \E again \in BOOLEAN : Panel!NewReply(e, again)
  PROVE  PanelBounds'
<1>1. e.id \in Posts
  BY DEF PanelInv, PanelTypes
<1>2. /\ replyTodo' \subseteq replyTodo /\ repliesRaced' \subseteq repliesRaced \cup {e.id}
      /\ UNCHANGED <<replyLog, hasMoreReplies, loadingOlderReplies, repliesError, repliesCrossed,
                     oldestReplyId, replyCalls>>
  BY DEF Panel!AnnouncementLost, Panel!ReplyDeleted, Panel!NewReply, Panel!panel
<1> QED BY <1>1, <1>2, BoundsStay DEF PanelBounds

LEMMA AsksKeepBounds ==
  ASSUME PanelInv, PanelBounds,
         Panel!EnterRoom \/ Panel!LoadThreads \/ Panel!Retry \/ Panel!LoadOlderReplies
  PROVE  PanelBounds'
<1>1. /\ UNCHANGED <<replyLog, replyTodo, hasMoreReplies, repliesCrossed, repliesRaced, oldestReplyId>>
      /\ loadingOlderReplies' \in {loadingOlderReplies, TRUE} /\ repliesError' \in {repliesError, FALSE}
  BY DEF Panel!EnterRoom, Panel!LoadThreads, Panel!Retry, Panel!LoadOlderReplies, Panel!server,
         Panel!panel, Panel!history
<1>2. \E kind, t : \E before \in Posts \cup {0} :
        replyCalls' = replyCalls \cup {Panel!NewCall(kind, t, before)}
  BY DEF Panel!EnterRoom, Panel!LoadThreads, Panel!Retry, Panel!LoadOlderReplies, Panel!Starts,
         PanelBounds
<1>3. \A c \in replyCalls' : \/ c \in replyCalls
                             \/ c.before \in Posts \cup {0} /\ c.counts \in [Threads -> 0..MaxReplies]
  BY <1>2, NewCallBounds
<1> QED BY <1>1, <1>3, BoundsStay DEF PanelBounds

LEMMA SwitchesKeepBounds ==
  ASSUME PanelInv, PanelBounds,
         Panel!LeaveRoom \/ Panel!ClosePanel \/ \E t \in Threads : Panel!OpenThread(t)
  PROVE  PanelBounds'
<1>1. \E t : Panel!Shows(t) /\ replyCalls' \subseteq Panel!Aged \cup {Panel!NewCall("replies", t, 0)}
  BY DEF Panel!LeaveRoom, Panel!ClosePanel, Panel!OpenThread, Panel!Starts
<1>2. UNCHANGED <<replyLog, replyTodo>>
  BY DEF Panel!LeaveRoom, Panel!ClosePanel, Panel!OpenThread, Panel!server
<1>3. /\ oldestReplyId' = 0 /\ hasMoreReplies' = FALSE /\ loadingOlderReplies' = FALSE
      /\ repliesError' = FALSE /\ repliesRaced' = {} /\ repliesCrossed' = FALSE
  BY <1>1 DEF Panel!Shows
<1>4. \A c \in Panel!Aged :
        c.before \in Posts \cup {0} /\ c.counts \in [Threads -> 0..MaxReplies]
  <2> SUFFICES ASSUME NEW d \in replyCalls, NEW c, c = [d EXCEPT !.old = (d.kind # "threads")]
               PROVE  c.before \in Posts \cup {0} /\ c.counts \in [Threads -> 0..MaxReplies]
    BY DEF Panel!Aged
  <2>1. c.before = d.before /\ c.counts = d.counts
    BY DEF PanelInv, PanelTypes, PanelCall
  <2> QED BY <2>1 DEF PanelBounds
<1>5. \A t : LET c == Panel!NewCall("replies", t, 0) IN
        c.before \in Posts \cup {0} /\ c.counts \in [Threads -> 0..MaxReplies]
  BY NewCallBounds
<1>6. \A c \in replyCalls' : c.before \in Posts \cup {0} /\ c.counts \in [Threads -> 0..MaxReplies]
  BY <1>1, <1>4, <1>5
<1> QED BY <1>2, <1>3, <1>6, BoundsStay

LEMMA AnswersKeepBounds ==
  ASSUME PanelInv, PanelBounds, NEW c \in replyCalls, Panel!ServerReads(c)
  PROVE  PanelBounds'
<1> DEFINE page == IF c.kind = "threads" THEN {}
                   ELSE Panel!Newest({i \in Panel!StoredIn(c.thread) \ repliesDeleted :
                                        c.before = 0 \/ i < c.before})
           counts == IF c.kind = "threads"
                     THEN [t \in Threads |-> Panel!Cardinality(Panel!StoredIn(t))] ELSE c.counts
           d == [c EXCEPT !.answered = TRUE, !.page = page, !.counts = counts]
<1>1. /\ replyCalls' = (replyCalls \ {c}) \cup {d}
      /\ UNCHANGED <<replyLog, replyTodo, hasMoreReplies, loadingOlderReplies, repliesError,
                     repliesCrossed, repliesRaced, oldestReplyId>>
  BY DEF Panel!ServerReads, Panel!server, Panel!panel, Panel!history
<1>2. \A t : Panel!Cardinality(Panel!StoredIn(t)) \in 0..MaxReplies
  <2> TAKE t
  <2>1. Panel!StoredIn(t) \subseteq Posts
    BY DEF Panel!StoredIn, Posts
  <2>2. /\ Panel!Cardinality(Panel!StoredIn(t)) \in Nat
        /\ Panel!Cardinality(Panel!StoredIn(t)) <= Len(replyLog)
    BY <2>1, PostsAreFinite DEF PanelInv, PanelTypes
  <2>3. Len(replyLog) \in Nat /\ Len(replyLog) <= MaxReplies /\ MaxReplies \in Nat
    BY PanelAssumption DEF PanelInv, PanelTypes, PanelBounds, Panel!Configured
  <2> QED BY <2>2, <2>3
<1>3. counts \in [Threads -> 0..MaxReplies]
  BY <1>2 DEF PanelBounds
<1> HIDE DEF page, counts
<1>4. d.before = c.before /\ d.counts = counts
  BY DEF PanelInv, PanelTypes, PanelCall
<1> HIDE DEF d
<1>5. \A b \in replyCalls' : \/ b \in replyCalls
                             \/ b.before \in Posts \cup {0} /\ b.counts \in [Threads -> 0..MaxReplies]
  BY <1>1, <1>3, <1>4 DEF PanelBounds
<1> QED BY <1>1, <1>5, BoundsStay DEF PanelBounds

LEMMA LandingKeepsBounds ==
  ASSUME PanelInv, PanelBounds, NEW c \in replyCalls, Panel!PageArrives(c) \/ Panel!CallFails(c)
  PROVE  PanelBounds'
<1>1. Panel!Ended(c)
  BY DEF Panel!PageArrives, Panel!CallFails
<1>2. /\ replyCalls' = replyCalls \ {c} /\ UNCHANGED <<replyLog, replyTodo, repliesRaced>>
      /\ loadingOlderReplies' \in BOOLEAN /\ repliesCrossed' \in BOOLEAN
  BY <1>1 DEF Panel!Ended, Panel!server, PanelBounds
<1>3. c.page \subseteq Posts /\ c.page \in SUBSET Nat
  BY DEF PanelInv, OwnReplies, Panel!StoredIn, Posts
<1>4. c.page # {} => Panel!Min(c.page) \in Posts
  BY <1>3, PanelMin
<1>5. /\ oldestReplyId' \in Posts \cup {0}
      /\ hasMoreReplies' \in BOOLEAN /\ repliesError' \in BOOLEAN
  <2>1. CASE Panel!PageArrives(c)
    <3>1. /\ repliesError' = repliesError
          /\ oldestReplyId' \in IF c.page = {} THEN {oldestReplyId} ELSE {oldestReplyId, Panel!Min(c.page)}
      BY <2>1 DEF Panel!PageArrives
    <3>2. hasMoreReplies' \in BOOLEAN
      <4>1. \/ hasMoreReplies' = (Panel!Cardinality(c.page) >= ReplyLimit)
            \/ hasMoreReplies' = hasMoreReplies
        BY <2>1, Zenon DEF Panel!PageArrives
      <4>2. (Panel!Cardinality(c.page) >= ReplyLimit) \in BOOLEAN
        OBVIOUS
      <4> QED BY <4>1, <4>2, Zenon DEF PanelBounds
    <3> QED BY <1>4, <3>1, <3>2 DEF PanelBounds
  <2>2. CASE Panel!CallFails(c)
    BY <2>2 DEF Panel!CallFails, PanelBounds
  <2> QED BY <2>1, <2>2
<1> QED BY <1>2, <1>5, BoundsStay DEF PanelBounds

LEMMA BoundsHold == PanelInv /\ PanelBounds /\ [Panel!Next]_panelVars => PanelBounds'
<1> SUFFICES ASSUME PanelInv, PanelBounds, [Panel!Next]_panelVars PROVE PanelBounds'
  OBVIOUS
<1>1. CASE UNCHANGED panelVars
  BY <1>1, BoundsStay DEF panelVars, PanelBounds
<1>2. CASE (\E t \in Threads : Panel!Store(t)) \/ (\E i \in Posts : Panel!Delete(i))
  BY <1>2, ServerKeepsBounds
<1>3. CASE \E e \in replyTodo :
             \/ Panel!AnnouncementLost(e) \/ Panel!ReplyDeleted(e)
             \/ \E again \in BOOLEAN : Panel!NewReply(e, again)
  BY <1>3, EventsKeepBounds
<1>4. CASE \E c \in replyCalls :
             Panel!ServerReads(c) \/ Panel!PageArrives(c) \/ Panel!CallFails(c)
  BY <1>4, AnswersKeepBounds, LandingKeepsBounds
<1> QED BY <1>1, <1>2, <1>3, <1>4, AsksKeepBounds, SwitchesKeepBounds DEF Panel!Next, Posts

(* A reply that raises a count has not been counted, so the counted replies *)
(* grow with the count; leaving the room forgets both.                      *)
LEMMA CountsStay ==
  ASSUME PanelInv, CountBounds, Posts \subseteq Posts', UNCHANGED <<threads, counted>>
  PROVE  CountBounds'
BY DEF CountBounds

LEMMA CountsOfCalls ==
  ASSUME PanelInv, PanelBounds, CountBounds, NEW c \in replyCalls,
         Panel!PageArrives(c) \/ Panel!CallFails(c)
  PROVE  CountBounds'
<1>1. /\ threads' \in {threads, c.counts} /\ counted' = counted /\ replyLog' = replyLog
  BY DEF Panel!PageArrives, Panel!CallFails, Panel!Ended, Panel!server
<1>2. Posts' = Posts
  BY <1>1 DEF Posts
<1>3. CASE threads' = threads
  BY <1>1, <1>2, <1>3, CountsStay
<1>4. CASE threads' = c.counts
  <2>1. c.counts \in [Threads -> 0..MaxReplies] /\ MaxReplies \in Nat
    BY PanelAssumption DEF PanelBounds, Panel!Configured
  <2>2. counted \subseteq Posts /\ Cardinality(counted) \in Nat
    BY PostsAreFinite DEF CountBounds, PanelInv, PanelTypes
  <2>3. \A t \in Threads : c.counts[t] \in Int /\ 0 <= c.counts[t] /\ c.counts[t] <= MaxReplies + Cardinality(counted)
    BY <2>1, <2>2
  <2> QED BY <1>1, <1>2, <1>4, <2>1, <2>2, <2>3 DEF CountBounds, Panel!Unlisted
<1> QED BY <1>1, <1>3, <1>4

LEMMA CountsOfReplies ==
  ASSUME PanelInv, PanelBounds, CountBounds, NEW e \in replyTodo, NEW again \in BOOLEAN,
         Panel!NewReply(e, again)
  PROVE  CountBounds'
<1> DEFINE i == e.id
           t == replyLog[i]
<1>1. i \in Posts /\ replyLog' = replyLog /\ t \in Threads
  BY DEF Panel!NewReply, PanelInv, PanelTypes, Posts
<1>2. Posts' = Posts
  BY <1>1 DEF Posts
<1>3. CASE UNCHANGED <<threads, counted>>
  BY <1>2, <1>3, CountsStay
<1>4. ASSUME i \notin counted, counted' = counted \cup {i},
             threads' = [threads EXCEPT ![t] = IF @ = Panel!Unlisted THEN @ ELSE @ + 1]
      PROVE  CountBounds'
  <2>1. counted \subseteq Posts /\ IsFiniteSet(counted) /\ Cardinality(counted) \in Nat
    BY PostsAreFinite DEF CountBounds, PanelInv, PanelTypes
  <2>2. Cardinality(counted') = Cardinality(counted) + 1
    BY <1>4, <2>1, FS_AddElement
  <2>3. MaxReplies \in Nat
    BY PanelAssumption DEF Panel!Configured
  <2>4. \A u \in Threads : threads'[u] \in {threads[u], threads[u] + 1}
    BY <1>4 DEF CountBounds
  <2>5. threads' \in [Threads -> Int]
    BY <1>1, <1>4 DEF CountBounds
  <2>6. counted' \subseteq Posts'
    BY <1>1, <1>2, <1>4, <2>1
  <2>7. \A u \in Threads :
          Panel!Unlisted <= threads'[u] /\ threads'[u] <= MaxReplies + Cardinality(counted')
    BY <2>1, <2>2, <2>3, <2>4 DEF CountBounds, Panel!Unlisted
  <2> QED BY <2>5, <2>6, <2>7 DEF CountBounds
<1>5. \/ UNCHANGED <<threads, counted>>
      \/ /\ i \notin counted /\ counted' = counted \cup {i}
         /\ threads' = [threads EXCEPT ![t] = IF @ = Panel!Unlisted THEN @ ELSE @ + 1]
  BY DEF Panel!NewReply
<1> QED BY <1>3, <1>4, <1>5

LEMMA CountsHold == PanelInv /\ PanelBounds /\ CountBounds /\ [Panel!Next]_panelVars => CountBounds'
<1> SUFFICES ASSUME PanelInv, PanelBounds, CountBounds, [Panel!Next]_panelVars PROVE CountBounds'
  OBVIOUS
<1>1. CASE UNCHANGED panelVars
  BY <1>1, CountsStay DEF panelVars, Posts
<1>2. ASSUME NEW t \in Threads, Panel!Store(t) PROVE CountBounds'
  <2>1. Posts \subseteq Posts'
    BY <1>2 DEF Panel!Store, Posts, PanelInv, PanelTypes
  <2>2. UNCHANGED <<threads, counted>>
    BY <1>2 DEF Panel!Store
  <2> QED BY <2>1, <2>2, CountsStay
<1>3. CASE \/ \E i \in Posts : Panel!Delete(i)
           \/ \E e \in replyTodo : Panel!AnnouncementLost(e) \/ Panel!ReplyDeleted(e)
           \/ \E c \in replyCalls : Panel!ServerReads(c)
           \/ \E t \in Threads : Panel!OpenThread(t)
           \/ Panel!EnterRoom \/ Panel!ClosePanel \/ Panel!Retry \/ Panel!LoadOlderReplies
           \/ Panel!LoadThreads
  <2>1. UNCHANGED <<replyLog, threads, counted>>
    BY <1>3, Zenon DEF Panel!Delete, Panel!AnnouncementLost, Panel!ReplyDeleted, Panel!ServerReads,
                Panel!OpenThread, Panel!EnterRoom, Panel!ClosePanel, Panel!Retry,
                Panel!LoadOlderReplies, Panel!LoadThreads, Panel!server
  <2>2. Posts' = Posts
    BY <2>1 DEF Posts
  <2> QED BY <2>1, <2>2, CountsStay
<1>4. CASE Panel!LeaveRoom
  <2>1. replyLog' = replyLog /\ threads' = [t \in Threads |-> -1] /\ counted' = {}
    BY <1>4 DEF Panel!LeaveRoom, Panel!server, Panel!NoneListed, Panel!Unlisted
  <2>2. Cardinality(counted') = 0 /\ MaxReplies \in Nat
    BY <2>1, FS_EmptySet, PanelAssumption DEF Panel!Configured
  <2>3. \A t \in Threads : threads'[t] = -1
    BY <2>1
  <2> QED BY <2>1, <2>2, <2>3 DEF CountBounds, Panel!Unlisted
<1>5. CASE \E c \in replyCalls : Panel!PageArrives(c) \/ Panel!CallFails(c)
  BY <1>5, CountsOfCalls
<1>6. CASE \E e \in replyTodo, again \in BOOLEAN : Panel!NewReply(e, again)
  BY <1>6, CountsOfReplies
<1> QED BY <1>1, <1>2, <1>3, <1>4, <1>5, <1>6 DEF Panel!Next, Posts

(* What the types of the inbox need besides MailInv. *)
MailBounds ==
  /\ isRead \subseteq Mail!Items /\ archived \subseteq Mail!Items
  /\ shown \subseteq Mail!Items /\ unreadItems \subseteq shown /\ missed \in BOOLEAN

LEMMA MailIsTyped == MailInv /\ MailBounds => Mail!TypeOK
<1> SUFFICES ASSUME MailInv, MailBounds PROVE Mail!TypeOK
  OBVIOUS
<1>1. announced \subseteq Mail!Items
  BY DEF MailInv, MailTypes, Mail!Created
<1> QED BY <1>1 DEF MailInv, MailTypes, MailBounds, Mail!TypeOK

LEMMA ListedItems ==
  /\ \A u : Mail!Listed(u) \subseteq Mail!Items /\ Mail!ItemsOf(u) \subseteq Mail!Items
  /\ \A S : Mail!Newest(S) \subseteq S
BY DEF Mail!Listed, Mail!ItemsOf, Mail!Created, Mail!Newest

LEMMA MailKeepsBounds == MailInv /\ MailBounds /\ [Mail!Next]_inboxVars => MailBounds'
<1> SUFFICES ASSUME MailInv, MailBounds, [Mail!Next]_inboxVars PROVE MailBounds'
  OBVIOUS
<1>1. CASE \/ UNCHANGED inboxVars
           \/ \E R \in (SUBSET Users) \ {{}} : Mail!Notify(R)
           \/ \E kind \in Mail!Changes, i \in Mail!Items \cup {<<>>} : Mail!Change(kind, i)
  <2>1. UNCHANGED <<isRead, archived, shown, unreadItems, missed>>
    BY <1>1, Zenon DEF inboxVars, Mail!Notify, Mail!Change, Mail!server, Mail!store
  <2> QED BY <2>1 DEF MailBounds
<1>2. CASE Mail!Logout \/ \E u \in Users : Mail!Login(u)
  <2>1. /\ UNCHANGED <<isRead, archived>> /\ missed' \in {missed, FALSE}
        /\ \/ shown' = {} /\ unreadItems' = {}
           \/ UNCHANGED <<shown, unreadItems>>
    BY <1>2, Zenon DEF Mail!Logout, Mail!Login, Mail!server, Mail!store
  <2> QED BY <2>1 DEF MailBounds
<1>3. ASSUME NEW r \in requests, NEW failed \in BOOLEAN, Mail!Serve(r, failed)
      PROVE  MailBounds'
  <2>1. /\ isRead' \in {isRead, isRead \cup Mail!Touched(r)}
        /\ archived' \in {archived, archived \cup Mail!Touched(r)}
        /\ UNCHANGED <<shown, unreadItems, missed>>
    BY <1>3 DEF Mail!Serve, Mail!store
  <2>2. Mail!Touched(r) \subseteq Mail!Items
    BY ListedItems DEF Mail!Touched
  <2> QED BY <2>1, <2>2 DEF MailBounds
<1>4. ASSUME NEW r \in requests, Mail!ChangeReturns(r) PROVE MailBounds'
  <2>1. /\ UNCHANGED <<isRead, archived, missed>>
        /\ \/ shown' = {} /\ unreadItems' = {}
           \/ UNCHANGED <<shown, unreadItems>>
    BY <1>4 DEF Mail!ChangeReturns, Mail!server, Mail!store
  <2> QED BY <2>1 DEF MailBounds
<1>5. ASSUME NEW r \in requests, Mail!LoadReturns(r) PROVE MailBounds'
  <2>1. r.page \subseteq Mail!Items /\ r.stale \in BOOLEAN
    BY DEF MailInv, MailTypes, Mail!Request
  <2>2. /\ UNCHANGED <<isRead, archived>> /\ missed' = r.stale
        /\ shown' = Mail!Newest(r.page \cup Mail!Kept) /\ unreadItems' \subseteq shown'
    BY <1>5 DEF Mail!LoadReturns, Mail!server
  <2>3. shown' \subseteq Mail!Items
    BY <2>1, <2>2, ListedItems DEF Mail!Kept
  <2> QED BY <2>1, <2>2, <2>3 DEF MailBounds
<1>6. ASSUME NEW r \in requests, Mail!RequestFails(r) PROVE MailBounds'
  <2>1. UNCHANGED <<isRead, archived, shown, unreadItems>>
    BY <1>6 DEF Mail!RequestFails, Mail!server, Mail!store
  <2>2. missed' \in BOOLEAN
    BY <1>6, Zenon DEF Mail!RequestFails
  <2> QED BY <2>1, <2>2 DEF MailBounds
<1>7. ASSUME NEW i \in announced, Mail!ItemArrives(i) PROVE MailBounds'
  <2>1. /\ UNCHANGED <<isRead, archived>>
        /\ shown' = Mail!Newest(shown \cup {i}) /\ unreadItems' \subseteq shown'
    BY <1>7 DEF Mail!ItemArrives, Mail!server
  <2>2. i \in Mail!Items
    BY DEF MailInv, MailTypes, Mail!Created
  <2>3. shown' \subseteq Mail!Items
    BY <2>1, <2>2, ListedItems DEF MailBounds
  <2>4. missed' \in BOOLEAN
    BY <1>7, Zenon DEF Mail!ItemArrives
  <2> QED BY <2>1, <2>3, <2>4 DEF MailBounds
<1>8. ASSUME NEW i \in announced, Mail!ItemLost(i) PROVE MailBounds'
  <2>1. UNCHANGED <<isRead, archived, shown, unreadItems>>
    BY <1>8 DEF Mail!ItemLost, Mail!server, Mail!store
  <2>2. missed' \in BOOLEAN
    BY <1>8, Zenon DEF Mail!ItemLost
  <2> QED BY <2>1, <2>2 DEF MailBounds
<1> QED BY <1>1, <1>2, <1>3, <1>4, <1>5, <1>6, <1>7, <1>8 DEF Mail!Next

(* The stores of the browser and what of the server they are told keep      *)
(* their types.  A thread shows at most twice as many replies as are ever   *)
(* stored: the answer of the server may hold a reply whose announcement is  *)
(* counted once more (threadStore), but each is counted live only once.     *)
THEOREM StoresAreTyped == RoomSpec => []TypesOK
<1> DEFINE Bounds == PanelBounds /\ CountBounds /\ MailBounds
<1>1. RoomInit => Bounds
  <2> SUFFICES ASSUME RoomInit PROVE Bounds
    OBVIOUS
  <2>1. /\ Len(replyLog) = 0 /\ replyTodo = {} /\ replyCalls = {} /\ repliesRaced = {}
        /\ oldestReplyId = 0 /\ hasMoreReplies = FALSE /\ loadingOlderReplies = FALSE
        /\ repliesError = FALSE /\ repliesCrossed = FALSE
        /\ counted = {} /\ threads = [t \in Threads |-> -1]
    BY DEF RoomInit, Panel!Init, Panel!NoneListed, Panel!Unlisted
  <2>2. MaxReplies \in Nat /\ Cardinality({}) = 0
    BY PanelAssumption, FS_EmptySet DEF Panel!Configured
  <2>3. PanelBounds
    <3>1. Len(replyLog) <= MaxReplies
      BY <2>1, <2>2
    <3>2. /\ hasMoreReplies \in BOOLEAN /\ loadingOlderReplies \in BOOLEAN
          /\ repliesError \in BOOLEAN /\ repliesCrossed \in BOOLEAN
      BY <2>1
    <3> QED BY <2>1, <3>1, <3>2 DEF PanelBounds
  <2>4. CountBounds
    BY <2>1, <2>2 DEF CountBounds, Panel!Unlisted
  <2>5. MailBounds
    <3>1. isRead = {} /\ archived = {} /\ shown = {} /\ unreadItems = {} /\ missed = FALSE
      BY DEF RoomInit, Mail!Init
    <3> QED BY <3>1 DEF MailBounds
  <2> QED BY <2>3, <2>4, <2>5
<1>2. PanelInv /\ MailInv /\ Bounds /\ [RoomNext]_<<store, vars, panelVars, inboxVars>> => Bounds'
  <2> SUFFICES ASSUME PanelInv, MailInv, Bounds, [RoomNext]_<<store, vars, panelVars, inboxVars>>
               PROVE  Bounds'
    OBVIOUS
  <2>1. [Panel!Next]_panelVars /\ [Mail!Next]_inboxVars
    BY Zenon DEF RoomNext
  <2> QED BY <2>1, BoundsHold, CountsHold, MailKeepsBounds
<1>3. RoomInit => Init
  BY DEF RoomInit
<1>4. [RoomNext]_<<store, vars, panelVars, inboxVars>> => [Next]_vars
  BY DEF RoomNext
<1>5. TypeOK /\ PanelInv /\ MailInv /\ Bounds => TypesOK
  BY PanelIsTyped, MailIsTyped DEF TypesOK
<1>6. RoomSpec => []Bounds
  BY <1>1, <1>2, PanelHolds, MailHolds, PTL DEF RoomSpec
<1>7. RoomSpec => Spec
  BY <1>3, <1>4, PTL DEF RoomSpec, Spec
<1> QED BY <1>5, <1>6, <1>7, FeedIsTyped, PanelHolds, MailHolds, PTL
=============================================================================
