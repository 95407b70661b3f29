--------------------------------- MODULE Inbox ---------------------------------
(***************************************************************************)
(* The inbox: its items in the database, announced over the socket to the  *)
(* browser of their recipient, and the store of the browser that holds     *)
(* them for the badge of the sidebar and for the dashboard.  The page      *)
(* /inbox changes them on the server and then loads the store again.       *)
(* Users sign in and out on the same browser while requests are under way. *)
(*                                                                         *)
(* An item is named by its notification and its recipient; notifications   *)
(* are numbered in the order of createdAt.  Local notifications, which the *)
(* same store holds, and the list of the page itself are left out.         *)
(*                                                                         *)
(* Sources: server/src/services/inboxService.ts, server/src/routes/        *)
(* inbox.ts, client/src/stores/{notificationStore,socketStore,authStore}.ts, *)
(* client/src/{App,pages/InboxPage,components/layout/AppShell}.tsx         *)
(***************************************************************************)
EXTENDS Integers, Sequences, FiniteSets

CONSTANTS
  Users, NoUser,
  MaxShown,           \* MAX_ITEMS: what the store holds and asks for
  MaxItems,           \* bound: items ever created
  MaxRequests         \* bound: requests in flight

(* What an instance assumes: there are finitely many users. *)
Configured == NoUser \notin Users /\ IsFiniteSet(Users) /\ MaxShown \in Nat /\ MaxItems \in Nat

VARIABLES
  sent,       \* the recipients of each notification, oldest first
  isRead, archived,
  announced,  \* items whose inbox:new is under way
  user,       \* the user who is signed in
  shown, unread,
  requests,
  missed      \* history: something the store cannot know before its next load

server == <<sent, isRead, archived>>
store == <<shown, unread>>
vars == <<server, announced, user, store, requests, missed>>

Items == (1..MaxItems) \X Users
Changes == {"read", "readAll", "remove", "clear"}
Request == [kind: Changes \cup {"load"}, as: Users, item: Items \cup {<<>>}, answered: BOOLEAN,
            page: SUBSET Items, pageUnread: SUBSET Items, stale: BOOLEAN]

TypeOK ==
  /\ sent \in Seq((SUBSET Users) \ {{}}) /\ Len(sent) <= MaxItems
  /\ {isRead, archived, announced, shown, unread} \subseteq SUBSET Items /\ unread \subseteq shown
  /\ user \in Users \cup {NoUser} /\ requests \subseteq Request /\ missed \in BOOLEAN

Init ==
  /\ sent = <<>> /\ isRead = {} /\ archived = {} /\ announced = {}
  /\ user = NoUser /\ shown = {} /\ unread = {} /\ requests = {} /\ missed = FALSE

----------------------------------------------------------------------------
(* Faults: mutated forms of the definitions below. *)
EverythingKept == shown

----------------------------------------------------------------------------
(* Server *)
Created == {i \in Items : i[1] <= Len(sent) /\ i[2] \in sent[i[1]]}
ItemsOf(u) == {i \in Created : i[2] = u}
Listed(u) == ItemsOf(u) \ archived
Newest(S) == {i \in S : Cardinality({j \in S : j[1] > i[1]}) < MaxShown}

(* createInboxItems: the rows of all recipients in one transaction, then   *)
(* the announcements.                                                      *)
Notify(recipients) ==
  /\ Cardinality(Created) + Cardinality(recipients) <= MaxItems
  /\ sent' = Append(sent, recipients)
  /\ announced' = announced \cup ({Len(sent) + 1} \X recipients)
  /\ UNCHANGED <<isRead, archived, user, store, requests, missed>>

(* GET /api/inbox, and the four changes; an item that is archived is left  *)
(* alone (404), and a change that fails (500) leaves everything.           *)
Touched(r) == IF r.kind \in {"read", "remove"} THEN Listed(r.as) \cap {r.item} ELSE Listed(r.as)

Serve(r, failed) ==
  /\ r \in requests /\ ~r.answered /\ (failed => r.kind \in Changes)
  /\ LET page == Newest(Listed(r.as))
         done == [r EXCEPT !.answered = TRUE] IN
     requests' = (requests \ {r}) \cup
       {IF r.kind = "load" THEN [done EXCEPT !.page = page, !.pageUnread = page \ isRead] ELSE done}
  /\ isRead' = IF ~failed /\ r.kind \in {"read", "readAll"} THEN isRead \cup Touched(r) ELSE isRead
  /\ archived' = IF ~failed /\ r.kind \in {"remove", "clear"} THEN archived \cup Touched(r) ELSE archived
  /\ UNCHANGED <<sent, announced, user, store, missed>>

----------------------------------------------------------------------------
(* Browser *)
NewRequest(kind, u, i) ==
  [kind |-> kind, as |-> u, item |-> i, answered |-> FALSE, page |-> {}, pageUnread |-> {},
   stale |-> FALSE]
Sends(r, others) ==
  /\ Cardinality(others \cup {r}) <= MaxRequests
  /\ requests' = others \cup {r}

(* Pages read before something the store has since seen or missed. *)
Stale(S, Old(_)) == {[r EXCEPT !.stale = @ \/ (r.kind = "load" /\ Old(r))] : r \in S}
Aged(S) == Stale(S, LAMBDA r : r.answered)
AgedBy(i) == Stale(requests, LAMBDA r : r.answered /\ i \notin r.page)

(* login, and connect of AppShell and loadInbox of App for the new user;   *)
(* logout, with disconnect and reset.                                      *)
Login(u) ==
  /\ user = NoUser /\ user' = u
  /\ Sends(NewRequest("load", u, <<>>), requests)
  /\ missed' = FALSE
  /\ UNCHANGED <<server, announced, store>>

Logout ==
  /\ user # NoUser /\ user' = NoUser
  /\ shown' = {} /\ unread' = {}
  /\ requests' = Stale(requests, LAMBDA r : TRUE)
  /\ UNCHANGED <<server, announced, missed>>

(* markRead, markAllRead, removeItem and clearAll of InboxPage, on an item *)
(* its list showed.                                                        *)
Change(kind, i) ==
  /\ user # NoUser
  /\ i \in IF kind \in {"read", "remove"} THEN ItemsOf(user) ELSE {<<>>}
  /\ Sends(NewRequest(kind, user, i), requests)
  /\ UNCHANGED <<server, announced, user, store, missed>>

(* refreshAfterMutation: loadInbox for whoever is signed in by then. *)
ChangeReturns(r) ==
  /\ r \in requests /\ r.answered /\ r.kind \in Changes
  /\ IF user = NoUser
     THEN shown' = {} /\ unread' = {} /\ requests' = requests \ {r}
     ELSE UNCHANGED store /\ Sends(NewRequest("load", user, <<>>), requests \ {r})
  /\ UNCHANGED <<server, announced, user, missed>>

(* loadInbox: what it keeps of the items shown, none but the local ones. *)
Kept == {}

LoadReturns(r) ==
  /\ r \in requests /\ r.answered /\ r.kind = "load"
  /\ shown' = Newest(r.page \cup Kept)
  /\ unread' = (r.pageUnread \cup (unread \ r.page)) \cap shown'
  /\ requests' = IF r.as = user THEN Aged(requests \ {r}) ELSE requests \ {r}
  /\ missed' = r.stale
  /\ UNCHANGED <<server, announced, user>>

(* No answer comes; the server may have done its part.  A load keeps what  *)
(* is shown, a change throws before the refresh.                           *)
RequestFails(r) ==
  LET matters == (r.kind = "load" /\ r.as = user) \/ (r.kind \in Changes /\ r.answered) IN
  /\ r \in requests
  /\ requests' = IF matters THEN Aged(requests \ {r}) ELSE requests \ {r}
  /\ missed' = (missed \/ matters)
  /\ UNCHANGED <<server, announced, user, store>>

(* upsertServerItem on inbox:new, with the item as it was created. *)
ItemArrives(i) ==
  /\ i \in announced /\ i[2] = user
  /\ announced' = announced \ {i}
  /\ shown' = Newest(shown \cup {i})
  /\ unread' = (unread \cup {i}) \cap shown'
  /\ requests' = AgedBy(i)
  /\ missed' = (missed \/ i \in isRead \cup archived)
  /\ UNCHANGED <<server, user>>

(* The recipient is not connected, or the server stops before the emit. *)
ItemLost(i) ==
  /\ i \in announced
  /\ announced' = announced \ {i}
  /\ requests' = IF i[2] = user THEN AgedBy(i) ELSE requests
  /\ missed' = (missed \/ (i[2] = user /\ i \notin shown))
  /\ UNCHANGED <<server, user, store>>

----------------------------------------------------------------------------
Next ==
  \/ \E R \in (SUBSET Users) \ {{}} : Notify(R)
  \/ \E u \in Users : Login(u)
  \/ Logout
  \/ \E kind \in Changes, i \in Items \cup {<<>>} : Change(kind, i)
  \/ \E r \in requests :
       \/ \E failed \in BOOLEAN : Serve(r, failed)
       \/ ChangeReturns(r) \/ LoadReturns(r) \/ RequestFails(r)
  \/ \E i \in announced : ItemArrives(i) \/ ItemLost(i)

Spec == Init /\ [][Next]_vars

----------------------------------------------------------------------------
Settled ==
  /\ \A i \in announced : i[2] # user
  /\ \A r \in requests : r.kind = "load" /\ r.as # user

(* Once nothing is under way, the store shows the newest items of the user *)
(* who is signed in, theirs only, and unread those that are unread on the  *)
(* server, whatever loads, live items, changes of the page and users came  *)
(* and went in between: except after an item or an answer was lost, or a   *)
(* page landed that was read before something the store has seen since.    *)
InboxIsExact ==
  user # NoUser /\ Settled /\ ~missed =>
    /\ shown = Newest(Listed(user))
    /\ unread = shown \ isRead
================================================================================
