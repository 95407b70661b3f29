--------------------------------- MODULE MCRoom ---------------------------------
(* Three stores of the browser, RoomFeed, ThreadPanel and Inbox, for TLC.   *)
(* A behaviour is one of one of them: they share nothing but the socket,    *)
(* of which all lose events anyway.                                         *)
EXTENDS RoomFeed, TLC

CONSTANTS
  Threads, NoThread, ReplyLimit, MaxReplies, MaxRepliesDeleted, MaxCalls,
  Users, NoUser, MaxShown, MaxItems, MaxRequests

VARIABLES
  store,          \* the store whose behaviour this is
  replyLog, repliesDeleted, replyTodo, inRoom, threads, activeThreadId, replies,
  oldestReplyId, hasMoreReplies, loadingOlderReplies, repliesError, counted,
  replyCalls, repliesRaced, repliesCrossed,
  sent, isRead, archived, announced, user, shown, unreadItems, requests, missed

panelVars == <<replyLog, repliesDeleted, replyTodo, inRoom, threads, activeThreadId, replies,
               oldestReplyId, hasMoreReplies, loadingOlderReplies, repliesError, counted,
               replyCalls, repliesRaced, repliesCrossed>>

inboxVars == <<sent, isRead, archived, announced, user, shown, unreadItems, requests, missed>>

Panel == INSTANCE ThreadPanel WITH
  MaxDeleted <- MaxRepliesDeleted, log <- replyLog, deleted <- repliesDeleted,
  todo <- replyTodo, calls <- replyCalls, raced <- repliesRaced, crossed <- repliesCrossed

Mail == INSTANCE Inbox WITH unread <- unreadItems

ASSUME PanelAssumption == Panel!Configured
ASSUME MailAssumption == Mail!Configured

RoomInit ==
  /\ store \in {"chat", "thread", "inbox"}
  /\ Init /\ Panel!Init /\ Mail!Init

RoomNext ==
  /\ UNCHANGED store
  /\ \/ store = "chat" /\ Next /\ UNCHANGED <<panelVars, inboxVars>>
     \/ store = "thread" /\ Panel!Next /\ UNCHANGED <<vars, inboxVars>>
     \/ store = "inbox" /\ Mail!Next /\ UNCHANGED <<vars, panelVars>>

RoomSpec == RoomInit /\ [][RoomNext]_<<store, vars, panelVars, inboxVars>>

(* The rooms, the threads and the users are the same values. *)
Symmetry == Permutations(Rooms)

(* What TLC explores, beside the bounds: a deletion goes together with two  *)
(* messages or with two loads, not with both; after the list of threads has *)
(* arrived, which no property of the replies depends on, there are fewer    *)
(* replies, deletions and calls; and items that were changed leave room for *)
(* fewer requests.  Room_proofs has no such limits.                         *)
Explored ==
  /\ deleted = {} \/ Len(log) + serial < MaxMessages + MaxLoads
  /\ \/ threads = Panel!NoneListed
     \/ Len(replyLog) + Cardinality(repliesDeleted) + Cardinality(replyCalls) < MaxReplies + MaxCalls
  /\ Cardinality(isRead) + Cardinality(archived) + Cardinality(requests) <= MaxItems + MaxRequests

(* RepliesAreExact of ThreadPanel: the open thread shows its own replies,   *)
(* and in the end all that are stored and not deleted.                      *)
RepliesAreExact == Panel!RepliesAreExact

(* InboxIsExact of Inbox: the store shows the newest items of the user who  *)
(* is signed in, read and unread as on the server.                          *)
InboxIsExact == Mail!InboxIsExact

(* The types of the three stores. *)
TypesOK == TypeOK /\ Panel!TypeOK /\ Mail!TypeOK

(* RepliesCountOnce of ThreadPanel: no thread shows more replies than it   *)
(* has.                                                                     *)
RepliesCountOnce == Panel!RepliesCountOnce
=================================================================================
