------------------------------ MODULE ThreadPanel ------------------------------
(***************************************************************************)
(* The thread panel of one room in one browser: the list of threads with   *)
(* their reply counts, the open thread and its replies, the pages that are *)
(* fetched for them and the socket events, which travel on another         *)
(* connection and may be lost or overtake each other and the pages.        *)
(*                                                                         *)
(* Replies are numbered in the order of createdAt and id.  Starting and    *)
(* resolving a thread, and pages of the thread list, are left out.         *)
(*                                                                         *)
(* Sources: client/src/stores/{threadStore,socketStore}.ts, client/src/    *)
(* components/{layout/ChatLayout,chat/ThreadView,chat/ThreadList}.tsx,     *)
(* server/src/routes/{rooms,threads}.ts                                    *)
(***************************************************************************)
EXTENDS Integers, Sequences, FiniteSets, FiniteSetsExt

CONSTANTS
  Threads, NoThread,
  ReplyLimit,     \* REPLY_LIMIT
  MaxReplies,     \* bound: replies ever stored
  MaxDeleted,     \* bound: replies ever deleted
  MaxCalls        \* bound: calls in flight

(* What an instance assumes: a page holds a reply, and the bound is a       *)
(* number.                                                                 *)
Configured == NoThread \notin Threads /\ ReplyLimit \in Nat \ {0} /\ MaxReplies \in Nat

VARIABLES
  (* the server *)
  log,            \* the thread of each stored reply, oldest first
  deleted,        \* replies that are soft-deleted
  todo,           \* announcements not yet received
  (* the browser *)
  inRoom,         \* the store is set to the room
  threads,        \* messageCount of the threads it holds, Unlisted for others
  activeThreadId, replies, oldestReplyId, hasMoreReplies,
  loadingOlderReplies, repliesError,
  counted,        \* countedReplyIds
  calls,          \* calls in flight
  (* history *)
  raced,          \* replies an event of which was lost or overtaken since then
  crossed         \* a page for an earlier opening of the thread has landed

server == <<log, deleted, todo>>
panel == <<activeThreadId, replies, oldestReplyId, hasMoreReplies, loadingOlderReplies, repliesError>>
history == <<raced, crossed>>
vars == <<server, inRoom, threads, panel, counted, calls, history>>

Ids == 1..MaxReplies
Unlisted == -1
Event == [type: {"new", "deleted"}, id: Ids]
Call == [kind: {"threads", "replies", "older"}, thread: Threads \cup {NoThread},
         before: Ids \cup {0}, old: BOOLEAN, answered: BOOLEAN, page: SUBSET Ids,
         counts: [Threads -> 0..MaxReplies]]

TypeOK ==
  /\ log \in Seq(Threads) /\ Len(log) <= MaxReplies /\ deleted \subseteq 1..Len(log)
  /\ todo \subseteq Event
  /\ inRoom \in BOOLEAN /\ threads \in [Threads -> Unlisted..2 * MaxReplies]
  /\ activeThreadId \in Threads \cup {NoThread} /\ replies \subseteq Ids
  /\ oldestReplyId \in Ids \cup {0}
  /\ {hasMoreReplies, loadingOlderReplies, repliesError, crossed} \subseteq BOOLEAN
  /\ counted \subseteq Ids /\ calls \subseteq Call /\ raced \subseteq Ids

NoneListed == [t \in Threads |-> Unlisted]

Init ==
  /\ log = <<>> /\ deleted = {} /\ todo = {}
  /\ inRoom = FALSE /\ threads = NoneListed
  /\ activeThreadId = NoThread /\ replies = {} /\ oldestReplyId = 0 /\ hasMoreReplies = FALSE
  /\ loadingOlderReplies = FALSE /\ repliesError = FALSE
  /\ counted = {} /\ calls = {}
  /\ raced = {} /\ crossed = FALSE

----------------------------------------------------------------------------
(* Faults: mutated forms of the definitions below. *)
RoomIsCurrent(c) == inRoom

----------------------------------------------------------------------------
(* Server: a reply is stored with the count of its thread, or deleted;     *)
(* its announcement follows.                                               *)
StoredIn(t) == {i \in 1..Len(log) : log[i] = t}

Store(t) ==
  /\ Len(log) < MaxReplies
  /\ log' = Append(log, t)
  /\ todo' = todo \cup {[type |-> "new", id |-> Len(log) + 1]}
  /\ UNCHANGED <<deleted, inRoom, threads, panel, counted, calls, history>>

Delete(i) ==
  /\ i \notin deleted /\ Cardinality(deleted) < MaxDeleted
  /\ deleted' = deleted \cup {i}
  /\ todo' = todo \cup {[type |-> "deleted", id |-> i]}
  /\ UNCHANGED <<log, inRoom, threads, panel, counted, calls, history>>

(* The connection is down, or the page has not yet made the room its       *)
(* active one.                                                             *)
AnnouncementLost(e) ==
  /\ e \in todo
  /\ todo' = todo \ {e} /\ raced' = raced \cup {e.id}
  /\ UNCHANGED <<log, deleted, inRoom, threads, panel, counted, calls, crossed>>

(* GET /:roomId/threads; GET /:roomId/messages?threadId=&before=, the      *)
(* newest of the replies before the cursor.                                *)
Newest(S) == {i \in S : Cardinality({j \in S : j > i}) < ReplyLimit}

ServerReads(c) ==
  LET found == {i \in StoredIn(c.thread) \ deleted : c.before = 0 \/ i < c.before} IN
  /\ c \in calls /\ ~c.answered
  /\ calls' = (calls \ {c}) \cup
       {[c EXCEPT !.answered = TRUE,
                  !.page = IF c.kind = "threads" THEN {} ELSE Newest(found),
                  !.counts = IF c.kind = "threads"
                             THEN [t \in Threads |-> Cardinality(StoredIn(t))] ELSE @]}
  /\ UNCHANGED <<server, inRoom, threads, panel, counted, history>>

----------------------------------------------------------------------------
(* The browser *)
NewCall(kind, t, before) ==
  [kind |-> kind, thread |-> t, before |-> before, old |-> FALSE,
   answered |-> FALSE, page |-> {}, counts |-> [u \in Threads |-> 0]]
Starts(c, others) ==
  /\ Cardinality(others \cup {c}) <= MaxCalls
  /\ calls' = others \cup {c}

(* The calls in flight when another thread is shown, or none. *)
Aged == {[c EXCEPT !.old = (c.kind # "threads")] : c \in calls}

(* openThread, openList and closePanel (NoThread) start from nothing.      *)
Shows(t) ==
  /\ activeThreadId' = t /\ replies' = {} /\ oldestReplyId' = 0 /\ hasMoreReplies' = FALSE
  /\ loadingOlderReplies' = FALSE /\ repliesError' = FALSE
  /\ raced' = {} /\ crossed' = FALSE

(* setRoom and loadThreads of ChatLayout. *)
EnterRoom ==
  /\ ~inRoom /\ inRoom' = TRUE
  /\ Starts(NewCall("threads", NoThread, 0), calls)
  /\ UNCHANGED <<server, threads, panel, counted, history>>

(* The panel closes; the next room resets the store.                       *)
LeaveRoom ==
  /\ inRoom /\ inRoom' = FALSE
  /\ threads' = NoneListed /\ counted' = {}
  /\ Shows(NoThread) /\ calls' = Aged
  /\ UNCHANGED server

OpenThread(t) ==
  /\ inRoom
  /\ Shows(t)
  /\ Starts(NewCall("replies", t, 0), Aged)
  /\ UNCHANGED <<server, inRoom, threads, counted>>

ClosePanel ==
  /\ inRoom /\ activeThreadId # NoThread
  /\ Shows(NoThread) /\ calls' = Aged
  /\ UNCHANGED <<server, inRoom, threads, counted>>

(* The retry button: loadReplies of the open thread. *)
Retry ==
  /\ activeThreadId # NoThread /\ repliesError
  /\ repliesError' = FALSE
  /\ Starts(NewCall("replies", activeThreadId, 0), calls)
  /\ UNCHANGED <<server, inRoom, threads, activeThreadId, replies, oldestReplyId,
                 hasMoreReplies, loadingOlderReplies, counted, history>>

LoadOlderReplies ==
  /\ activeThreadId # NoThread /\ oldestReplyId # 0 /\ ~loadingOlderReplies /\ hasMoreReplies
  /\ loadingOlderReplies' = TRUE
  /\ Starts(NewCall("older", activeThreadId, oldestReplyId), calls)
  /\ UNCHANGED <<server, inRoom, threads, activeThreadId, replies, oldestReplyId,
                 hasMoreReplies, repliesError, counted, history>>

(* isCurrent of loadReplies and loadOlderReplies, the room of loadThreads.  *)
IsCurrent(c) == inRoom /\ (c.kind # "threads" => activeThreadId = c.thread)

(* mergeReplies: what arrived live while the request ran is kept. *)
Merged(page) == replies \cup page

Ended(c) ==
  /\ calls' = calls \ {c}
  /\ loadingOlderReplies' = (loadingOlderReplies /\ ~(c.kind = "older" /\ IsCurrent(c)))
  /\ crossed' = (crossed \/ (c.kind # "threads" /\ IsCurrent(c) /\ c.old))
  /\ UNCHANGED <<server, inRoom, activeThreadId, counted, raced>>

PageArrives(c) ==
  /\ c \in calls /\ c.answered
  /\ IF IsCurrent(c) /\ c.kind # "threads"
     THEN /\ replies' = Merged(c.page)
          /\ hasMoreReplies' = (Cardinality(c.page) >= ReplyLimit)
          /\ oldestReplyId' = IF c.page = {} THEN oldestReplyId ELSE Min(c.page)
     ELSE UNCHANGED <<replies, hasMoreReplies, oldestReplyId>>
  /\ threads' = IF IsCurrent(c) /\ c.kind = "threads" THEN c.counts ELSE threads
  /\ UNCHANGED repliesError
  /\ Ended(c)

CallFails(c) ==
  /\ c \in calls /\ ~c.answered
  /\ repliesError' = (repliesError \/ (c.kind = "replies" /\ IsCurrent(c)))
  /\ UNCHANGED <<threads, replies, hasMoreReplies, oldestReplyId>>
  /\ Ended(c)

(* The button of ThreadList after an error; the room again.               *)
LoadThreads ==
  /\ inRoom /\ \A c \in calls : c.kind # "threads"
  /\ Starts(NewCall("threads", NoThread, 0), calls)
  /\ UNCHANGED <<server, inRoom, threads, panel, counted, history>>

----------------------------------------------------------------------------
OnItsWay(i) == \E c \in calls : c.answered /\ i \in c.page

(* applyReply, of a message:new that is delivered once more or for the     *)
(* last time.                                                              *)
NewReply(e, again) ==
  LET i == e.id
      t == log[i]
      isOpen == activeThreadId = t
      late == i \in deleted /\ [type |-> "deleted", id |-> i] \notin todo IN
  /\ e \in todo /\ e.type = "new" /\ inRoom
  /\ todo' = IF again THEN todo ELSE todo \ {e}
  /\ replies' = IF isOpen THEN replies \cup {i} ELSE replies
  /\ IF (isOpen /\ i \in replies) \/ i \in counted
     THEN UNCHANGED <<threads, counted>>
     ELSE /\ threads' = [threads EXCEPT ![t] = IF @ = Unlisted THEN @ ELSE @ + 1]
          /\ counted' = counted \cup {i}
  /\ raced' = IF late THEN raced \cup {i} ELSE raced
  /\ UNCHANGED <<log, deleted, inRoom, activeThreadId, oldestReplyId, hasMoreReplies,
                 loadingOlderReplies, repliesError, calls, crossed>>

(* removeReply; the count stays, as it does on the server. *)
ReplyDeleted(e) ==
  /\ e \in todo /\ e.type = "deleted"
  /\ todo' = todo \ {e}
  /\ replies' = replies \ {e.id}
  /\ raced' = IF OnItsWay(e.id) THEN raced \cup {e.id} ELSE raced
  /\ UNCHANGED <<log, deleted, inRoom, threads, activeThreadId, oldestReplyId, hasMoreReplies,
                 loadingOlderReplies, repliesError, counted, calls, crossed>>

----------------------------------------------------------------------------
Next ==
  \/ \E t \in Threads : Store(t) \/ OpenThread(t)
  \/ \E i \in 1..Len(log) : Delete(i)
  \/ \E e \in todo :
       AnnouncementLost(e) \/ ReplyDeleted(e) \/ \E again \in BOOLEAN : NewReply(e, again)
  \/ \E c \in calls : ServerReads(c) \/ PageArrives(c) \/ CallFails(c)
  \/ EnterRoom \/ LeaveRoom \/ ClosePanel \/ Retry \/ LoadOlderReplies \/ LoadThreads

Spec == Init /\ [][Next]_vars

----------------------------------------------------------------------------
(* Properties *)

Settled ==
  /\ todo = {} /\ ~repliesError
  /\ \A c \in calls : c.kind = "threads" \/ ~IsCurrent(c)

(* The open thread shows its own replies only, and in the end exactly those *)
(* that are stored and not deleted from the oldest one fetched on, however  *)
(* pages, live replies, deletions and switches between threads and rooms    *)
(* interleave: except for replies an event of which was lost or overtaken,  *)
(* and except after a page for an earlier opening of the same thread.       *)
RepliesAreExact ==
  /\ \A i \in replies : log[i] = activeThreadId
  /\ Settled /\ ~crossed /\ activeThreadId # NoThread =>
       \A i \in StoredIn(activeThreadId) \ raced :
         i >= oldestReplyId => (i \in replies <=> i \notin deleted)

(* What the comment in applyReply says: "A reply counts once, open thread or *)
(* closed".                                                                 *)
RepliesCountOnce == \A t \in Threads : threads[t] <= Cardinality(StoredIn(t))
================================================================================
