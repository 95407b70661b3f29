------------------------------- MODULE AgentGate -------------------------------
(***************************************************************************)
(* What POST /api/agents/message keeps in process memory about one agent:  *)
(* the messages counted in its current window of a minute, and for every   *)
(* room the text of the last message stored there, against which the next  *)
(* one is compared for five seconds.  The rows the handler writes are in   *)
(* Messaging.                                                              *)
(*                                                                         *)
(* Everything up to the participant query runs without an await.           *)
(*                                                                         *)
(* Source: server/src/routes/agents.ts                                     *)
(***************************************************************************)
EXTENDS FiniteSets, Integers

CONSTANTS
  Rooms,
  Texts,        \* texts, no two of them similar
  MaxSends,     \* bound of the requests
  MaxPerMinute, \* maxMessagesPerMinute
  Window,       \* AGENT_RATE_LIMIT_WINDOW_MS
  Dedup,        \* DEDUP_WINDOW_MS
  MaxNow        \* bound of the clock

(* What an instance assumes: there is something to send, and the limits    *)
(* are positive numbers.                                                   *)
Configured ==
  /\ Rooms # {} /\ Texts # {}
  /\ MaxSends \in Nat /\ MaxNow \in Nat /\ Dedup \in Nat
  /\ MaxPerMinute \in Nat \ {0} /\ Window \in Nat \ {0}

VARIABLES
  now,
  window,     \* agentMessageCounts of the token
  recent,     \* recentAgentMessages of the agent, by room
  member,     \* rooms the agent takes part in whose project is not closed
  req,        \* requests
  stored,     \* history: requests whose message is in the database
  duplicate   \* history: requests refused as duplicates

vars == <<now, window, recent, member, req, stored, duplicate>>

Sends == 1..MaxSends     \* requests, in the order in which they are sent

NoWindow == [count |-> 0, windowStart |-> -Window]
NoText == [content |-> CHOOSE t \in Texts : TRUE, timestamp |-> -Dedup]
Unsent == [pc |-> "unsent", room |-> CHOOSE r \in Rooms : TRUE,
           content |-> CHOOSE t \in Texts : TRUE, at |-> 0, counted |-> FALSE]

TypeOK ==
  /\ now \in 0..MaxNow
  /\ window \in [count: 0..MaxPerMinute, windowStart: -Window..MaxNow]
  /\ recent \in [Rooms -> [content: Texts, timestamp: -Dedup..MaxNow]]
  /\ member \subseteq Rooms
  /\ req \in [Sends ->
       [pc: {"unsent", "check", "store", "stored", "done"}, room: Rooms, content: Texts,
        at: 0..MaxNow, counted: BOOLEAN]]
  /\ stored \subseteq Sends /\ duplicate \subseteq Sends

Init ==
  /\ now = 0 /\ window = NoWindow /\ recent = [r \in Rooms |-> NoText] /\ member = Rooms
  /\ req = [s \in Sends |-> Unsent] /\ stored = {} /\ duplicate = {}

----------------------------------------------------------------------------
(* Faults: mutated forms of the definitions below. *)
RememberedEarly(s) ==
  /\ req[s].pc = "check"
  /\ recent' = [recent EXCEPT ![req[s].room] =
       [content |-> req[s].content, timestamp |-> req[s].at]]
  /\ req' = [req EXCEPT ![s].pc = IF req[s].room \in member THEN "store" ELSE "done"]
  /\ UNCHANGED <<now, window, member, stored, duplicate>>

KeepsItsStart(w) == IF now - w.windowStart >= Window THEN [w EXCEPT !.count = 0] ELSE w

----------------------------------------------------------------------------
(* The window a request falls in: a new one when the last is over. *)
NextWindow(w) ==
  IF now - w.windowStart >= Window THEN [count |-> 0, windowStart |-> now] ELSE w

IsDuplicate(room, text) ==
  now - recent[room].timestamp < Dedup /\ recent[room].content = text

(* Over the limit (429), malformed or a control string (400, 422), a       *)
(* duplicate (429), or on to the queries.  All but the first are counted.  *)
Send(s, room, text, wellFormed) ==
  LET w == NextWindow(window)
      over == w.count >= MaxPerMinute
      refused == ~wellFormed \/ IsDuplicate(room, text) IN
  /\ req[s].pc = "unsent" /\ \A o \in 1..(s - 1) : req[o].pc # "unsent"
  /\ window' = IF over THEN w ELSE [w EXCEPT !.count = @ + 1]
  /\ req' = [req EXCEPT ![s] =
       [pc |-> IF over \/ refused THEN "done" ELSE "check",
        room |-> room, content |-> text, at |-> now, counted |-> ~over]]
  /\ duplicate' = IF ~over /\ wellFormed /\ refused THEN duplicate \cup {s} ELSE duplicate
  /\ UNCHANGED <<now, recent, member, stored>>

(* Participation, the linked project and the thread. *)
Check(s) ==
  /\ req[s].pc = "check"
  /\ req' = [req EXCEPT ![s].pc = IF req[s].room \in member THEN "store" ELSE "done"]
  /\ UNCHANGED <<now, window, recent, member, stored, duplicate>>

(* A query fails, or the thread is not of this room. *)
Fail(s) ==
  /\ req[s].pc \in {"check", "store"}
  /\ req' = [req EXCEPT ![s].pc = "done"]
  /\ UNCHANGED <<now, window, recent, member, stored, duplicate>>

Store(s) ==
  /\ req[s].pc = "store"
  /\ req' = [req EXCEPT ![s].pc = "stored"]
  /\ stored' = stored \cup {s}
  /\ UNCHANGED <<now, window, recent, member, duplicate>>

(* The handler goes on after the insert.  The time is that of the request. *)
Remember(s) ==
  /\ req[s].pc = "stored"
  /\ recent' = [recent EXCEPT ![req[s].room] =
       [content |-> req[s].content, timestamp |-> req[s].at]]
  /\ req' = [req EXCEPT ![s].pc = "done"]
  /\ UNCHANGED <<now, window, member, stored, duplicate>>

----------------------------------------------------------------------------
JoinOrLeave(r) ==
  /\ member' = IF r \in member THEN member \ {r} ELSE member \cup {r}
  /\ UNCHANGED <<now, window, recent, req, stored, duplicate>>

Tick ==
  /\ now < MaxNow /\ now' = now + 1
  /\ UNCHANGED <<window, recent, member, req, stored, duplicate>>

(* The server stops and starts: the maps are empty, requests in flight are *)
(* forgotten, and so are the counts of the requests before.                *)
Restart ==
  /\ window' = NoWindow /\ recent' = [r \in Rooms |-> NoText]
  /\ req' = [s \in Sends |-> [req[s] EXCEPT !.counted = FALSE,
                              !.pc = IF @ = "unsent" THEN @ ELSE "done"]]
  /\ UNCHANGED <<now, member, stored, duplicate>>

Next ==
  \/ \E s \in Sends :
       \/ \E room \in Rooms, text \in Texts, ok \in BOOLEAN : Send(s, room, text, ok)
       \/ Check(s) \/ Fail(s) \/ Store(s) \/ Remember(s)
  \/ \E r \in Rooms : JoinOrLeave(r)
  \/ Tick \/ Restart

Spec == Init /\ [][Next]_vars

----------------------------------------------------------------------------
(* Properties *)

(* Only a stored message makes the next one a duplicate: whoever is        *)
(* refused as one has had the same text stored in the room by a request    *)
(* sent less than five seconds before ("a send refused above ... must not  *)
(* make the corrected retry of the same text a duplicate").                *)
RefusedWereStored ==
  \A s \in duplicate :
    \E m \in stored : /\ req[m].room = req[s].room /\ req[m].content = req[s].content
                      /\ req[s].at - req[m].at < Dedup

(* A fixed window opened by its first request lets through less than twice *)
(* its limit in any minute, however the requests overlap: that request is  *)
(* a full minute older than the next window.                               *)
RateIsBounded ==
  \A t \in 0..MaxNow :
    Cardinality({s \in Sends : req[s].counted /\ req[s].at \in t..(t + Window - 1)})
      < 2 * MaxPerMinute
================================================================================
