-------------------------------- MODULE Presence --------------------------------
(***************************************************************************)
(* Who is shown as online: the Redis set online_users, which the handlers  *)
(* of socket connections keep.                                             *)
(*                                                                         *)
(* The name goes into the set when a socket connects; the handler that     *)
(* takes it out again is registered two queries later.  Whether a socket   *)
(* was its user's last is decided, and the name taken out, in one go: the  *)
(* commands reach Redis in the order they were given.  A command given     *)
(* while Redis is away fails and is not repeated.  An error the handlers   *)
(* do not catch ends the process, unless error reporting (external) takes  *)
(* it.                                                                     *)
(*                                                                         *)
(* Sources: server/src/services/socketService.ts, server/src/index.ts      *)
(***************************************************************************)
CONSTANTS
  Users,
  Sockets

(* What an instance assumes. *)
Configured == Users # {}

VARIABLES
  account,    \* users whose row exists
  sock,       \* the sockets and where their handlers stand
  online,     \* online_users
  redisUp,    \* whether Redis answers
  missed,     \* history: users whose name could not be put into the set
  excused,    \* history: users whose name stayed because Redis was away or
              \* the process ended
  hasty       \* history: users whose last socket went without handlers

vars == <<account, sock, online, redisUp, missed, excused, hasty>>

Connected == {"setup", "ready", "deaf"}
NoSocket == [pc |-> "off", user |-> CHOOSE u \in Users : TRUE]

TypeOK ==
  /\ account \subseteq Users /\ online \subseteq Users
  /\ missed \subseteq Users /\ excused \subseteq Users /\ hasty \subseteq Users
  /\ sock \in [Sockets -> [pc: {"off", "setup", "ready", "deaf", "leaving"}, user: Users]]
  /\ redisUp \in BOOLEAN

Init ==
  /\ account = Users /\ sock = [s \in Sockets |-> NoSocket] /\ online = {}
  /\ redisUp = TRUE /\ missed = {} /\ excused = {} /\ hasty = {}

SocketsOf(u) == {s \in Sockets : sock[s].pc \in Connected /\ sock[s].user = u}

----------------------------------------------------------------------------
(* Faults: mutated forms of the definitions below. *)
NoneRemain(s) == {}

----------------------------------------------------------------------------
(* The connection handler starts: sAdd, whose failure is only logged. *)
Connect(s, u) ==
  /\ sock[s].pc = "off" /\ u \in account
  /\ sock' = [sock EXCEPT ![s] = [pc |-> "setup", user |-> u]]
  /\ IF redisUp
     THEN online' = online \cup {u} /\ missed' = missed \ {u}
     ELSE missed' = missed \cup {u} /\ UNCHANGED online
  /\ UNCHANGED <<account, redisUp, excused, hasty>>

(* The last-seen update and the rooms are done: handlers are registered. *)
Register(s) ==
  /\ sock[s].pc = "setup" /\ sock[s].user \in account
  /\ sock' = [sock EXCEPT ![s].pc = "ready"]
  /\ UNCHANGED <<account, online, redisUp, missed, excused, hasty>>

(* One of the two queries fails, or the row is gone: the process ends, or  *)
(* the socket stays without handlers.                                      *)
SetupFails(s) ==
  /\ sock[s].pc = "setup"
  /\ sock' = [sock EXCEPT ![s].pc = "deaf"]
  /\ UNCHANGED <<account, online, redisUp, missed, excused, hasty>>

(* The other sockets of the user that the server holds. *)
Remaining(s) == SocketsOf(sock[s].user) \ {s}

(* A registered disconnect handler runs up to its last-seen update. *)
Disconnect(s) ==
  LET u == sock[s].user IN
  /\ sock[s].pc = "ready"
  /\ sock' = [sock EXCEPT ![s].pc = "leaving"]
  /\ IF Remaining(s) # {} THEN UNCHANGED <<online, excused, hasty>>
     ELSE IF redisUp
     THEN online' = online \ {u} /\ excused' = excused \ {u} /\ hasty' = hasty \ {u}
     ELSE excused' = excused \cup {u} /\ UNCHANGED <<online, hasty>>
  /\ UNCHANGED <<account, redisUp, missed>>

(* A socket that goes before its handlers are registered. *)
DropUnregistered(s) ==
  LET u == sock[s].user IN
  /\ sock[s].pc \in {"setup", "deaf"}
  /\ sock' = [sock EXCEPT ![s] = NoSocket]
  /\ hasty' = IF Remaining(s) = {} THEN hasty \cup {u} ELSE hasty
  /\ UNCHANGED <<account, online, redisUp, missed, excused>>

(* The last-seen update, of a row that is there. *)
Leave(s) ==
  /\ sock[s].pc = "leaving" /\ sock[s].user \in account
  /\ sock' = [sock EXCEPT ![s] = NoSocket]
  /\ UNCHANGED <<account, online, redisUp, missed, excused, hasty>>

(* The update fails, always so when the account was deleted while the      *)
(* socket was open; somebody takes the error.                              *)
LeaveFails(s) ==
  /\ sock[s].pc = "leaving"
  /\ sock' = [sock EXCEPT ![s] = NoSocket]
  /\ UNCHANGED <<account, online, redisUp, missed, excused, hasty>>

(* The process ends, by an error nobody takes or in any other way; Redis   *)
(* keeps what it has.                                                      *)
Crash ==
  /\ \E s \in Sockets : sock[s].pc # "off"
  /\ sock' = [s \in Sockets |-> NoSocket]
  /\ excused' = excused \cup {u \in Users : SocketsOf(u) # {}}
  /\ UNCHANGED <<account, online, redisUp, missed, hasty>>

DeleteAccount(u) ==
  /\ u \in account
  /\ account' = account \ {u}
  /\ UNCHANGED <<sock, online, redisUp, missed, excused, hasty>>

RedisUpOrDown ==
  /\ redisUp' = ~redisUp
  /\ UNCHANGED <<account, sock, online, missed, excused, hasty>>

Next ==
  \/ \E s \in Sockets :
       \/ \E u \in Users : Connect(s, u)
       \/ Register(s) \/ SetupFails(s) \/ Disconnect(s) \/ DropUnregistered(s)
       \/ Leave(s) \/ LeaveFails(s)
  \/ \E u \in Users : DeleteAccount(u)
  \/ Crash \/ RedisUpOrDown

Spec == Init /\ [][Next]_vars

----------------------------------------------------------------------------
(* Properties *)

(* Whoever holds an open connection is shown as online, through any order  *)
(* of connections and disconnections of the same user, unless Redis could  *)
(* not be told when the user came (connection, disconnect: "Only mark      *)
(* offline if this was the user's LAST socket connection").                *)
ConnectedAreOnline ==
  \A u \in Users \ missed : SocketsOf(u) # {} => u \in online

(* Nobody else is, unless the last connection went before its handlers     *)
(* were registered, with the process, or while Redis was away.             *)
GoneAreOffline ==
  \A u \in Users \ (excused \cup hasty) : SocketsOf(u) = {} => u \notin online

(* The same without the first of these reasons, as the documents say: "the *)
(* online_users presence set entry is removed when the user's last socket  *)
(* disconnects".                                                           *)
LastSocketTakesTheName ==
  \A u \in Users \ excused : SocketsOf(u) = {} => u \notin online
================================================================================
