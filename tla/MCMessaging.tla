------------------------------ MODULE MCMessaging ------------------------------
(* Messaging for TLC, with two casts: one person who sends and opens       *)
(* threads in all rooms, and people, agents and admins around one message  *)
(* of one room.                                                            *)
EXTENDS Messaging, TLC

CONSTANTS
  ann,
  ThreadKinds, MessageKinds   \* the requests of each cast

VARIABLES
  part,         \* the cast: "threads" or "message"
  home          \* the room of the one message

MCOwner == [r \in Rooms |-> ann]

MessagingInit ==
  /\ part \in {"threads", "message"}
  /\ IF part = "message" THEN home \in Rooms ELSE home = NoRoom
  /\ Init
  /\ \A r \in Rooms \ {home} : member[r] = {ann}

(* Of the people only ann does anything, and projects stay open. *)
AnnAlone ==
  /\ \A q \in Requests : /\ req'[q].kind \in ThreadKinds \cup {"none"}
                         /\ req'[q].who \in {ann, Nobody}
  /\ \A r \in Rooms : member'[r] \subseteq {ann} /\ room'[r] # "closed"
  /\ People \ {ann} \subseteq user'

(* Nothing happens but in the room of the one message, and without threads. *)
OneMessage ==
  /\ \A q \in Requests : /\ req'[q].kind \in MessageKinds \cup {"none"}
                         /\ req'[q].rooms \subseteq {home} /\ req'[q].thread = NoThread
  /\ \A r \in Rooms \ {home} : room'[r] = room[r] /\ member'[r] \subseteq member[r]
  /\ Cardinality({m \in Messages : message'[m].state # "unused"}) <= 1

MessagingNext ==
  /\ UNCHANGED <<part, home>>
  /\ \/ part = "threads" /\ Next /\ AnnAlone
     \/ part = "message" /\ Next /\ OneMessage

MessagingSpec == MessagingInit /\ [][MessagingNext]_<<part, home, vars>>

Symmetry == Permutations(Messages) \cup Permutations(Threads) \cup Permutations(Requests)
  \cup Permutations(Rooms)
=============================================================================
