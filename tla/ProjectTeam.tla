----------------------------- MODULE ProjectTeam -----------------------------
(***************************************************************************)
(* Who may work on a project: the owner, whoever its list teamMemberIds    *)
(* names, and whoever takes part in its linked room, whom the first access *)
(* puts on the list.                                                       *)
(*                                                                         *)
(* The list is a column that every writer replaces as a whole: it reads    *)
(* the row, adds a name and writes the list back an await later, so a name *)
(* that another writer added in between is lost.  The participants of the  *)
(* room are rows of their own, and nobody loses one to somebody else's     *)
(* addition.                                                               *)
(*                                                                         *)
(* One participant nobody invited: the system's gateway, which every new   *)
(* room gets, and which the first opening of the project puts on the list. *)
(*                                                                         *)
(* Sources: server/src/routes/{projects,rooms,agents,auth}.ts,             *)
(* schema.prisma                                                           *)
(***************************************************************************)
EXTENDS FiniteSets

CONSTANTS
  Users, Owner,
  Gateway,      \* the user gateway-system
  Agents,       \* the users an admin may take out of the room again
  Newcomers,    \* users who have no account yet
  Requests      \* requests in flight

ASSUME TeamAssumption ==
  /\ Owner \in Users /\ Agents \subseteq Users \ {Owner}
  /\ Newcomers \subseteq Users \ ({Owner} \cup Agents)
  /\ Gateway \in Users \ ({Owner} \cup Newcomers)

VARIABLES
  project,    \* "kept" or "gone"
  room,       \* the room linked to it, "kept" or "gone"
  team,       \* teamMemberIds
  inRoom,     \* participants of the linked room
  users,      \* accounts that exist
  req,        \* requests in flight
  invited,    \* history: everyone somebody entitled let in
  added,      \* history: everyone whose addition was answered with success
  removed     \* history: agents an admin took out of the room

vars == <<project, room, team, inRoom, users, req, invited, added, removed>>
history == <<invited, added, removed>>

Idle == [op |-> "none", pc |-> "idle", who |-> Owner, list |-> {}]

TypeOK ==
  /\ project \in {"kept", "gone"} /\ room \in {"kept", "gone"}
  /\ team \subseteq Users /\ inRoom \subseteq Users /\ users \subseteq Users
  /\ req \in [Requests ->
       [op: {"none", "add", "invite", "place", "register", "access", "open"},
        pc: {"idle", "transaction", "join", "read", "check", "write", "upsert", "list", "merge"},
        who: Users, list: SUBSET Users]]
  /\ invited \subseteq Users /\ added \subseteq Users /\ removed \subseteq Agents

(* POST /api/projects and POST /api/rooms create project and room in one   *)
(* transaction, with the owner in both, and the gateway in the room if it  *)
(* has an account.                                                         *)
Init ==
  /\ users \in {Users \ Newcomers, Users \ (Newcomers \cup {Gateway})}
  /\ project = "kept" /\ room = "kept"
  /\ team = {Owner} /\ inRoom = {Owner} \cup (users \cap {Gateway})
  /\ req = [r \in Requests |-> Idle]
  /\ invited = {Owner} /\ added = {Owner} /\ removed = {}

----------------------------------------------------------------------------
(* Faults: mutated forms of the definitions below. *)
OnlyTheList(u) == UNCHANGED inRoom
AnyoneTakesPart(u) == TRUE

----------------------------------------------------------------------------
(* isProjectMember, of a project row that was read. *)
IsMember(u, list) == u = Owner \/ u \in list

(* normalizeTeam(project, [u]): the list read, the owner and the new one. *)
ListWith(list, u) == list \cup {Owner, u}

(* The row of a participant is there, or is created. *)
TakePart(u) == inRoom' = inRoom \cup {u}

(* What access through the room asks. *)
TakesPart(u) == u \in inRoom

(* The foreign keys of a participant. *)
MayJoin(u) == u \in users /\ room = "kept"

Begin(r, op, pc, u) ==
  /\ req[r] = Idle
  /\ req' = [req EXCEPT ![r] =
       [op |-> op, pc |-> pc, who |-> u,
        list |-> IF pc \in {"transaction", "check", "list"} THEN team ELSE {}]]
Go(r, pc) == req' = [req EXCEPT ![r].pc = pc]
Done(r) == req' = [req EXCEPT ![r] = Idle]
Succeed(r) ==
  /\ req' = [req EXCEPT ![r] = Idle]
  /\ added' = added \cup {req[r].who}

----------------------------------------------------------------------------
(* The owner adds u (POST /:id/team, /:id/team/invite), from the project   *)
(* row that was read: list and participant in one transaction.             *)
AddBegin(r, u) ==
  /\ project = "kept" /\ Owner \in users /\ u \in users
  /\ Begin(r, "add", "transaction", u)
  /\ invited' = invited \cup {u}
  /\ UNCHANGED <<project, room, team, inRoom, users, added, removed>>

AddTransaction(r) ==
  LET u == req[r].who IN
  /\ req[r].pc = "transaction"
  /\ IF project = "kept" /\ MayJoin(u)
     THEN team' = ListWith(req[r].list, u) /\ TakePart(u) /\ Succeed(r)
     ELSE Done(r) /\ UNCHANGED <<team, inRoom, added>>
  /\ UNCHANGED <<project, room, users, invited, removed>>

(* An owner or admin of the room invites u (POST /api/rooms/:id/invite).   *)
InviteBegin(r, u) ==
  /\ room = "kept" /\ u \in users \ inRoom
  /\ Begin(r, "invite", "join", u)
  /\ invited' = invited \cup {u}
  /\ UNCHANGED <<project, room, team, inRoom, users, added, removed>>

(* An admin puts agent u in the room (PUT /api/agents/:id/rooms, add). *)
PlaceBegin(r, u) ==
  /\ room = "kept" /\ u \in users \cap Agents
  /\ Begin(r, "place", "join", u)
  /\ invited' = invited \cup {u}
  /\ UNCHANGED <<project, room, team, inRoom, users, added, removed>>

(* The participant: created by the invitation, which fails on the unique   *)
(* index when another request was faster, upserted for an agent.           *)
Join(r) ==
  LET u == req[r].who IN
  /\ req[r].pc = "join"
  /\ IF MayJoin(u) /\ (req[r].op = "invite" => u \notin inRoom)
     THEN TakePart(u) /\ Go(r, "read")
     ELSE Done(r) /\ UNCHANGED inRoom
  /\ UNCHANGED <<project, room, team, users, history>>

(* syncLinkedProjectTeam, or the project of an invite code: the row is     *)
(* read.  The invitation writes only when the list grows.                  *)
ReadProject(r) ==
  LET q == req[r]
      grows == ListWith(team, q.who) # team IN
  /\ q.pc = "read"
  /\ IF project = "kept" /\ (q.op = "invite" => grows)
     THEN req' = [req EXCEPT ![r].pc = "write", ![r].list = team] /\ UNCHANGED added
     ELSE Succeed(r)
  /\ UNCHANGED <<project, room, team, inRoom, users, invited, removed>>

(* The list goes back, by the id of the project. *)
WriteList(r) ==
  LET q == req[r] IN
  /\ q.pc = "write"
  /\ IF project = "gone" THEN Done(r) /\ UNCHANGED <<team, added>> ELSE
     /\ team' = ListWith(q.list, q.who)
     /\ \/ q.op \in {"invite", "place"} /\ Succeed(r)
        \/ q.op = "access" /\ Done(r) /\ UNCHANGED added
        \/ q.op = "register" /\ Go(r, "upsert") /\ UNCHANGED added
        \/ /\ q.op = "open" /\ UNCHANGED added
           /\ req' = [req EXCEPT ![r].pc = "list", ![r].list = ListWith(q.list, q.who)]
  /\ UNCHANGED <<project, room, inRoom, users, invited, removed>>

----------------------------------------------------------------------------
(* POST /register with a code the owner had made for an email address: the *)
(* account, the list of the project, then the participant.                 *)
Register(r, u) ==
  /\ project = "kept" /\ u \in Newcomers \ invited
  /\ Begin(r, "register", "read", u)
  /\ users' = users \cup {u} /\ invited' = invited \cup {u}
  /\ UNCHANGED <<project, room, team, inRoom, added, removed>>

RegisterUpsert(r) ==
  LET u == req[r].who IN
  /\ req[r].pc = "upsert"
  /\ IF MayJoin(u) THEN TakePart(u) /\ Succeed(r) ELSE Done(r) /\ UNCHANGED <<inRoom, added>>
  /\ UNCHANGED <<project, room, team, users, invited, removed>>

----------------------------------------------------------------------------
(* Somebody who is not on the list asks for the project (op "access":      *)
(* resolveProjectWithAccess, before any task or attachment; op "open":     *)
(* GET /:id): who takes part in the room is put on the list, others get a  *)
(* 403.                                                                    *)
AccessBegin(r, op, u) ==
  /\ project = "kept" /\ u \in users /\ ~IsMember(u, team)
  /\ Begin(r, op, "check", u)
  /\ UNCHANGED <<project, room, team, inRoom, users, history>>

AccessCheck(r) ==
  /\ req[r].pc = "check"
  /\ IF TakesPart(req[r].who) THEN Go(r, "write") ELSE Done(r)
  /\ UNCHANGED <<project, room, team, inRoom, users, history>>

(* GET /:id of a member, and after the list was written: who is in the     *)
(* room and not on the list read is added to it.                           *)
OpenBegin(r, u) ==
  /\ project = "kept" /\ u \in users /\ IsMember(u, team)
  /\ Begin(r, "open", "list", u)
  /\ UNCHANGED <<project, room, team, inRoom, users, history>>

OpenList(r) ==
  LET merged == ListWith(req[r].list, Owner) \cup inRoom IN
  /\ req[r].pc = "list"
  /\ IF merged # ListWith(req[r].list, Owner)
     THEN req' = [req EXCEPT ![r].pc = "merge", ![r].list = merged] ELSE Done(r)
  /\ UNCHANGED <<project, room, team, inRoom, users, history>>

OpenMerge(r) ==
  /\ req[r].pc = "merge"
  /\ team' = IF project = "kept" THEN req[r].list ELSE team
  /\ Done(r)
  /\ UNCHANGED <<project, room, inRoom, users, history>>

----------------------------------------------------------------------------
(* An admin takes an agent out of the room (PUT /api/agents/:id/rooms,     *)
(* remove; soft deletion of the agent): the list keeps it.                 *)
TakeOut(u) ==
  /\ u \in inRoom \cap Agents
  /\ inRoom' = inRoom \ {u} /\ removed' = removed \cup {u}
  /\ UNCHANGED <<project, room, team, users, req, invited, added>>

(* DELETE /me: the name leaves the list, the participant cascades; the     *)
(* owner's projects go with the owner, their rooms stay.                   *)
DeleteAccount(u) ==
  /\ u \in users \ Agents
  /\ users' = users \ {u}
  /\ team' = team \ {u} /\ inRoom' = inRoom \ {u}
  /\ project' = IF u = Owner THEN "gone" ELSE project
  /\ UNCHANGED <<room, req, history>>

(* DELETE of the project by its owner, or of the room by its owner or an   *)
(* admin: what there is of the two in one transaction, and the             *)
(* participants with the room.                                             *)
DeleteRoom ==
  /\ room = "kept"
  /\ project' = "gone" /\ room' = "gone" /\ team' = {} /\ inRoom' = {}
  /\ UNCHANGED <<users, req, history>>

(* The server stops and starts: requests in flight are forgotten. *)
Restart ==
  /\ req' = [r \in Requests |-> Idle]
  /\ UNCHANGED <<project, room, team, inRoom, users, history>>

Next ==
  \/ \E r \in Requests, u \in Users :
       \/ AddBegin(r, u) \/ InviteBegin(r, u) \/ PlaceBegin(r, u) \/ Register(r, u)
       \/ OpenBegin(r, u) \/ \E op \in {"access", "open"} : AccessBegin(r, op, u)
  \/ \E r \in Requests :
       \/ AddTransaction(r) \/ Join(r) \/ ReadProject(r) \/ WriteList(r) \/ RegisterUpsert(r)
       \/ AccessCheck(r) \/ OpenList(r) \/ OpenMerge(r)
  \/ \E u \in Users : TakeOut(u) \/ DeleteAccount(u)
  \/ DeleteRoom
  \/ Restart

Spec == Init /\ [][Next]_vars

----------------------------------------------------------------------------
(* Properties *)

(* Whoever was added and told so can use the project, also after another   *)
(* writer put back a list without the name: nobody is locked out by a lost *)
(* update, unless an admin took the agent out of the room                  *)
(* (addUserToProjectTeam, syncLinkedProjectTeam, POST /register).          *)
NobodyIsLockedOut ==
  project = "kept" =>
    \A u \in (added \cap users) \ removed : IsMember(u, team) \/ TakesPart(u)

(* Nobody but the gateway gets on the list or into the room who was not    *)
(* let in by the owner, an admin of the room, a system admin or a code of  *)
(* the owner, through any interleaving of the writers that repair the list *)
(* (resolveProjectWithAccess, GET /:id).                                   *)
MembersWereInvited == (team \cup inRoom) \ {Gateway} \subseteq invited
==============================================================================
