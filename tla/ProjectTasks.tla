----------------------------- MODULE ProjectTasks -----------------------------
(***************************************************************************)
(* The tasks of one project and the columns of its workflow: tasks are     *)
(* created, edited, moved, handed over and deleted by team members, the    *)
(* owner enables and disables optional columns, accounts are deleted.      *)
(*                                                                         *)
(* No handler is a transaction.  Each reads the rows it needs, decides on  *)
(* what it read, and writes by id an await later; an update that moved a   *)
(* task to a column of Announced then posts a message to the room of the   *)
(* project.  Fields of a task that nothing here depends on (title,         *)
(* reviewer, priority, due date, notes) are left out; their guard is the   *)
(* one of the assignee.  How the team list is written is in ProjectTeam.   *)
(*                                                                         *)
(* Sources: server/src/routes/projects.ts, server/src/routes/auth.ts,      *)
(* server/src/services/resultRouterService.ts, schema.prisma               *)
(***************************************************************************)
EXTENDS FiniteSets, Integers

CONSTANTS
  Users, Owner,
  Tasks,
  Core, Optional,      \* columns every workflow has, "todo" too; others it may have
  Announced,           \* columns whose arrivals are announced in the room
  Same,                \* a field the body of a request leaves out
  Requests,            \* requests in flight
  Bodies               \* bodies of create and update requests

Columns == Core \cup Optional
Fields == [status: Columns \cup {Same}, assignedTo: Users \cup {Same}]

(* What an instance assumes: a project has an owner and the column of new  *)
(* tasks, there is a task, and bodies of requests are such bodies.         *)
Configured == Owner \in Users /\ Tasks # {} /\ "todo" \in Core /\ Bodies \subseteq Fields

VARIABLES
  project,    \* "kept" or "gone"
  enabled,    \* the optional columns of the workflow
  team,       \* teamMemberIds
  users,      \* accounts that exist
  task,       \* the table of tasks
  req,        \* requests in flight
  members,    \* history: everyone the team list ever held
  held,       \* history: everyone a task was ever assigned to
  settled,    \* history: columns whose arrival was announced, or lost with its request
  raced       \* history: a write went by a workflow or tasks that changed meanwhile

vars == <<project, enabled, team, users, task, req, members, held, settled, raced>>
history == <<members, held, settled, raced>>

NoTask == [kept |-> FALSE, status |-> "todo", assignedTo |-> Owner]
Idle == [pc |-> "idle", who |-> Owner, task |-> CHOOSE t \in Tasks : TRUE,
         body |-> [status |-> Same, assignedTo |-> Same],
         from |-> "todo", columns |-> {}, late |-> FALSE]

TaskRows == [kept: BOOLEAN, status: Columns, assignedTo: Users]

TypeOK ==
  /\ project \in {"kept", "gone"} /\ enabled \subseteq Optional
  /\ team \subseteq Users /\ users \subseteq Users
  /\ task \in [Tasks -> TaskRows]
  /\ req \in [Requests ->
       [pc: {"idle", "create", "update", "announce", "delete", "count", "workflow"},
        who: Users, task: Tasks, from: Columns, columns: SUBSET Optional, late: BOOLEAN,
        body: Fields]]
  /\ members \subseteq Users /\ raced \in BOOLEAN
  /\ held \in [Tasks -> SUBSET Users] /\ settled \in [Tasks -> SUBSET Columns]

(* A new project has the core columns (defaultWorkflowConfig); its team is *)
(* whoever was added since.                                                *)
Init ==
  /\ project = "kept" /\ enabled = {} /\ users = Users
  /\ team \in {s \in SUBSET Users : Owner \in s}
  /\ task = [t \in Tasks |-> NoTask]
  /\ req = [r \in Requests |-> Idle]
  /\ members = team /\ raced = FALSE
  /\ held = [t \in Tasks |-> {}] /\ settled = [t \in Tasks |-> {}]

----------------------------------------------------------------------------
(* Faults: mutated forms of the definitions below. *)
AnyoneMoves(row, u, body) == TRUE
AnyoneIsAssignable(u) == TRUE
NothingInDisabled(columns) == TRUE
TellsTheSame(from, now) == now = from

----------------------------------------------------------------------------
(* isProjectMember *)
IsMember(u) == u = Owner \/ u \in team

(* normalizeTeam: who a task may be given to. *)
Assignable(u) == u \in team \cup {Owner}

OnBoard(column) == column \in Core \cup enabled

(* What updateTask asks of a user who wants to change row by body. *)
MayMove(row, u, body) == body.status \in {Same, row.status} \/ row.assignedTo = u
MayEdit(row, u, body) == body.assignedTo = Same \/ u = Owner \/ row.assignedTo = u

ValidBody(body) ==
  /\ body.status # Same => OnBoard(body.status)
  /\ body.assignedTo # Same => Assignable(body.assignedTo)

(* The columns a body sets, the others kept: prisma.task.update with data. *)
Patched(row, body) ==
  [row EXCEPT !.status = IF body.status = Same THEN @ ELSE body.status,
              !.assignedTo = IF body.assignedTo = Same THEN @ ELSE body.assignedTo]

(* updated.status !== task.status, and a column the room hears of. *)
WorthTelling(from, now) == now # from /\ now \in Announced

(* A request starts; from is the column of the task it read.               *)
Begin(r, u, t, body, pc) ==
  /\ req[r].pc = "idle" /\ u \in users /\ project = "kept"
  /\ req' = [req EXCEPT ![r] =
       [Idle EXCEPT !.pc = pc, !.who = u, !.task = t, !.body = body, !.from = task[t].status]]
  /\ UNCHANGED <<project, enabled, team, users, task, history>>

Finish(r) == req' = [req EXCEPT ![r] = Idle]

(* Request r writes and goes on as q: what the requests at pcs have read is *)
(* out of date now, and so, perhaps, was what r had read.                   *)
Overtake(r, q, pcs) ==
  /\ req' = [o \in Requests |-> IF o = r THEN q
             ELSE [req[o] EXCEPT !.late = @ \/ req[o].pc \in pcs]]
  /\ raced' = (raced \/ req[r].late)

WriteTask(r, q, t, row) ==
  /\ task' = [task EXCEPT ![t] = row]
  /\ held' = [held EXCEPT ![t] = @ \cup {row.assignedTo}]
  /\ Overtake(r, q, {"workflow"})

----------------------------------------------------------------------------
(* The arrivals that qs are to announce are settled. *)
Settle(qs) ==
  settled' = [t \in Tasks |-> settled[t] \cup {q.from : q \in {x \in qs : x.task = t}}]

(* POST /:id/tasks.  The task is given to its creator unless the body says *)
(* otherwise; the creator and the project are foreign keys.  The room does *)
(* not hear of it.                                                         *)
CreateBegin(r, u, t, body) ==
  /\ IsMember(u)
  /\ held[t] = {} /\ \A o \in Requests : req[o].pc = "create" => req[o].task # t
  /\ ValidBody(body)
  /\ body.assignedTo = Same => Assignable(u)
  /\ Begin(r, u, t, body, "create")

CreateWrite(r) ==
  LET q == req[r]
      row == Patched([NoTask EXCEPT !.kept = TRUE, !.assignedTo = q.who], q.body)
      stored == project = "kept" /\ q.who \in users IN
  /\ q.pc = "create"
  /\ IF stored
     THEN WriteTask(r, Idle, q.task, row) /\ Settle({[q EXCEPT !.from = row.status]})
     ELSE Finish(r) /\ UNCHANGED <<task, held, raced, settled>>
  /\ UNCHANGED <<project, enabled, team, users, members>>

(* PATCH and PUT of a task: every check is made on the rows of one query,  *)
(* before the update by id.                                                *)
UpdateBegin(r, u, t, body) ==
  /\ task[t].kept /\ IsMember(u)
  /\ MayMove(task[t], u, body) /\ MayEdit(task[t], u, body) /\ ValidBody(body)
  /\ Begin(r, u, t, body, "update")

UpdateWrite(r) ==
  LET q == req[r]
      now == Patched(task[q.task], q.body) IN
  /\ q.pc = "update" /\ task[q.task].kept
  /\ WriteTask(r, IF WorthTelling(q.from, now.status)
                  THEN [Idle EXCEPT !.pc = "announce", !.who = q.who, !.task = q.task,
                                    !.from = now.status]
                  ELSE Idle, q.task, now)
  /\ UNCHANGED <<project, enabled, team, users, members, settled>>

(* onTaskStatusChanged reads the task and its project again and posts with *)
(* the mover as sender.  Of a deleted task or project, or in the name of a *)
(* deleted account, nothing can be said; such an arrival counts as settled. *)
Announce(r) ==
  LET q == req[r] IN
  /\ q.pc = "announce"
  /\ Finish(r)
  /\ Settle({q})
  /\ UNCHANGED <<project, enabled, team, users, task, members, held, raced>>

(* DELETE of a task, by the owner or the assignee that was read.           *)
DeleteBegin(r, u, t) ==
  /\ task[t].kept /\ IsMember(u)
  /\ u = Owner \/ task[t].assignedTo = u
  /\ Begin(r, u, t, Idle.body, "delete")

DeleteWrite(r) ==
  /\ req[r].pc = "delete" /\ task[req[r].task].kept
  /\ task' = [task EXCEPT ![req[r].task].kept = FALSE]
  /\ Finish(r)
  /\ UNCHANGED <<project, enabled, team, users, history>>

(* An update or a deletion of a row that is gone: a 500, nothing written.  *)
WriteMisses(r) ==
  /\ req[r].pc \in {"update", "delete"} /\ ~task[req[r].task].kept
  /\ Finish(r)
  /\ UNCHANGED <<project, enabled, team, users, task, history>>

----------------------------------------------------------------------------
(* PUT /:id/workflow by the owner: the columns wanted, a count of the      *)
(* tasks in the others (a 400 when there are any), the update by id.       *)
WorkflowBegin(r, columns) ==
  /\ req[r].pc = "idle" /\ Owner \in users /\ project = "kept"
  /\ req' = [req EXCEPT ![r] = [Idle EXCEPT !.pc = "count", !.columns = columns]]
  /\ UNCHANGED <<project, enabled, team, users, task, history>>

NoneInDisabled(columns) ==
  \A t \in Tasks : task[t].kept => task[t].status \in Core \cup columns

WorkflowCount(r) ==
  /\ req[r].pc = "count"
  /\ IF NoneInDisabled(req[r].columns)
     THEN req' = [req EXCEPT ![r].pc = "workflow"]
     ELSE Finish(r)
  /\ UNCHANGED <<project, enabled, team, users, task, history>>

WorkflowWrite(r) ==
  /\ req[r].pc = "workflow"
  /\ IF project = "kept"
     THEN enabled' = req[r].columns /\ Overtake(r, Idle, {"create", "update"})
     ELSE Finish(r) /\ UNCHANGED <<enabled, raced>>
  /\ UNCHANGED <<project, team, users, task, members, held, settled>>

----------------------------------------------------------------------------
(* Somebody is added to the team list (the writers are in ProjectTeam).    *)
Join(u) ==
  /\ project = "kept" /\ u \in users \ team
  /\ team' = team \cup {u} /\ members' = members \cup {u}
  /\ UNCHANGED <<project, enabled, users, task, req, held, settled, raced>>

(* DELETE /me of someone else than the owner: off the team, the tasks go   *)
(* to the owner, in one transaction.                                       *)
DeleteAccount(u) ==
  /\ u \in users \ {Owner}
  /\ users' = users \ {u} /\ team' = team \ {u}
  /\ task' = [t \in Tasks |->
       [task[t] EXCEPT !.assignedTo = IF @ = u /\ task[t].kept THEN Owner ELSE @]]
  /\ held' = [t \in Tasks |->
       IF task[t].kept /\ task[t].assignedTo = u THEN held[t] \cup {Owner} ELSE held[t]]
  /\ UNCHANGED <<project, enabled, req, members, settled, raced>>

(* DELETE /:id, or the deletion of the owner's account: the tasks cascade. *)
DeleteProject ==
  /\ project = "kept"
  /\ project' = "gone"
  /\ task' = [t \in Tasks |-> [task[t] EXCEPT !.kept = FALSE]]
  /\ UNCHANGED <<enabled, team, users, req, history>>

(* The server stops and starts: requests in flight are forgotten.          *)
Restart ==
  /\ req' = [r \in Requests |-> Idle]
  /\ Settle({req[r] : r \in {x \in Requests : req[x].pc = "announce"}})
  /\ UNCHANGED <<project, enabled, team, users, task, members, held, raced>>

Step(r) ==
  \/ CreateWrite(r) \/ UpdateWrite(r) \/ Announce(r) \/ DeleteWrite(r) \/ WriteMisses(r)
  \/ WorkflowCount(r) \/ WorkflowWrite(r)

Next ==
  \/ \E r \in Requests :
       \/ Step(r)
       \/ \E u \in Users, t \in Tasks, body \in Bodies :
            CreateBegin(r, u, t, body) \/ UpdateBegin(r, u, t, body)
       \/ \E u \in Users, t \in Tasks : DeleteBegin(r, u, t)
       \/ \E columns \in SUBSET Optional : WorkflowBegin(r, columns)
  \/ \E u \in Users : Join(u) \/ DeleteAccount(u)
  \/ DeleteProject
  \/ Restart

Spec == Init /\ [][Next]_vars

(* A handler that has answered its awaits goes on: Node runs it as long as *)
(* the process lives.                                                      *)
Fairness == \A r \in Requests : WF_vars(Step(r))
FairSpec == Spec /\ Fairness
----------------------------------------------------------------------------
(* Properties *)

(* A task stands in a column of the workflow, unless a write once overtook *)
(* another: an owner cannot close a column over tasks that were there when *)
(* the tasks were counted (PUT /:id/workflow), and no task is created in   *)
(* or moved to a column that was closed when it was looked up.             *)
ColumnsAreEnabled == raced \/ \A t \in Tasks : task[t].kept => OnBoard(task[t].status)

(* A task is never assigned to somebody who was not once on the team,      *)
(* whatever became of the team between the check and the write, and of the *)
(* assignee's account (updateTask, POST tasks, DELETE /me).                *)
AssigneesWereMembers ==
  \A t \in Tasks : task[t].kept => task[t].assignedTo \in members \cup {Owner}

(* Only somebody who held a task once moves it (updateTask: "Only the      *)
(* current assignee can move this task"); all that others can do is put it *)
(* back to the column they read, when it was moved before their write.     *)
MoversHeldTheTask ==
  [][\A t \in Tasks : task[t].kept /\ task'[t].kept /\ task'[t].status # task[t].status =>
       \E r \in Requests :
         /\ req[r].pc = "update" /\ req[r].task = t /\ req'[r].pc # "update"
         /\ req[r].who \in held[t] \/ req[r].from = task'[t].status]_vars

(* The room hears of every task that arrives in a column of Announced,     *)
(* also when moves, edits and handovers of it overlap, unless the task is  *)
(* deleted or the server stops between the move and its announcement       *)
(* (updateTask, onTaskStatusChanged).                                      *)
ArrivalsAreAnnounced ==
  \A t \in Tasks, s \in Announced :
    (task[t].kept /\ task[t].status = s) ~> (s \in settled[t] \/ ~task[t].kept)

(* Nobody takes it for granted that another told: a task is in a column of *)
(* Announced only if the room heard of its arrival there, or a request is  *)
(* about to tell, though which of two moves counts as the arrival is found *)
(* by what each of them had read.                                          *)
ArrivalIsKnown(t, s) ==
  s \in settled[t] \/ \E r \in Requests : req[r].pc = "announce" /\ req[r].task = t /\ req[r].from = s

ArrivalsAreInHand ==
  \A t \in Tasks, s \in Announced : task[t].kept /\ task[t].status = s => ArrivalIsKnown(t, s)
=============================================================================
