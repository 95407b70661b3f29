------------------------------- MODULE MCProjects -------------------------------
(* A project for TLC: the code by which people register for it             *)
(* (InviteCodes), who is on it (ProjectTeam) and what becomes of its tasks *)
(* (ProjectTasks, with its fairness).  Of the codes the team sees no more  *)
(* than registrations, and of the team the tasks see no more than joins    *)
(* and deleted accounts, in any order, which are actions of their own; so  *)
(* a behaviour is one of a single part.  The team has two: without the     *)
(* gateway; and with it, where nobody registers and the project stays.     *)
EXTENDS ProjectTeam, Integers

CONSTANTS
  People, Tasks, Core, Optional, Announced, Same, TaskRequests,
  MaxUses, Strangers, Nobody, Registrations

VARIABLES
  part,         \* the part whose behaviour this is
  board, enabled, boardTeam, boardUsers, task, taskReq, members, held, settled, raced,
  code, expired, codeUsers, registration, made, lost, dropped

boardVars ==
  <<board, enabled, boardTeam, boardUsers, task, taskReq, members, held, settled, raced>>

codeVars == <<code, expired, codeUsers, registration, made, lost, dropped>>

(* Bodies that move a task or hand it over. *)
TaskBody(s, a) == [status |-> s, assignedTo |-> a]
TaskBodies ==
  {TaskBody(s, Same) : s \in Core \cup Optional} \cup {TaskBody(Same, a) : a \in People}

Board == INSTANCE ProjectTasks WITH
  Users <- People, Bodies <- TaskBodies, Requests <- TaskRequests,
  project <- board, team <- boardTeam, users <- boardUsers, req <- taskReq

Invite == INSTANCE InviteCodes WITH
  Newcomers <- Strangers, Creator <- Owner, Requests <- Registrations,
  users <- codeUsers, req <- registration

ASSUME BoardAssumption == Board!Configured
ASSUME InviteAssumption == Invite!Configured

ProjectsInit ==
  /\ part \in {"codes", "team", "gateway", "board"}
  /\ Init /\ Board!Init /\ Invite!Init
  /\ part # "board" => boardTeam = {Owner}   \* initial choices, where they play no role
  /\ Gateway \in users <=> part = "gateway"

ProjectsNext ==
  /\ UNCHANGED part
  /\ \/ part = "codes" /\ Invite!Next /\ UNCHANGED <<vars, boardVars>>
     \/ part = "team" /\ Next /\ UNCHANGED <<boardVars, codeVars>>
     \/ /\ part = "gateway" /\ Next /\ project' = "kept" /\ users' \subseteq users
        /\ UNCHANGED <<boardVars, codeVars>>
     \/ part = "board" /\ Board!Next /\ UNCHANGED <<vars, codeVars>>

(* The fairness of the board, in the behaviours that are its own. *)
ProjectsFairness == \A r \in TaskRequests : WF_boardVars(part = "board" /\ Board!Step(r))

ProjectsSpec ==
  ProjectsInit /\ [][ProjectsNext]_<<part, vars, boardVars, codeVars>> /\ ProjectsFairness

(* OverrunIsBounded and CodesOfTheGone of InviteCodes: a code is redeemed  *)
(* too often only by registrations in flight together, and outlives its    *)
(* creator only as a record.                                               *)
CodesAreLimited == Invite!OverrunIsBounded /\ Invite!CodesOfTheGone

(* ColumnsAreEnabled of ProjectTasks: a task stands in a column of the     *)
(* workflow, unless a write overtook another.                              *)
ColumnsAreEnabled == Board!ColumnsAreEnabled

(* AssigneesWereMembers of ProjectTasks: a task is never assigned to       *)
(* somebody who was not once on the team.                                  *)
AssigneesWereMembers == Board!AssigneesWereMembers

(* MoversHeldTheTask of ProjectTasks: only who held a task once moves it.  *)
MoversHeldTheTask == Board!MoversHeldTheTask

(* ArrivalsAreAnnounced of ProjectTasks: the room hears of every task that *)
(* arrives in an announced column.                                         *)
ArrivalsAreAnnounced == Board!ArrivalsAreAnnounced

(* The types of all three parts. *)
TypesOK == TypeOK /\ Board!TypeOK /\ Invite!TypeOK

(* ArrivalsAreInHand of ProjectTasks: no arrival is left untold. *)
ArrivalsAreInHand == Board!ArrivalsAreInHand
=================================================================================
