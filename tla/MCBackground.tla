------------------------------ MODULE MCBackground ------------------------------
(* What the server still does once it has answered, committed or lost a    *)
(* connection, for TLC: the files of Uploads and the runs of ScreeningRuns *)
(* with their fairness, and the set of online users of Presence.  They     *)
(* share no state that one writes and another reads, so a behaviour is one *)
(* of a single part.                                                       *)
EXTENDS Uploads, Sequences

CONSTANTS Runs, Checklist, Users, Sockets

VARIABLES
  part,         \* the part whose behaviour this is
  project, linked, instance, run, task, sync, runReq, stranded,
  account, sock, online, redisUp, missed, excused, hasty

runVars == <<project, linked, instance, run, task, sync, runReq, stranded>>
presenceVars == <<account, sock, online, redisUp, missed, excused, hasty>>

Presences == INSTANCE Presence

Screening == INSTANCE ScreeningRuns WITH req <- runReq

ASSUME PresenceAssumption == Presences!Configured
ASSUME ChecklistAssumption == Screening!Configured

(* Two items share a slug. *)
MCChecklist == <<"go", "a", "a">>

(* A message and a task of the leaver, and a project of somebody else. *)
MCPlaces ==
  {[kind |-> "message", leavers |-> TRUE], [kind |-> "task", leavers |-> TRUE],
   [kind |-> "project", leavers |-> FALSE]}

BackgroundInit ==
  /\ part \in {"uploads", "runs", "presence"}
  /\ Init /\ Screening!Init /\ Presences!Init
  /\ part # "runs" => linked     \* the one initial choice, where it plays no role

BackgroundNext ==
  /\ UNCHANGED part
  /\ \/ part = "uploads" /\ Next /\ UNCHANGED <<runVars, presenceVars>>
     \/ part = "runs" /\ Screening!Next /\ UNCHANGED <<vars, presenceVars>>
     \/ part = "presence" /\ Presences!Next /\ UNCHANGED <<vars, runVars>>

(* The fairness of each part, in the behaviours that are its own. *)
BackgroundFairness ==
  /\ WF_vars(part = "uploads" /\ LeaveStep)
  /\ \A r \in Runs : WF_runVars(part = "runs" /\ Screening!Step(r))

BackgroundSpec ==
  /\ BackgroundInit /\ [][BackgroundNext]_<<part, vars, runVars, presenceVars>>
  /\ BackgroundFairness

(* TasksAreMapped of ScreeningRuns: the tasks of a completed run are those *)
(* its sync rows name.                                                     *)
TasksAreMapped == Screening!TasksAreMapped

(* RunsEnd of ScreeningRuns: every run that is started ends, a stop of the *)
(* process aside.                                                          *)
RunsEnd == Screening!RunsEnd

(* ConnectedAreOnline and GoneAreOffline of Presence: the set of online    *)
(* users is the set of connected ones, but for the reasons it names.       *)
OnlineIsExact == Presences!ConnectedAreOnline /\ Presences!GoneAreOffline

(* The types of all three parts. *)
TypesOK == TypeOK /\ Screening!TypeOK /\ Presences!TypeOK

(* UpdatedOnce of ScreeningRuns: what has ended stays as it ended. *)
UpdatedOnce == Screening!UpdatedOnce

(* StartedAreInHand of ScreeningRuns: no run is left behind. *)
StartedAreInHand == Screening!StartedAreInHand
=================================================================================
