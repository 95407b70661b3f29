------------------------------ MODULE ScreeningRuns ------------------------------
(***************************************************************************)
(* Screening runs of the sales workbench and the module runtime they use:  *)
(* the instance of the module in a project, one row for each run, a card   *)
(* in the room for each status, the tasks a run makes and the sync rows    *)
(* that map their keys to them.  A run is one long request; none of its    *)
(* writes share a transaction, every query may fail.                       *)
(*                                                                         *)
(* The key of a task holds the id of its run, so no two runs share one.    *)
(* The memory entries of a run, whose failure is swallowed, the text of    *)
(* the cards and the data a run evaluates are left out.                    *)
(*                                                                         *)
(* Sources: server/src/plugins/moduleRuntimeService.ts,                    *)
(* server/src/plugins/builtin/salesWorkbenchPlugin.ts, schema.prisma       *)
(***************************************************************************)
EXTENDS Integers, Sequences

CONSTANTS
  Runs,
  Checklist     \* the slugs of a run's task definitions, in order

(* What an instance assumes. *)
Configured == Checklist \in Seq(STRING)

Items == 1..Len(Checklist)
Slugs == {Checklist[i] : i \in Items}

VARIABLES
  project,    \* "kept" or "gone", with its room
  linked,     \* the plugin is linked to the project
  instance,   \* the module instance of the project and room exists
  run,        \* status of the row of each run
  task,       \* the task of each item of a run
  sync,       \* the item whose task a slug is mapped to, 0 without a row
  req,        \* the requests
  stranded    \* history: runs whose request ended without telling the row

rows == <<project, linked, instance, run, task, sync>>
vars == <<rows, req, stranded>>

NoTasks == [i \in Items |-> "none"]
NoSync == [s \in Slugs |-> 0]
Idle == [pc |-> "idle", item |-> 1]

TypeOK ==
  /\ project \in {"kept", "gone"} /\ linked \in BOOLEAN /\ instance \in BOOLEAN
  /\ run \in [Runs -> {"none", "started", "completed", "failed", "gone"}]
  /\ task \in [Runs -> [Items -> {"none", "kept", "gone"}]]
  /\ sync \in [Runs -> [Slugs -> 0..Len(Checklist)]]
  /\ req \in [Runs ->
       [pc: {"idle", "instance", "create", "run", "emit", "started", "find", "task", "sync",
             "complete", "completed", "fail", "failed", "over"},
        item: 1..Len(Checklist) + 1]]
  /\ stranded \subseteq Runs

Init ==
  /\ project = "kept" /\ linked \in BOOLEAN /\ instance = FALSE
  /\ run = [r \in Runs |-> "none"]
  /\ task = [r \in Runs |-> NoTasks] /\ sync = [r \in Runs |-> NoSync]
  /\ req = [r \in Runs |-> Idle] /\ stranded = {}

----------------------------------------------------------------------------
(* Faults: mutated forms of the definitions below. *)
NeverMapped(r, slug) == FALSE
NotCaught(r) == "over"

----------------------------------------------------------------------------
Go(r, pc) == req' = [req EXCEPT ![r].pc = pc]
Over(r) == Go(r, "over")

(* POST /runs/screening: resolveRunContext links the plugin for an owner or *)
(* an admin, the others need the link.                                     *)
Begin(r, manager) ==
  /\ req[r].pc = "idle" /\ project = "kept" /\ (linked \/ manager)
  /\ linked' = TRUE
  /\ Go(r, "instance")
  /\ UNCHANGED <<project, instance, run, task, sync, stranded>>

(* ensureModuleInstance: when a parallel run was faster, its instance.     *)
FindInstance(r) ==
  /\ req[r].pc = "instance"
  /\ Go(r, IF instance THEN "run" ELSE "create")
  /\ UNCHANGED <<rows, stranded>>

CreateInstance(r) ==
  /\ req[r].pc = "create" /\ project = "kept"
  /\ instance' = TRUE
  /\ Go(r, "run")
  /\ UNCHANGED <<project, linked, run, task, sync, stranded>>

(* createModuleRun: the row, then the event.                               *)
CreateRun(r) ==
  /\ req[r].pc = "run" /\ project = "kept"
  /\ run' = [run EXCEPT ![r] = "started"]
  /\ Go(r, "emit")
  /\ UNCHANGED <<project, linked, instance, task, sync, stranded>>

Emit(r) ==
  /\ req[r].pc = "emit"
  /\ Go(r, "started")
  /\ UNCHANGED <<rows, stranded>>

(* Without a run the answer is an error, and nothing else happens; that is *)
(* also so when the event failed and the row is there.                     *)
FailsEarly(r) ==
  /\ req[r].pc \in {"instance", "create", "run", "emit"}
  /\ Over(r)
  /\ stranded' = IF req[r].pc = "emit" THEN stranded \cup {r} ELSE stranded
  /\ UNCHANGED rows

PostStarted(r) ==
  /\ req[r].pc = "started" /\ project = "kept"
  /\ Go(r, "find")
  /\ UNCHANGED <<rows, stranded>>

----------------------------------------------------------------------------
(* createOrReuseSyncedTask *)
Mapped(r, slug) == sync[r][slug] # 0

Advance(r) == req' = [req EXCEPT ![r] = [pc |-> "find", item |-> req[r].item + 1]]

(* The items are done: the run is complete. *)
FindSync(r) ==
  LET i == req[r].item IN
  /\ req[r].pc = "find"
  /\ CASE i > Len(Checklist) -> Go(r, "complete")
       [] i <= Len(Checklist) /\ Mapped(r, Checklist[i]) -> Advance(r)
       [] OTHER -> Go(r, "task")
  /\ UNCHANGED <<rows, stranded>>

CreateTask(r) ==
  /\ req[r].pc = "task" /\ project = "kept"
  /\ task' = [task EXCEPT ![r][req[r].item] = "kept"]
  /\ Go(r, "sync")
  /\ UNCHANGED <<project, linked, instance, run, sync, stranded>>

(* The key is unique: the task of the row that is there is the result, the *)
(* new one stays without a row.                                            *)
CreateSync(r) ==
  LET i == req[r].item IN
  /\ req[r].pc = "sync" /\ task[r][i] = "kept"
  /\ sync' = IF sync[r][Checklist[i]] = 0 THEN [sync EXCEPT ![r][Checklist[i]] = i] ELSE sync
  /\ Advance(r)
  /\ UNCHANGED <<project, linked, instance, run, task, stranded>>

----------------------------------------------------------------------------
(* completeModuleRun, its event, and the card.                             *)
Complete(r) ==
  /\ req[r].pc = "complete" /\ project = "kept"
  /\ run' = [run EXCEPT ![r] = "completed"]
  /\ Go(r, "completed")
  /\ UNCHANGED <<project, linked, instance, task, sync, stranded>>

PostCompleted(r) ==
  /\ req[r].pc = "completed" /\ project = "kept"
  /\ Over(r)
  /\ UNCHANGED <<rows, stranded>>

(* Any of these fails, for a row that is gone or a query that failed.      *)
Caught(r) == "fail"

Fails(r) ==
  /\ req[r].pc \in {"started", "find", "task", "sync", "complete", "completed"}
  /\ Go(r, Caught(r))
  /\ UNCHANGED <<rows, stranded>>

(* failModuleRun, its event, and the card. *)
FailRun(r) ==
  /\ req[r].pc = "fail" /\ project = "kept"
  /\ run' = [run EXCEPT ![r] = "failed"]
  /\ Go(r, "failed")
  /\ UNCHANGED <<project, linked, instance, task, sync, stranded>>

PostFailed(r) ==
  /\ req[r].pc = "failed" /\ project = "kept"
  /\ Over(r)
  /\ UNCHANGED <<rows, stranded>>

(* The server stops and starts, when it is told to or when the handling of *)
(* a failure fails: nothing catches that.                                  *)
Restart ==
  /\ req' = [r \in Runs |-> IF req[r].pc = "idle" THEN Idle ELSE [req[r] EXCEPT !.pc = "over"]]
  /\ stranded' = stranded \cup {r \in Runs : req[r].pc \notin {"idle", "over"}}
  /\ UNCHANGED rows

HandlingFails(r) == req[r].pc \in {"fail", "failed"} /\ Restart

----------------------------------------------------------------------------
(* Somebody deletes a task: its sync row cascades. *)
DeleteTask(r, i) ==
  /\ task[r][i] = "kept"
  /\ task' = [task EXCEPT ![r][i] = "gone"]
  /\ sync' = [sync EXCEPT ![r] = [s \in Slugs |-> IF sync[r][s] = i THEN 0 ELSE sync[r][s]]]
  /\ UNCHANGED <<project, linked, instance, run, req, stranded>>

Unlink ==
  /\ linked /\ project = "kept"
  /\ linked' = FALSE
  /\ UNCHANGED <<project, instance, run, task, sync, req, stranded>>

(* The project goes with its room, and everything cascades. *)
DeleteProject ==
  /\ project = "kept"
  /\ project' = "gone" /\ linked' = FALSE /\ instance' = FALSE
  /\ run' = [r \in Runs |-> IF run[r] = "none" THEN "none" ELSE "gone"]
  /\ task' = [r \in Runs |-> [i \in Items |-> IF task[r][i] = "none" THEN "none" ELSE "gone"]]
  /\ sync' = [r \in Runs |-> NoSync]
  /\ UNCHANGED <<req, stranded>>

Step(r) ==
  \/ FindInstance(r) \/ CreateInstance(r) \/ CreateRun(r) \/ Emit(r) \/ FailsEarly(r)
  \/ PostStarted(r) \/ FindSync(r) \/ CreateTask(r) \/ CreateSync(r)
  \/ Complete(r) \/ PostCompleted(r)
  \/ Fails(r) \/ FailRun(r) \/ PostFailed(r) \/ HandlingFails(r)

Next ==
  \/ \E r \in Runs : Step(r) \/ \E manager \in BOOLEAN : Begin(r, manager)
  \/ \E r \in Runs, i \in Items : DeleteTask(r, i)
  \/ Unlink \/ DeleteProject \/ Restart

Spec == Init /\ [][Next]_vars

(* The handler goes on as long as the process lives. *)
Fairness == \A r \in Runs : WF_vars(Step(r))

----------------------------------------------------------------------------
(* Properties *)

(* Every run that is started ends: its row says completed or failed, or is *)
(* gone, unless the process stopped or the event of the start could not be *)
(* emitted (POST /runs/screening).                                         *)
RunsEnd ==
  \A r \in Runs :
    run[r] = "started" ~> (run[r] \in {"completed", "failed", "gone"} \/ r \in stranded)

(* No run is left behind: one that is started has a request that is still  *)
(* to end it, on every path through the failures, unless the process       *)
(* stopped or the event failed.                                            *)
StartedAreInHand ==
  \A r \in Runs : run[r] = "started" =>
    \/ req[r].pc \in {"emit", "started", "find", "task", "sync", "complete", "fail"}
    \/ r \in stranded

(* The tasks of a completed run are the ones its sync rows name, also when *)
(* two items share a slug and tasks are deleted meanwhile: no task was     *)
(* made for a key that had one (createOrReuseSyncedTask).                  *)
TasksAreMapped ==
  \A r \in Runs : run[r] = "completed" =>
    \A i \in Items : task[r][i] = "kept" => sync[r][Checklist[i]] = i

(* What docs/PLUGIN_ARCHITECTURE.md says of a run: "created as `started`   *)
(* and updated once to `completed` (with output) or `failed`".             *)
UpdatedOnce ==
  [][\A r \in Runs : run[r] \in {"completed", "failed"} => run'[r] \in {run[r], "gone"}]_vars
================================================================================
