-------------------------------- MODULE Uploads --------------------------------
(***************************************************************************)
(* Uploaded files and the rows that point at them.  A file lies in the     *)
(* upload directory under a name of its own before its row is stored; it   *)
(* is removed after its row, by the deletion of an attachment or by the    *)
(* clean-up that follows the deletion of an account (the leaver's).  No    *)
(* transaction spans the database and the directory.                       *)
(*                                                                         *)
(* Sources: server/src/routes/{upload,projects,auth}.ts,                   *)
(* server/src/plugins/builtin/salesWorkbenchPlugin.ts, schema.prisma       *)
(***************************************************************************)
CONSTANTS
  Files,        \* names in the upload directory
  Places,       \* what attachments hang on: a message, a task or a project,
                \* written or owned by the leaver or by somebody else
  Requests      \* requests in flight

AllPlaces == [kind: {"message", "task", "project"}, leavers: BOOLEAN]

ASSUME PlacesAssumption == Places \subseteq AllPlaces /\ Places # {}
ASSUME FilesAssumption == Files # {}

VARIABLES
  file,       \* the upload directory
  row,        \* the attachment rows, one for a file
  at,         \* where each row hangs
  ground,     \* places that exist
  req,        \* uploads and deletions in flight
  leave,      \* DELETE /me of the leaver
  answered,   \* history: uploads answered with success
  due,        \* history: files whose rows the account deletion found and removed
  spared      \* history: of those, files a failure or a restart left in place

vars == <<file, row, at, ground, req, leave, answered, due, spared>>
history == <<answered, due, spared>>

SomePlace == CHOOSE p \in Places : TRUE
Idle == [pc |-> "idle", file |-> CHOOSE f \in Files : TRUE]
NotLeaving == [pc |-> "idle", optIn |-> FALSE, files |-> {}, seen |-> {}]

TypeOK ==
  /\ file \in [Files -> {"none", "stored", "removed"}]
  /\ row \in [Files -> {"none", "kept", "gone"}]
  /\ at \in [Files -> Places] /\ ground \subseteq Places
  /\ req \in [Requests ->
       [pc: {"idle", "check", "store", "after", "row", "file"}, file: Files]]
  /\ leave \in [pc: {"idle", "collected", "committed", "unlink"}, optIn: BOOLEAN,
                files: SUBSET Files, seen: SUBSET Files]
  /\ answered \subseteq Files /\ due \subseteq Files /\ spared \subseteq Files

Init ==
  /\ file = [f \in Files |-> "none"] /\ row = [f \in Files |-> "none"]
  /\ at = [f \in Files |-> SomePlace] /\ ground = Places
  /\ req = [r \in Requests |-> Idle] /\ leave = NotLeaving
  /\ answered = {} /\ due = {} /\ spared = {}

----------------------------------------------------------------------------
(* Faults: mutated forms of the definitions below. *)
FileFirst(r) == "file"
ProjectsOnly(f, optIn) == row[f] = "kept" /\ at[f].leavers /\ at[f].kind # "message"

----------------------------------------------------------------------------
Go(r, pc) == req' = [req EXCEPT ![r].pc = pc]
Done(r) == req' = [req EXCEPT ![r] = Idle]
RemoveFile(f) == file' = [file EXCEPT ![f] = "removed"]

(* multer has written the file when the handler starts. *)
Receive(r, f, p) ==
  /\ req[r] = Idle /\ file[f] = "none"
  /\ file' = [file EXCEPT ![f] = "stored"] /\ at' = [at EXCEPT ![f] = p]
  /\ req' = [req EXCEPT ![r] = [pc |-> "check", file |-> f]]
  /\ UNCHANGED <<row, ground, leave, history>>

(* Access is granted on rows that were read. *)
Check(r) ==
  /\ req[r].pc = "check" /\ at[req[r].file] \in ground
  /\ Go(r, "store")
  /\ UNCHANGED <<file, row, at, ground, leave, history>>

(* Access is refused, or a query fails: the file goes again. *)
Refuse(r) ==
  /\ req[r].pc \in {"check", "store"}
  /\ RemoveFile(req[r].file) /\ Done(r)
  /\ UNCHANGED <<row, at, ground, leave, history>>

(* The account deletion holds the leaver's user row, which a message of    *)
(* the leaver refers to.                                                   *)
Blocked(p) == leave.pc = "collected" /\ p.kind = "message" /\ p.leavers

StoreRow(r) ==
  LET f == req[r].file IN
  /\ req[r].pc = "store" /\ ~Blocked(at[f])
  /\ IF at[f] \in ground
     THEN row' = [row EXCEPT ![f] = "kept"] /\ Go(r, "after") /\ UNCHANGED file
     ELSE RemoveFile(f) /\ Done(r) /\ UNCHANGED row
  /\ UNCHANGED <<at, ground, leave, history>>

Answer(r) ==
  /\ req[r].pc = "after"
  /\ answered' = answered \cup {req[r].file} /\ Done(r)
  /\ UNCHANGED <<file, row, at, ground, leave, due, spared>>

(* What follows the row is the room of a message or a second look at the   *)
(* task; when it fails the answer is a 500 and the file goes, the row      *)
(* stays.  Nothing that follows a project attachment throws.               *)
AfterFails(r) ==
  /\ req[r].pc = "after" /\ at[req[r].file].kind # "project"
  /\ RemoveFile(req[r].file) /\ Done(r)
  /\ UNCHANGED <<row, at, ground, leave, history>>

----------------------------------------------------------------------------
(* DELETE of a task or project attachment: the row that was read, then the *)
(* file (a message keeps its attachments when it is deleted).              *)
FirstGoes(r) == "row"

DeleteBegin(r, f) ==
  /\ req[r] = Idle /\ row[f] = "kept" /\ at[f].kind # "message"
  /\ req' = [req EXCEPT ![r] = [pc |-> FirstGoes(r), file |-> f]]
  /\ UNCHANGED <<file, row, at, ground, leave, history>>

DeleteRow(r) ==
  LET f == req[r].file IN
  /\ req[r].pc = "row"
  /\ IF row[f] = "kept"
     THEN row' = [row EXCEPT ![f] = "gone"] /\ Go(r, "file")
     ELSE Done(r) /\ UNCHANGED row
  /\ UNCHANGED <<file, at, ground, leave, history>>

DeleteFile(r) ==
  /\ req[r].pc = "file"
  /\ RemoveFile(req[r].file) /\ Done(r)
  /\ UNCHANGED <<row, at, ground, leave, history>>

(* A task, a project or a room is deleted: the rows cascade, their files   *)
(* stay.                                                                   *)
Fell(gone) == row' = [f \in Files |-> IF row[f] = "kept" /\ gone[f] THEN "gone" ELSE row[f]]

DeletePlace(p) ==
  /\ p \in ground
  /\ ground' = ground \ {p}
  /\ Fell([f \in Files |-> at[f] = p])
  /\ UNCHANGED <<file, at, req, leave, history>>

----------------------------------------------------------------------------
(* DELETE /me: inside the transaction the URLs are read first, ...         *)
Collected(f, optIn) ==
  row[f] = "kept" /\ at[f].leavers /\ (at[f].kind = "message" => optIn)

LeaveCollect(optIn) ==
  /\ leave.pc = "idle"
  /\ leave' = [pc |-> "collected", optIn |-> optIn,
               files |-> {f \in Files : Collected(f, optIn)},
               seen |-> {f \in Files : row[f] = "kept"}]
  /\ UNCHANGED <<file, row, at, ground, req, history>>

(* ... then the rows go, those stored meanwhile too; messages only when    *)
(* the leaver wants it.                                                    *)
LeaveCommit ==
  LET goes(p) == p.leavers /\ (p.kind = "message" => leave.optIn) IN
  /\ leave.pc = "collected"
  /\ ground' = {p \in ground : ~p.leavers}
  /\ Fell([f \in Files |-> goes(at[f])])
  /\ leave' = [leave EXCEPT !.pc = "committed"]
  /\ due' = {f \in leave.seen : row[f] = "kept" /\ goes(at[f])}
  /\ UNCHANGED <<file, at, req, answered, spared>>

(* The leaver still owns a connection to an MCP server. *)
LeaveRollback ==
  /\ leave.pc = "collected"
  /\ leave' = NotLeaving
  /\ UNCHANGED <<file, row, at, ground, req, history>>

(* unlinkDeletedUploadFiles: files that a surviving row refers to are kept, *)
(* all of them when that cannot be found out.                               *)
LeaveLookup ==
  /\ leave.pc = "committed"
  /\ leave' = [leave EXCEPT !.pc = "unlink", !.files = {f \in @ : row[f] # "kept"}]
  /\ UNCHANGED <<file, row, at, ground, req, history>>

LeaveLookupFails ==
  /\ leave.pc = "committed"
  /\ leave' = [leave EXCEPT !.pc = "unlink", !.files = {}]
  /\ spared' = spared \cup leave.files
  /\ UNCHANGED <<file, row, at, ground, req, answered, due>>

LeaveUnlink(f) ==
  /\ leave.pc = "unlink" /\ f \in leave.files
  /\ leave' = [leave EXCEPT !.files = @ \ {f}]
  /\ RemoveFile(f)
  /\ UNCHANGED <<row, at, ground, req, history>>

LeaveUnlinkFails(f) ==
  /\ leave.pc = "unlink" /\ f \in leave.files
  /\ leave' = [leave EXCEPT !.files = @ \ {f}]
  /\ spared' = spared \cup {f}
  /\ UNCHANGED <<file, row, at, ground, req, answered, due>>

(* The server stops and starts. *)
Restart ==
  /\ req' = [r \in Requests |-> Idle]
  /\ leave' = IF leave.pc = "collected" THEN NotLeaving ELSE [leave EXCEPT !.files = {}]
  /\ spared' = IF leave.pc = "collected" THEN spared ELSE spared \cup leave.files
  /\ UNCHANGED <<file, row, at, ground, answered, due>>

RequestStep(r) ==
  \/ Check(r) \/ Refuse(r) \/ StoreRow(r) \/ Answer(r) \/ AfterFails(r)
  \/ DeleteRow(r) \/ DeleteFile(r)

LeaveStep ==
  \/ LeaveCommit \/ LeaveRollback \/ LeaveLookup \/ LeaveLookupFails
  \/ \E f \in Files : LeaveUnlink(f) \/ LeaveUnlinkFails(f)

Next ==
  \/ \E r \in Requests : RequestStep(r)
  \/ \E r \in Requests, f \in Files : DeleteBegin(r, f) \/ \E p \in Places : Receive(r, f, p)
  \/ \E p \in Places : DeletePlace(p)
  \/ \E optIn \in BOOLEAN : LeaveCollect(optIn)
  \/ LeaveStep
  \/ Restart

Spec == Init /\ [][Next]_vars

(* The handler of the deletion goes on as long as the process lives.       *)
Fairness == WF_vars(LeaveStep)

----------------------------------------------------------------------------
(* Properties *)

(* A file whose upload was answered with success is there as long as its   *)
(* row is, through crashes between the two and deletions of what the row   *)
(* hangs on ("The row stays, so does the file it points at").              *)
AnsweredFilesStay ==
  \A f \in answered : row[f] = "kept" => file[f] = "stored"

(* When an account is deleted, the files of the attachments that go with   *)
(* its projects and, on demand, with its messages go too, unless their     *)
(* lookup or removal failed or the server stopped (DELETE /me).            *)
DeletedFilesGo == \A f \in Files : f \in due ~> (file[f] = "removed" \/ f \in spared)

(* No such file is forgotten: until it is removed it is on the list of the *)
(* clean-up, though that was made before the rows went.                    *)
DueAreInHand ==
  \A f \in due :
    file[f] = "removed" \/ f \in spared
      \/ (leave.pc \in {"committed", "unlink"} /\ f \in leave.files)
================================================================================
