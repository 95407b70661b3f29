----------------------------- MODULE MemoryEntries -----------------------------
(***************************************************************************)
(* Memory entries, which agents read until they expire.  An entry holds    *)
(* the date twice: in the column expiresAt, which the queries filter by,   *)
(* and in payload.validUntil, which its readers see.  An edit reads the    *)
(* entry, asks for access to its project an await later, and then writes   *)
(* by id the columns its body asks for, the payload as a whole.            *)
(*                                                                         *)
(* Of the payload only the date is kept, of the refusals those that depend *)
(* on rows; a body that lacks what its memory type requires is refused     *)
(* before anything is written.  Title, tags, pin and confidence follow no  *)
(* rule.                                                                   *)
(*                                                                         *)
(* Sources: server/src/routes/{memory,auth}.ts,                            *)
(* server/src/plugins/builtin/salesWorkbenchPlugin.ts, schema.prisma       *)
(***************************************************************************)
CONSTANTS
  Users, Owner, Admins,
  Entries,
  Dates,
  None,         \* no date, or nobody
  Absent,       \* a field that the body of a request leaves out
  Bodies,       \* bodies of requests
  Requests      \* requests in flight

Body == [validUntil: Dates \cup {None, Absent},   \* payload.validUntil
         touches: BOOLEAN,                        \* there is a payload or a note
         expires: Dates \cup {None, Absent}]      \* expiresAt, expiresInDays, clearExpires

(* What an instance assumes: requests are of some owner and entry, and     *)
(* their bodies are bodies, the one that says nothing among them.          *)
Configured ==
  /\ Owner \in Users /\ Entries # {}
  /\ Bodies \subseteq Body /\ [validUntil |-> Absent, touches |-> FALSE, expires |-> Absent] \in Bodies

VARIABLES
  entry,      \* the table of entries
  project,    \* "kept" or "gone"
  team,       \* its members, the owner not counted
  users,      \* accounts that exist
  req         \* requests in flight

vars == <<entry, project, team, users, req>>

Rows == [status: {"none", "kept", "gone"}, scope: {"GLOBAL", "PROJECT"}, archived: BOOLEAN,
         createdBy: Users \cup {None}, validUntil: Dates \cup {None}, expiresAt: Dates \cup {None}]
NoRow == [status |-> "none", scope |-> "GLOBAL", archived |-> FALSE,
          createdBy |-> None, validUntil |-> None, expiresAt |-> None]
NoBody == [validUntil |-> Absent, touches |-> FALSE, expires |-> Absent]
Idle == [pc |-> "idle", op |-> "none", who |-> Owner, entry |-> CHOOSE e \in Entries : TRUE,
         read |-> NoRow, body |-> NoBody]

TypeOK ==
  /\ entry \in [Entries -> Rows]
  /\ project \in {"kept", "gone"} /\ team \subseteq Users /\ users \subseteq Users
  /\ req \in [Requests ->
       [pc: {"idle", "access", "write"}, op: {"none", "create", "patch", "archive", "delete"},
        who: Users, entry: Entries, read: Rows, body: Bodies]]

Init ==
  /\ entry = [e \in Entries |-> NoRow]
  /\ project = "kept" /\ team = {} /\ users = Users
  /\ req = [r \in Requests |-> Idle]

----------------------------------------------------------------------------
(* Faults: mutated forms of the definitions below. *)
ClearsTheColumnOnly(row, read, body) ==
  [row EXCEPT !.validUntil = IF body.touches THEN read.validUntil ELSE @,
              !.expiresAt = IF body.expires # Absent THEN body.expires ELSE @]

----------------------------------------------------------------------------
(* loadProjectAccess, canEditProjectEntry *)
HasAccess(u) == project = "kept" /\ (u = Owner \/ u \in team)
MayEdit(u, row) == u \in Admins \cup {row.createdBy, Owner}

(* The date in the payload after an edit by body of the row that was read: *)
(* the patch over what it held, then what was said of the expiry.          *)
ValidUntil(read, body) ==
  IF body.expires # Absent THEN body.expires
  ELSE IF body.touches /\ body.validUntil # Absent THEN body.validUntil
  ELSE read.validUntil

WritesPayload(body) == body.touches \/ body.expires # Absent

(* The column follows what was said of it, else the date in a payload that *)
(* is written; without a date there it is left alone.                      *)
Patched(row, read, body) ==
  LET date == ValidUntil(read, body) IN
  [row EXCEPT
     !.validUntil = IF WritesPayload(body) THEN date ELSE @,
     !.expiresAt = IF body.expires # Absent \/ (body.touches /\ date # None) THEN date ELSE @]

(* The date of a new entry; a number of days that is none does not count.  *)
Expiry(body, isDate) ==
  IF body.expires # Absent /\ isDate THEN body.expires
  ELSE IF body.touches /\ body.validUntil # Absent THEN body.validUntil ELSE None

Done(r) == req' = [req EXCEPT ![r] = Idle]
Fresh(e) == entry[e].status = "none" /\ \A r \in Requests : req[r].op = "create" => req[r].entry # e

----------------------------------------------------------------------------
(* POST /: a global entry by an admin, or an entry of the project.         *)
CreateBegin(r, u, e, body, scope, isDate) ==
  LET date == Expiry(body, isDate) IN
  /\ req[r].pc = "idle" /\ u \in users /\ Fresh(e)
  /\ scope = "GLOBAL" => u \in Admins
  /\ req' = [req EXCEPT ![r] =
       [pc |-> IF scope = "GLOBAL" THEN "write" ELSE "access",
        op |-> "create", who |-> u, entry |-> e, body |-> NoBody,
        read |-> [status |-> "kept", scope |-> scope, archived |-> FALSE, createdBy |-> u,
                  validUntil |-> date, expiresAt |-> date]]]
  /\ UNCHANGED <<entry, project, team, users>>

(* PATCH /:id, DELETE /:id (archives), DELETE /:id/permanent: the entry is *)
(* read; a global one is for admins.                                       *)
EditBegin(r, u, e, op, body) ==
  /\ req[r].pc = "idle" /\ u \in users /\ entry[e].status = "kept"
  /\ entry[e].scope = "GLOBAL" => u \in Admins
  /\ op # "patch" => body = NoBody
  /\ req' = [req EXCEPT ![r] =
       [pc |-> IF entry[e].scope = "GLOBAL" THEN "write" ELSE "access",
        op |-> op, who |-> u, entry |-> e, body |-> body, read |-> entry[e]]]
  /\ UNCHANGED <<entry, project, team, users>>

(* Access to the project, and the right to edit the row that was read.     *)
Access(r) ==
  LET q == req[r] IN
  /\ q.pc = "access"
  /\ IF HasAccess(q.who) /\ (q.op = "create" \/ MayEdit(q.who, q.read))
     THEN req' = [req EXCEPT ![r].pc = "write"] ELSE Done(r)
  /\ UNCHANGED <<entry, project, team, users>>

(* The creator and the project of a new row are foreign keys; an edit that *)
(* finds no row is a 500.                                                  *)
Write(r) ==
  LET q == req[r]
      row == entry[q.entry]
      found == IF q.op = "create"
               THEN q.who \in users /\ (q.read.scope = "PROJECT" => project = "kept")
               ELSE row.status = "kept" IN
  /\ q.pc = "write"
  /\ entry' =
       IF ~found THEN entry ELSE
       [entry EXCEPT ![q.entry] =
          CASE q.op = "create"  -> q.read
            [] q.op = "patch"   -> Patched(row, q.read, q.body)
            [] q.op = "archive" -> [row EXCEPT !.archived = TRUE]
            [] q.op = "delete"  -> [row EXCEPT !.status = "gone"]]
  /\ Done(r)
  /\ UNCHANGED <<project, team, users>>

(* The body says archived: the other columns of such an edit are Patched.  *)
Archive(r, archived) ==
  LET q == req[r] IN
  /\ q.pc = "write" /\ q.op = "patch" /\ entry[q.entry].status = "kept"
  /\ entry' = [entry EXCEPT ![q.entry] =
       [Patched(entry[q.entry], q.read, q.body) EXCEPT !.archived = archived]]
  /\ Done(r)
  /\ UNCHANGED <<project, team, users>>

(* The sales workbench (a note by hand, the findings of a screening run):  *)
(* an entry of the project with an expiry of its own and no date in the    *)
(* payload.                                                                *)
PluginWrites(e, u, date) ==
  /\ Fresh(e) /\ project = "kept" /\ u \in users
  /\ entry' = [entry EXCEPT ![e] =
       [NoRow EXCEPT !.status = "kept", !.scope = "PROJECT", !.createdBy = u, !.expiresAt = date]]
  /\ UNCHANGED <<project, team, users, req>>

----------------------------------------------------------------------------
Join(u) ==
  /\ project = "kept" /\ u \in users \ (team \cup {Owner})
  /\ team' = team \cup {u}
  /\ UNCHANGED <<entry, project, users, req>>

Goes(row) == row.status = "kept" /\ row.scope = "PROJECT"

DeleteProject ==
  /\ project = "kept"
  /\ project' = "gone"
  /\ entry' = [e \in Entries |->
       IF Goes(entry[e]) THEN [entry[e] EXCEPT !.status = "gone"] ELSE entry[e]]
  /\ UNCHANGED <<team, users, req>>

(* DELETE /me: the owner's project goes with its entries; other entries    *)
(* stay without a creator.                                                 *)
DeleteAccount(u) ==
  LET without(row) == [row EXCEPT !.createdBy = IF @ = u THEN None ELSE @] IN
  /\ u \in users
  /\ users' = users \ {u} /\ team' = team \ {u}
  /\ project' = IF u = Owner THEN "gone" ELSE project
  /\ entry' = [e \in Entries |->
       IF u = Owner /\ Goes(entry[e]) THEN [without(entry[e]) EXCEPT !.status = "gone"]
       ELSE without(entry[e])]
  /\ UNCHANGED req

Restart ==
  /\ req' = [r \in Requests |-> Idle]
  /\ UNCHANGED <<entry, project, team, users>>

Next ==
  \/ \E r \in Requests, u \in Users, e \in Entries, body \in Bodies :
       \/ \E scope \in {"GLOBAL", "PROJECT"}, isDate \in BOOLEAN :
            CreateBegin(r, u, e, body, scope, isDate)
       \/ \E op \in {"patch", "archive", "delete"} : EditBegin(r, u, e, op, body)
  \/ \E r \in Requests :
       Access(r) \/ Write(r) \/ \E archived \in BOOLEAN : Archive(r, archived)
  \/ \E e \in Entries, u \in Users, date \in Dates \cup {None} : PluginWrites(e, u, date)
  \/ \E u \in Users : Join(u) \/ DeleteAccount(u)
  \/ DeleteProject \/ Restart

Spec == Init /\ [][Next]_vars

----------------------------------------------------------------------------
(* Properties *)

(* Readers are never told another date than the one the queries filter by, *)
(* though edits write the two from what they read an await earlier and may *)
(* overtake each other (PATCH /:id writes the payload as a whole).         *)
ValidityIsTheExpiry ==
  \A e \in Entries :
    entry[e].status = "kept" /\ entry[e].validUntil # None =>
      entry[e].validUntil = entry[e].expiresAt

(* One step of EditsKeepThemEqual. *)
EqualDatesStay ==
  \A r \in Requests, e \in Entries :
    /\ req[r].pc = "write" /\ req[r].op = "patch" /\ req[r].entry = e /\ req'[r].pc = "idle"
    /\ entry[e] = req[r].read /\ entry[e].validUntil = entry[e].expiresAt
    /\ entry'[e].status = "kept"
    => entry'[e].validUntil = entry'[e].expiresAt

(* What docs/AGENT_MEMORY_USAGE.md says of the entries the memory routes    *)
(* write: "the write routes keep `payload.validUntil` equal to             *)
(* `expiresAt`", so an edit of an entry where they are equal keeps them so. *)
EditsKeepThemEqual == [][EqualDatesStay]_vars
================================================================================
