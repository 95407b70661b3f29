-------------------------------- MODULE MCServer --------------------------------
(* What the server lets people and agents do, for TLC: MentionLimiter,     *)
(* Approvals, MemoryEntries and the gate of the agent route (AgentGate).   *)
(* None of them reads a row or a map that another writes, and accounts and *)
(* memberships go in each by an action of its own, so a behaviour is one   *)
(* of a single part.                                                       *)
EXTENDS MentionLimiter, TLC

CONSTANTS
  Agents, Actions, t1, p1, NoTask, NoProject, Humans, Admins, Nobody,
  Requests, ProxyCalls, Deciders, ApprovalWindow, MaxTime,
  Owner, Entries, Dates, None, Absent, Edits,
  GateRooms, Texts, MaxSends, MaxPerMinute, Window, Dedup, MaxNow

VARIABLES
  part,                                 \* the part whose behaviour this is
  v1, v2, v3, v4, v5, v6, v7, v8, v9    \* its variables, unless it is MentionLimiter

cells == <<v1, v2, v3, v4, v5, v6, v7, v8, v9>>

(* One project with one task. *)
Approval == INSTANCE Approvals WITH
  Tasks <- {t1}, ProjectOf <- [t \in {t1} |-> p1], Calls <- ProxyCalls, Window <- ApprovalWindow,
  request <- v1, team <- v2, joined <- v3, live <- v4, call <- v5, decide <- v6,
  decisions <- v7, executed <- v8, now <- v9

ASSUME ApprovalAssumption == Approval!Configured

(* Bodies that set, keep or clear one of the dates, and one that says both. *)
MemoryBodies ==
  LET maybe == Dates \cup {None, Absent} IN
  {b \in [validUntil: maybe, touches: BOOLEAN, expires: maybe] :
     b.touches = (b.expires = Absent) /\ (b.touches \/ b.validUntil = Absent)}
  \cup {[validUntil |-> Absent, touches |-> FALSE, expires |-> Absent]}
  \cup {[validUntil |-> d, touches |-> TRUE, expires |-> None] : d \in Dates}

Memory == INSTANCE MemoryEntries WITH
  Users <- Humans, Requests <- Edits, Bodies <- MemoryBodies,
  entry <- v1, project <- v2, team <- v3, users <- v4, req <- v5

Gate == INSTANCE AgentGate WITH
  Rooms <- GateRooms,
  now <- v1, window <- v2, recent <- v3, member <- v4, req <- v5, stored <- v6,
  duplicate <- v7

ASSUME MemoryAssumption == Memory!Configured
ASSUME GateAssumption == Gate!Configured

Late == v6 = 0 /\ v7 = 0 /\ v8 = 0 /\ v9 = 0

ServerInit ==
  /\ Init
  /\ \/ part = "mentions" /\ v1 = 0 /\ v2 = 0 /\ v3 = 0 /\ v4 = 0 /\ v5 = 0 /\ Late
     \/ part = "approvals" /\ Approval!Init
     \/ part = "memory" /\ Memory!Init /\ Late
     \/ part = "gate" /\ Gate!Init /\ v8 = 0 /\ v9 = 0

ServerNext ==
  /\ UNCHANGED part
  /\ \/ part = "mentions" /\ Next /\ UNCHANGED cells
     \/ part = "approvals" /\ Approval!Next /\ UNCHANGED vars
     \/ part = "memory" /\ Memory!Next /\ UNCHANGED <<vars, v6, v7, v8, v9>>
     \/ part = "gate" /\ Gate!Next /\ UNCHANGED <<vars, v8, v9>>

ServerSpec == ServerInit /\ [][ServerNext]_<<part, vars, cells>>

(* The calls of MentionLimiter, the rows of Approvals and the edits are    *)
(* the same values.                                                        *)
Symmetry == Permutations(Calls)

(* ExecutedWereApproved of Approvals: nothing reaches a provider           *)
(* unapproved.                                                             *)
ExecutedWereApproved == part = "approvals" => Approval!ExecutedWereApproved

(* ScopedAuthority of Approvals: who is no admin decides only for projects *)
(* of their own.                                                           *)
ScopedAuthority == part = "approvals" => Approval!ScopedAuthority

(* ValidityIsTheExpiry of MemoryEntries: readers are told the date that    *)
(* the queries filter by.                                                  *)
ValidityIsTheExpiry == part = "memory" => Memory!ValidityIsTheExpiry

(* RefusedWereStored of AgentGate: only a stored message makes the next    *)
(* one a duplicate.                                                        *)
RefusedWereStored == part = "gate" => Gate!RefusedWereStored

(* RateIsBounded of AgentGate: fewer than twice the limit in any minute.   *)
RateIsBounded == part = "gate" => Gate!RateIsBounded

(* The types of the part whose behaviour it is. *)
TypesOK ==
  CASE part = "mentions" -> TypeOK
    [] part = "approvals" -> Approval!TypeOK
    [] part = "memory" -> Memory!TypeOK
    [] part = "gate" -> Gate!TypeOK

(* EditsKeepThemEqual of MemoryEntries: an edit keeps equal dates equal. *)
EditsKeepThemEqual == [][part = "memory" => Memory!EqualDatesStay]_<<part, cells>>
=================================================================================
