----------------------------- MODULE MentionLimiter -----------------------------
(***************************************************************************)
(* The daily mention quota: a JSON file that every billable mention reads, *)
(* changes in memory and writes back, and that an account deletion edits.  *)
(*                                                                         *)
(* Reading and writing the file are awaited, and fs.writeFile first        *)
(* truncates the file and then writes it, so calls overlap in between and  *)
(* a reader may see an empty file.  The warning at the threshold is sent   *)
(* only after the write has ended: a stop in between stores the count and  *)
(* never sends the warning.                                                *)
(*                                                                         *)
(* Source: server/src/services/mentionLimiter.ts, and its caller in        *)
(* socketService.ts.  Trusted ids never reach the file and are left out.   *)
(***************************************************************************)
EXTENDS Integers, FiniteSets

CONSTANTS
  Users,             \* senders who are not in the trusted circle
  Calls,             \* consumeMention calls in flight
  Leavers,           \* users who may delete their account
  DailyLimit,        \* DAILY_LIMIT
  WarningThreshold,  \* WARNING_THRESHOLD
  MaxCharges,        \* the history of charges counts no further
  LastDay,           \* bound on the UTC day
  MaxCrashes         \* bound on the stops of the server process

ASSUME LimitAssumption == DailyLimit \in Nat /\ WarningThreshold \in 1..DailyLimit
ASSUME BoundAssumption ==
  LastDay \in Nat /\ MaxCrashes \in Nat /\ MaxCharges \in Nat /\ MaxCharges >= DailyLimit
ASSUME LeaverAssumption == Leavers \subseteq Users

VARIABLES
  file,     \* mention-limits.json: what it is and what it says
  call,     \* consumeMention calls
  removal,  \* removeMentionLimitEntry of each leaver
  day,      \* the UTC day
  charged,  \* history: mentions charged to each user today
  warned,   \* history: users who were sent the threshold warning today
  unwarned, \* history: users whose warning of today a stop has cut off
  crashes   \* history: stops of the process

vars == <<file, call, removal, day, charged, warned, unwarned, crashes>>

Days == 0..LastDay
Record == [date: Days, count: 0..DailyLimit]
NoRecord == [date |-> 0, count |-> -1]   \* the user has no key in the object
Limits == [Users -> Record \cup {NoRecord}]
Empty == [u \in Users |-> NoRecord]

(* "missing" (no file), "whole" (it parses), "truncated" (opened for       *)
(* writing), "corrupt" (it does not parse).                                *)
File == [state: {"whole"}, limits: Limits] \cup [state: {"missing", "truncated", "corrupt"}]

IdleState == [pc: {"idle"}]
Saving == [pc: {"save", "write"}, limits: Limits]
CallState == IdleState \cup [pc: {"called"}, user: Users]
               \cup [pc: {"loaded", "save", "write"}, user: Users, limits: Limits]
               \cup [pc: {"warn"}, user: Users, date: Days]
RemovalState == IdleState \cup Saving \cup [pc: {"done"}]

TypeOK ==
  /\ file \in File
  /\ call \in [Calls -> CallState]
  /\ removal \in [Leavers -> RemovalState]
  /\ day \in Days
  /\ charged \in [Users -> 0..MaxCharges]
  /\ warned \subseteq Users
  /\ unwarned \subseteq Users
  /\ crashes \in 0..MaxCrashes

Idle == [pc |-> "idle"]

Init ==
  /\ file = [state |-> "missing"]
  /\ call = [c \in Calls |-> Idle]
  /\ removal = [u \in Leavers |-> Idle]
  /\ day = 0
  /\ charged = [u \in Users |-> 0]
  /\ warned = {}
  /\ unwarned = {}
  /\ crashes = 0

----------------------------------------------------------------------------
(* Faults: mutated forms of the definitions below. *)
TodayNeverResets(r, d) == IF r = NoRecord THEN [date |-> d, count |-> 0] ELSE r
WarnsPastLimit(n) == n - 1 = DailyLimit

(* Reset if new day. *)
Today(r, d) == IF r = NoRecord \/ r.date # d THEN [date |-> d, count |-> 0] ELSE r

Admits(n) == n < DailyLimit

Warns(n) == n = WarningThreshold

(* loadLimits: anything that cannot be read or parsed is an empty store. *)
Loaded(f) == IF f.state = "whole" THEN f.limits ELSE Empty

(* A write that starts at offset 0 of a file somebody else wrote since the *)
(* truncation leaves a tail of the longer text behind.                     *)
Written(f, limits) ==
  {[state |-> "whole", limits |-> limits]}
    \cup (IF f.state = "truncated" THEN {} ELSE {[state |-> "corrupt"]})

(* A sender who has left is no longer a member of any room, so his sends   *)
(* end before the quota; one that is past that check goes on.              *)
ConsumeBegin(c, u) ==
  /\ call[c] = Idle
  /\ u \in Leavers => removal[u] = Idle
  /\ call' = [call EXCEPT ![c] = [pc |-> "called", user |-> u]]
  /\ UNCHANGED <<file, removal, day, charged, warned, unwarned, crashes>>

ConsumeLoad(c) ==
  /\ call[c].pc = "called"
  /\ call' = [call EXCEPT ![c] =
       [pc |-> "loaded", user |-> call[c].user, limits |-> Loaded(file)]]
  /\ UNCHANGED <<file, removal, day, charged, warned, unwarned, crashes>>

(* Between the read and the write nothing is awaited. *)
ConsumeRefuses(c) ==
  /\ call[c].pc = "loaded"
  /\ ~Admits(Today(call[c].limits[call[c].user], day).count)
  /\ call' = [call EXCEPT ![c] = Idle]
  /\ UNCHANGED <<file, removal, day, charged, warned, unwarned, crashes>>

ConsumeAdmits(c) ==
  /\ call[c].pc = "loaded"
  /\ LET u == call[c].user
         record == Today(call[c].limits[u], day)
         count == record.count + 1
     IN  /\ Admits(record.count)
         /\ charged' = [charged EXCEPT ![u] = IF @ < MaxCharges THEN @ + 1 ELSE @]
         /\ call' = [call EXCEPT ![c] =
              [pc |-> "save", user |-> u,
               limits |-> [call[c].limits EXCEPT ![u] = [record EXCEPT !.count = count]]]]
  /\ UNCHANGED <<file, removal, day, warned, unwarned, crashes>>

ConsumeTruncate(c) ==
  /\ call[c].pc = "save"
  /\ file' = [state |-> "truncated"]
  /\ call' = [call EXCEPT ![c].pc = "write"]
  /\ UNCHANGED <<removal, day, charged, warned, unwarned, crashes>>

ConsumeWrite(c) ==
  /\ call[c].pc = "write"
  /\ file' \in Written(file, call[c].limits)
  /\ LET u == call[c].user
         record == call[c].limits[u]
     IN  call' = [call EXCEPT ![c] =
           IF Warns(record.count) THEN [pc |-> "warn", user |-> u, date |-> record.date]
           ELSE Idle]
  /\ UNCHANGED <<removal, day, charged, warned, unwarned, crashes>>

(* The caller sends the warning once the call has returned.  One that      *)
(* comes after midnight is about the day before.                           *)
ConsumeWarns(c) ==
  /\ call[c].pc = "warn"
  /\ warned' = IF call[c].date = day THEN warned \cup {call[c].user} ELSE warned
  /\ call' = [call EXCEPT ![c] = Idle]
  /\ UNCHANGED <<file, removal, day, charged, unwarned, crashes>>

(* The count that is warned of is stored and its warning is yet to be sent. *)
WarningDue(u) ==
  \E c \in Calls : call[c].pc = "warn" /\ call[c].user = u /\ call[c].date = day

----------------------------------------------------------------------------
(* removeMentionLimitEntry, after the account is gone: a file that is      *)
(* missing or does not hold the key is left alone, and so is one that does *)
(* not parse (the call rejects).                                           *)
RemoveLoad(u) ==
  /\ removal[u] = Idle
  /\ IF file.state = "whole" /\ file.limits[u] # NoRecord
     THEN removal' = [removal EXCEPT ![u] =
            [pc |-> "save", limits |-> [file.limits EXCEPT ![u] = NoRecord]]]
     ELSE removal' = [removal EXCEPT ![u] = [pc |-> "done"]]
  /\ UNCHANGED <<file, call, day, charged, warned, unwarned, crashes>>

RemoveTruncate(u) ==
  /\ removal[u].pc = "save"
  /\ file' = [state |-> "truncated"]
  /\ removal' = [removal EXCEPT ![u].pc = "write"]
  /\ UNCHANGED <<call, day, charged, warned, unwarned, crashes>>

RemoveWrite(u) ==
  /\ removal[u].pc = "write"
  /\ file' \in Written(file, removal[u].limits)
  /\ removal' = [removal EXCEPT ![u] = [pc |-> "done"]]
  /\ UNCHANGED <<call, day, charged, warned, unwarned, crashes>>

NextDay ==
  /\ day < LastDay
  /\ day' = day + 1
  /\ charged' = [u \in Users |-> 0]
  /\ warned' = {}
  /\ unwarned' = {}
  /\ UNCHANGED <<file, call, removal, crashes>>

(* The process stops and starts again: the file stays as it was.           *)
Crash ==
  /\ crashes < MaxCrashes
  /\ crashes' = crashes + 1
  /\ call' = [c \in Calls |-> Idle]
  /\ unwarned' = unwarned \cup {u \in Users : WarningDue(u)}
  /\ removal' = [u \in Leavers |-> IF removal[u] = Idle THEN Idle ELSE [pc |-> "done"]]
  /\ UNCHANGED <<file, day, charged, warned>>

Next ==
  \/ \E c \in Calls : \/ \E u \in Users : ConsumeBegin(c, u)
                      \/ ConsumeLoad(c)
                      \/ ConsumeRefuses(c)
                      \/ ConsumeAdmits(c)
                      \/ ConsumeTruncate(c)
                      \/ ConsumeWrite(c)
                      \/ ConsumeWarns(c)
  \/ \E u \in Leavers : RemoveLoad(u) \/ RemoveTruncate(u) \/ RemoveWrite(u)
  \/ NextDay
  \/ Crash

Spec == Init /\ [][Next]_vars

----------------------------------------------------------------------------
Refused(c) ==
  call[c].pc = "loaded" /\ call'[c] = Idle /\ crashes' = crashes

(* Nobody is cut off early: a mention is refused only on a day on which    *)
(* the sender was charged the full limit, whatever the overlapping writes, *)
(* truncated reads and stale stores of other calls did to the counters.    *)
NeverDeniedEarly ==
  [][\A c \in Calls : Refused(c) => charged[call[c].user] >= DailyLimit]_vars

(* No one runs into the limit unannounced: whoever is refused was sent the *)
(* threshold warning that day, unless it is still to be sent, or the       *)
(* process stopped after the count was stored and before it was sent.      *)
WarnedBeforeDenied ==
  [][\A c \in Calls : Refused(c) =>
       \/ call[c].user \in warned \cup unwarned
       \/ WarningDue(call[c].user)]_vars

(* The quota itself, "DAILY_LIMIT = 15" and "Check limit BEFORE            *)
(* incrementing": no sender is charged more than the limit in a day.  It   *)
(* holds while calls take turns and the process stays up, and not when     *)
(* two calls read the same count.                                          *)
QuotaHolds == \A u \in Users : charged[u] <= DailyLimit

=============================================================================
