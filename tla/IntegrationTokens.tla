--------------------------- MODULE IntegrationTokens ---------------------------
(***************************************************************************)
(* OAuth tokens of connected providers: connecting, revoking, the refresh  *)
(* that a lookup does inline, and the refresh sweep of the timer.          *)
(*                                                                         *)
(* A refresh reads the row, asks the provider, then writes by row id; the  *)
(* sweep reads all its rows first and refreshes them one after the other,  *)
(* and neither looks at the row again before it writes.  A row may be      *)
(* revoked, reconnected, deleted or refreshed by somebody else meanwhile.  *)
(*                                                                         *)
(* One provider and scope, one row per user.  Sources:                     *)
(* server/src/services/tokenManager.ts, server/src/routes/integrations.ts, *)
(* server/src/routes/admin.ts (the OAuth callback).                        *)
(***************************************************************************)
EXTENDS Integers, FiniteSets

CONSTANTS
  Users,
  Sweeps,      \* refreshExpiring calls: setInterval starts one, ended or not
  Lookups,     \* getTokenForUser calls that found an expired token
  Callbacks,   \* OAuth callbacks in flight
  MaxPairs,    \* bound on the refresh tokens the provider hands out
  MaxCrashes   \* bound on the stops of the server process

ASSUME BoundAssumption == MaxPairs \in Nat /\ MaxCrashes \in Nat
ASSUME SlotAssumption == Sweeps \cap Lookups = {}

VARIABLES
  row,       \* integration_tokens, one row per user
  live,      \* users whose account exists
  refresher, \* refreshes in flight
  callback,  \* OAuth callbacks in flight
  issued,    \* provider: how many refresh tokens it has handed out
  valid,     \* provider: the refresh tokens it accepts
  crashes    \* history: stops of the process

vars == <<row, live, refresher, callback, issued, valid, crashes>>

Refreshers == Sweeps \cup Lookups
Pairs == 1..MaxPairs      \* a refresh token, and the access token issued with it
NoRefresh == 0            \* the refreshToken column is null

(* "fresh" is a token that is not within ten minutes of its expiry. *)
Ages == {"fresh", "expiring", "expired"}
Statuses == {"absent", "active", "error", "revoked"}
Row == [status: Statuses, age: Ages, access: 0..MaxPairs, refresh: 0..MaxPairs]
Read == [user: Users, seen: Statuses, access: 0..MaxPairs, refresh: 0..MaxPairs]

NoWork == [pc |-> "idle", todo |-> {}]

RefresherState ==
  [pc: {"idle", "next"}, todo: SUBSET Read]
    \cup [pc: {"ask", "fail"}, todo: SUBSET Read, read: Read]
    \cup [pc: {"got"}, todo: SUBSET Read, read: Read, new: 0..MaxPairs]
CallbackState == [pc: {"idle"}] \cup [pc: {"store"}, user: Users, access: Pairs, refresh: 0..MaxPairs]

TypeOK ==
  /\ row \in [Users -> Row]
  /\ live \subseteq Users
  /\ refresher \in [Refreshers -> RefresherState]
  /\ callback \in [Callbacks -> CallbackState]
  /\ issued \in 0..MaxPairs
  /\ valid \subseteq 1..issued
  /\ crashes \in 0..MaxCrashes

NoRow == [status |-> "absent", age |-> "fresh", access |-> 0, refresh |-> NoRefresh]
NoCallback == [pc |-> "idle"]

Init ==
  /\ row = [u \in Users |-> NoRow]
  /\ live = Users
  /\ refresher = [r \in Refreshers |-> NoWork]
  /\ callback = [c \in Callbacks |-> NoCallback]
  /\ issued = 0 /\ valid = {} /\ crashes = 0

----------------------------------------------------------------------------
(* Faults: mutated forms of the definitions below. *)
DueWhateverStatus(r) == r.status # "absent" /\ r.age \in {"expiring", "expired"}
DueBeforeExpiry(r) == r.status = "active" /\ r.age = "expiring"
RefreshedKeepsColumn(r, read, new) ==
  [r EXCEPT !.status = "active", !.age = "fresh",
            !.access = IF new = 0 THEN read.access ELSE new,
            !.refresh = IF new = 0 THEN @ ELSE new]
AnyRow(r) == TRUE

(* storeToken for a user: an upsert on (provider, scope, tenant, user).    *)
StoredRow(c) ==
  [status |-> "active", age |-> "fresh",
   access |-> callback[c].access, refresh |-> callback[c].refresh]

(* The callback's code exchange: a new grant, with or without a refresh    *)
(* token.                                                                  *)
CallbackExchange(c, u) ==
  /\ callback[c] = NoCallback
  /\ u \in live
  /\ issued < MaxPairs
  /\ issued' = issued + 1
  /\ \E offline \in BOOLEAN :
       /\ callback' = [callback EXCEPT ![c] =
            [pc |-> "store", user |-> u, access |-> issued + 1,
             refresh |-> IF offline THEN issued + 1 ELSE NoRefresh]]
       /\ valid' = IF offline THEN valid \cup {issued + 1} ELSE valid
  /\ UNCHANGED <<row, live, refresher, crashes>>

(* A user who is gone fails the foreign key. *)
CallbackStore(c) ==
  /\ callback[c].pc = "store"
  /\ LET u == callback[c].user
     IN  row' = IF u \in live THEN [row EXCEPT ![u] = StoredRow(c)] ELSE row
  /\ callback' = [callback EXCEPT ![c] = NoCallback]
  /\ UNCHANGED <<live, refresher, issued, valid, crashes>>

(* DELETE /by-id/:id of the owner, whatever the status. *)
Revoke(u) ==
  /\ u \in live /\ row[u].status # "absent"
  /\ row' = [row EXCEPT ![u].status = "revoked"]
  /\ UNCHANGED <<live, refresher, callback, issued, valid, crashes>>

(* DELETE /api/auth/me removes the user's rows with the user. *)
AccountDeleted(u) ==
  /\ u \in live
  /\ live' = live \ {u}
  /\ row' = [row EXCEPT ![u] = NoRow]
  /\ UNCHANGED <<refresher, callback, issued, valid, crashes>>

----------------------------------------------------------------------------
ReadOf(u) == [user |-> u, seen |-> row[u].status,
              access |-> row[u].access, refresh |-> row[u].refresh]

(* The where clause of refreshExpiring. *)
Due(r) == r.status = "active" /\ r.age \in {"expiring", "expired"}

SweepBegin(s) ==
  /\ refresher[s].pc = "idle"
  /\ \E u \in Users : Due(row[u])
  /\ refresher' = [refresher EXCEPT ![s] =
       [pc |-> "next", todo |-> {ReadOf(u) : u \in {v \in Users : Due(row[v])}}]]
  /\ UNCHANGED <<row, live, callback, issued, valid, crashes>>

(* getTokenForUser: an active token that has not expired is handed out     *)
(* at once and changes nothing.                                            *)
LookupExpired(l, u) ==
  /\ refresher[l].pc = "idle"
  /\ row[u].status = "active" /\ row[u].age = "expired"
  /\ refresher' = [refresher EXCEPT ![l] = [pc |-> "next", todo |-> {ReadOf(u)}]]
  /\ UNCHANGED <<row, live, callback, issued, valid, crashes>>

(* tryRefresh of the next record: without a refresh token it only marks    *)
(* the error.                                                              *)
RefreshNext(r) ==
  /\ refresher[r].pc = "next"
  /\ \E read \in refresher[r].todo :
       refresher' = [refresher EXCEPT ![r] =
         [pc |-> IF read.refresh = NoRefresh THEN "fail" ELSE "ask",
          todo |-> refresher[r].todo \ {read}, read |-> read]]
  /\ UNCHANGED <<row, live, callback, issued, valid, crashes>>

Answered(r, pc) ==
  [pc |-> pc, todo |-> refresher[r].todo, read |-> refresher[r].read]

(* The provider answers with a new refresh token and drops the old one ... *)
ProviderRotates(r) ==
  /\ refresher[r].pc = "ask"
  /\ refresher[r].read.refresh \in valid
  /\ issued < MaxPairs
  /\ issued' = issued + 1
  /\ valid' = (valid \ {refresher[r].read.refresh}) \cup {issued + 1}
  /\ refresher' = [refresher EXCEPT ![r] =
       [pc |-> "got", todo |-> refresher[r].todo, read |-> refresher[r].read,
        new |-> issued + 1]]
  /\ UNCHANGED <<row, live, callback, crashes>>

(* ... or with an access token alone ... *)
ProviderKeeps(r) ==
  /\ refresher[r].pc = "ask"
  /\ refresher[r].read.refresh \in valid
  /\ refresher' = [refresher EXCEPT ![r] =
       [pc |-> "got", todo |-> refresher[r].todo, read |-> refresher[r].read, new |-> 0]]
  /\ UNCHANGED <<row, live, callback, issued, valid, crashes>>

(* ... or refuses, or the answer never arrives. *)
ProviderFails(r) ==
  /\ refresher[r].pc = "ask"
  /\ refresher' = [refresher EXCEPT ![r] = Answered(r, "fail")]
  /\ \/ UNCHANGED <<issued, valid>>
     \/ /\ refresher[r].read.refresh \in valid /\ issued < MaxPairs
        /\ issued' = issued + 1
        /\ valid' = (valid \ {refresher[r].read.refresh}) \cup {issued + 1}
  /\ UNCHANGED <<row, live, callback, crashes>>

(* The refresh writes both columns: the refresh token of the answer or,    *)
(* without one, the token it was asked with.                               *)
RefreshedRow(r, read, new) ==
  [r EXCEPT !.status = "active", !.age = "fresh",
            !.access = IF new = 0 THEN read.access ELSE new,
            !.refresh = IF new = 0 THEN read.refresh ELSE new]

MoveOn(r) == refresher' = [refresher EXCEPT ![r] =
  [pc |-> IF refresher[r].todo = {} THEN "idle" ELSE "next", todo |-> refresher[r].todo]]

(* Updating a row that is gone throws, and so does the error mark that     *)
(* follows, silently.                                                      *)
Updatable(r) == r.status # "absent"

RefreshWrite(r) ==
  /\ refresher[r].pc = "got"
  /\ LET read == refresher[r].read
         u == read.user
     IN  row' = IF Updatable(row[u])
                THEN [row EXCEPT ![u] = RefreshedRow(@, read, refresher[r].new)]
                ELSE row
  /\ MoveOn(r)
  /\ UNCHANGED <<live, callback, issued, valid, crashes>>

MarkError(r) ==
  /\ refresher[r].pc = "fail"
  /\ LET u == refresher[r].read.user
     IN  row' = IF Updatable(row[u]) THEN [row EXCEPT ![u].status = "error"] ELSE row
  /\ MoveOn(r)
  /\ UNCHANGED <<live, callback, issued, valid, crashes>>

----------------------------------------------------------------------------
Age(u) ==
  /\ row[u].status # "absent" /\ row[u].age # "expired"
  /\ row' = [row EXCEPT ![u].age = IF @ = "fresh" THEN "expiring" ELSE "expired"]
  /\ UNCHANGED <<live, refresher, callback, issued, valid, crashes>>

(* The process stops and starts again. *)
Crash ==
  /\ crashes < MaxCrashes
  /\ crashes' = crashes + 1
  /\ refresher' = [r \in Refreshers |-> NoWork]
  /\ callback' = [c \in Callbacks |-> NoCallback]
  /\ UNCHANGED <<row, live, issued, valid>>

RefreshStep(r) ==
  \/ RefreshNext(r)
  \/ ProviderRotates(r)
  \/ ProviderKeeps(r)
  \/ ProviderFails(r)
  \/ RefreshWrite(r)
  \/ MarkError(r)

Next ==
  \/ \E c \in Callbacks : CallbackStore(c) \/ \E u \in Users : CallbackExchange(c, u)
  \/ \E u \in Users : Revoke(u) \/ AccountDeleted(u) \/ Age(u)
  \/ \E s \in Sweeps : SweepBegin(s)
  \/ \E l \in Lookups, u \in Users : LookupExpired(l, u)
  \/ \E r \in Refreshers : RefreshStep(r)
  \/ Crash

Spec == Init /\ [][Next]_vars

(* startAutoRefresh runs a sweep every five minutes, and fetch gives up on *)
(* a silent provider, so every refresh that has begun comes to an end.     *)
Fairness ==
  /\ \A s \in Sweeps : WF_vars(SweepBegin(s))
  /\ \A r \in Refreshers : WF_vars(RefreshStep(r))

FairSpec == Spec /\ Fairness
----------------------------------------------------------------------------
(* A row's access token and refresh token are of one pair, however a       *)
(* refresh in flight, a second refresh and a reconnection overlap: the row *)
(* never holds the access token of one grant beside the refresh token of   *)
(* another, with which the next refresh would switch grants.               *)
TokensArePaired ==
  \A u \in Users : row[u].refresh \in {NoRefresh, row[u].access}

(* Revoking lasts: a revoked row becomes active again only by connecting   *)
(* anew, or by a refresh that had read the row while it was active; once   *)
(* those are done it stays revoked.                                        *)
HeldActive(u) ==
  \/ \E c \in Callbacks : callback[c].pc = "store" /\ callback[c].user = u
  \/ \E r \in Refreshers :
       \E read \in refresher[r].todo \cup
                   (IF refresher[r].pc \in {"ask", "got", "fail"}
                      THEN {refresher[r].read} ELSE {}) :
         read.user = u /\ read.seen = "active"

RevocationLasts ==
  [][\A u \in Users :
       row[u].status = "revoked" /\ ~HeldActive(u)
         => row'[u].status \in {"revoked", "absent"}]_vars

(* Nothing brings back the tokens of a deleted account: not the store of a *)
(* callback nor the write of a refresh that was under way.                 *)
DeletedKeepNoToken ==
  \A u \in Users \ live : row[u].status = "absent"

(* No expired token stays behind as active: the timer's sweep refreshes it *)
(* or marks the error, in spite of crashes and of other sweeps.            *)
ExpiredIsHandled ==
  \A u \in Users :
    (row[u].status = "active" /\ row[u].age = "expired")
      ~> (row[u].status # "active" \/ row[u].age # "expired")

=============================================================================
