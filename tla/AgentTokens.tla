------------------------------ MODULE AgentTokens ------------------------------
(***************************************************************************)
(* The bearer-token life cycle of a BYOA agent: creation, approval,        *)
(* rejection, suspension, soft deletion, removal with the creator's        *)
(* account, rotation with a grace window, and the bearer lookup every      *)
(* authenticated route starts with.                                        *)
(*                                                                         *)
(* Handlers run concurrently on one event loop and on several server       *)
(* processes: each database statement is atomic, anything between two      *)
(* awaits may be overtaken.  A handler that acts on what an earlier        *)
(* statement returned is a request in flight (variable req).               *)
(*                                                                         *)
(* Sources: server/src/services/agentTokenRotation.ts,                     *)
(* server/src/routes/agents.ts, server/src/middleware/byoaAuth.ts.         *)
(***************************************************************************)
EXTENDS Integers, FiniteSets

CONSTANTS
  Agents,     \* AgentToken rows (with their User row) that may be created
  Secrets,    \* the values crypto.randomBytes may return, each at most once
  Requests,   \* request slots: handlers that may be in flight at once
  NoSecret,   \* null
  Grace,      \* rotateGraceMs(), in ticks
  MaxTime     \* bound on the clock

ASSUME GraceAssumption == Grace \in Nat \ {0}
ASSUME TimeAssumption == MaxTime \in Nat
ASSUME NoSecretAssumption == NoSecret \notin Secrets

VARIABLES
  row,        \* agent_tokens
  user,       \* the agent's row in users
  member,     \* whether the agent has any room_participants row
  minted,     \* secrets that have been generated
  req,        \* handlers in flight
  now         \* the wall clock

vars == <<row, user, member, minted, req, now>>

Statuses == {"absent", "pending", "active", "rejected", "revoked", "gone"}
DeleteParts == {"user", "token", "rooms"}
Verdicts == {"none", "ok", "denied", "unknown"}
Time == 0..MaxTime

Row == [status: Statuses, isActive: BOOLEAN,
        token: Secrets \cup {NoSecret},
        previous: Secrets \cup {NoSecret}, expiresAt: 0..(MaxTime + Grace)]
User == [isActive: BOOLEAN, isDeleted: BOOLEAN]

IdleRequest   == [op: {"idle"}, answer: Verdicts]
LookupRequest == [op: {"lookup"}, secret: Secrets, since: Time]
RotateRequest == [op: {"rotate"}, agent: Agents, secret: Secrets, since: Time]
DeleteRequest == [op: {"delete"}, agent: Agents, todo: SUBSET DeleteParts]
Request == IdleRequest \cup LookupRequest \cup RotateRequest \cup DeleteRequest

TypeOK ==
  /\ row \in [Agents -> Row]
  /\ user \in [Agents -> User]
  /\ member \in [Agents -> BOOLEAN]
  /\ minted \subseteq Secrets
  /\ req \in [Requests -> Request]
  /\ now \in Time

----------------------------------------------------------------------------

NoRow == [status |-> "absent", isActive |-> FALSE, token |-> NoSecret,
          previous |-> NoSecret, expiresAt |-> 0]

Exists(a) == row[a].status \notin {"absent", "gone"}

Answered(v) == [op |-> "idle", answer |-> v]

Idle(q) == req[q].op = "idle"

Finish(q, v) == req' = [req EXCEPT ![q] = Answered(v)]

(* Faults: mutated forms of the definitions below, one plausible slip each. *)
SwapMatchesAnyToken(r, current) == r.isActive /\ r.status = "active"
SwapMatchesAnyStatus(r, current) == r.token = current
SwappedRowKeepsToken(r, current, fresh, expiry) ==
  [r EXCEPT !.previous = current, !.expiresAt = expiry]
SlotOfQueryReversed(i) == IF i = 1 THEN "previous" ELSE "current"

(* previousToken and previousTokenExpiresAt set to null together. *)
WithoutPrevious(r) == [r EXCEPT !.previous = NoSecret, !.expiresAt = 0]

Init ==
  /\ row = [a \in Agents |-> NoRow]
  /\ user = [a \in Agents |-> [isActive |-> FALSE, isDeleted |-> FALSE]]
  /\ member = [a \in Agents |-> FALSE]
  /\ minted = {}
  /\ req = [q \in Requests |-> Answered("none")]
  /\ now = 0

----------------------------------------------------------------------------
(* POST /api/agents: user, token row and the staging-room membership are   *)
(* created in one transaction; a trusted creator's agent starts active.    *)
CreateAgent(a) ==
  \E s \in Secrets \ minted, trusted \in BOOLEAN :
    /\ row[a].status = "absent"
    /\ row' = [row EXCEPT ![a] =
                 [NoRow EXCEPT !.status = IF trusted THEN "active" ELSE "pending",
                               !.isActive = trusted, !.token = s]]
    /\ user' = [user EXCEPT ![a] = [isActive |-> trusted, isDeleted |-> FALSE]]
    /\ member' = [member EXCEPT ![a] = TRUE]
    /\ minted' = minted \cup {s}
    /\ UNCHANGED <<req, now>>

(* PATCH /:id/activate, action "activate": one transaction over both rows. *)
Activate(a) ==
  /\ Exists(a)
  /\ row' = [row EXCEPT ![a].status = "active", ![a].isActive = TRUE]
  /\ user' = [user EXCEPT ![a].isActive = TRUE]
  /\ UNCHANGED <<member, minted, req, now>>

(* PATCH /:id/activate, action "reject". *)
RejectedRow(r) ==
  WithoutPrevious([r EXCEPT !.status = "rejected", !.isActive = FALSE])

Reject(a) ==
  /\ Exists(a)
  /\ row' = [row EXCEPT ![a] = RejectedRow(@)]
  /\ user' = [user EXCEPT ![a].isActive = FALSE]
  /\ UNCHANGED <<member, minted, req, now>>

(* PATCH /:id with isActive false (suspend) or true (resume): the status   *)
(* is neither read nor written.                                            *)
SuspendedRow(r) == WithoutPrevious([r EXCEPT !.isActive = FALSE])

Suspend(a) ==
  /\ Exists(a)
  /\ row' = [row EXCEPT ![a] = SuspendedRow(@)]
  /\ UNCHANGED <<user, member, minted, req, now>>

Resume(a) ==
  /\ Exists(a)
  /\ row' = [row EXCEPT ![a].isActive = TRUE]
  /\ UNCHANGED <<user, member, minted, req, now>>

(* DELETE /:id reads the row, then issues three independent writes whose   *)
(* order the database decides and of which any may fail alone.             *)
DeleteBegin(q, a) ==
  /\ Idle(q)
  /\ Exists(a)
  /\ ~user[a].isDeleted
  /\ req' = [req EXCEPT ![q] = [op |-> "delete", agent |-> a, todo |-> DeleteParts]]
  /\ UNCHANGED <<row, user, member, minted, now>>

DeleteStepDone(q, part) ==
  LET rest == req[q].todo \ {part}
  IN  IF rest = {} THEN Finish(q, "none")
                   ELSE req' = [req EXCEPT ![q].todo = rest]

DeleteUser(q) ==
  /\ req[q].op = "delete" /\ "user" \in req[q].todo
  /\ user' = [user EXCEPT ![req[q].agent] = [isActive |-> FALSE, isDeleted |-> TRUE]]
  /\ DeleteStepDone(q, "user")
  /\ UNCHANGED <<row, member, minted, now>>

RevokedRow(r) ==
  WithoutPrevious([r EXCEPT !.status = "revoked", !.isActive = FALSE])

DeleteToken(q) ==
  /\ req[q].op = "delete" /\ "token" \in req[q].todo
  /\ Exists(req[q].agent)
  /\ row' = [row EXCEPT ![req[q].agent] = RevokedRow(@)]
  /\ DeleteStepDone(q, "token")
  /\ UNCHANGED <<user, member, minted, now>>

DeleteRooms(q) ==
  /\ req[q].op = "delete" /\ "rooms" \in req[q].todo
  /\ member' = [member EXCEPT ![req[q].agent] = FALSE]
  /\ DeleteStepDone(q, "rooms")
  /\ UNCHANGED <<row, user, minted, now>>

DeleteWriteFails(q, part) ==
  /\ req[q].op = "delete" /\ part \in req[q].todo
  /\ DeleteStepDone(q, part)
  /\ UNCHANGED <<row, user, member, minted, now>>

(* DELETE /api/auth/me of the agent's creator, one transaction: the        *)
(* agent's user is deactivated and its token row removed.                  *)
CreatorAccountDeleted(a) ==
  /\ Exists(a)
  /\ row' = [row EXCEPT ![a] = [NoRow EXCEPT !.status = "gone"]]
  /\ user' = [user EXCEPT ![a].isActive = FALSE]
  /\ UNCHANGED <<member, minted, req, now>>

----------------------------------------------------------------------------
(* POST /:id/token/rotate.  A caller that fails the gateway check, or      *)
(* presents anything but the current token, gets an error and changes      *)
(* nothing, so only the passing read is a step.                            *)
RotateBegin(q, a) ==
  /\ Idle(q)
  /\ Exists(a)
  /\ ~user[a].isDeleted
  /\ row[a].isActive /\ row[a].status = "active" /\ user[a].isActive
  /\ req' = [req EXCEPT ![q] =
               [op |-> "rotate", agent |-> a, secret |-> row[a].token, since |-> now]]
  /\ UNCHANGED <<row, user, member, minted, now>>

(* The WHERE clause of the compare-and-swap in rotateAgentToken. *)
SwapMatches(r, current) ==
  /\ r.token = current
  /\ r.isActive
  /\ r.status = "active"

(* The SET clause: the replaced token becomes the only previous one. *)
SwappedRow(r, current, fresh, expiry) ==
  [r EXCEPT !.token = fresh, !.previous = current, !.expiresAt = expiry]

(* The clock is read after the row was, and before the update is executed. *)
RotateSwap(q) ==
  /\ req[q].op = "rotate"
  /\ LET a == req[q].agent
     IN  /\ SwapMatches(row[a], req[q].secret)
         /\ \E s \in Secrets \ minted, t \in req[q].since .. now :
              /\ row' = [row EXCEPT ![a] = SwappedRow(@, req[q].secret, s, t + Grace)]
              /\ minted' = minted \cup {s}
  /\ Finish(q, "ok")
  /\ UNCHANGED <<user, member, now>>

(* RotateConflictError, answered 409. *)
RotateConflict(q) ==
  /\ req[q].op = "rotate"
  /\ ~SwapMatches(row[req[q].agent], req[q].secret)
  /\ Finish(q, "denied")
  /\ UNCHANGED <<row, user, member, minted, now>>

----------------------------------------------------------------------------
(* findAgentTokenByRawToken: two queries, the current column first; the    *)
(* second compares the expiry with the clock read when the call started.   *)
SlotOfQuery(i) == IF i = 1 THEN "current" ELSE "previous"

InSlot(a, s, slot, since) ==
  \/ slot = "current" /\ row[a].token = s
  \/ slot = "previous" /\ row[a].previous = s /\ row[a].expiresAt > since

Hits(i, s, since) == {a \in Agents : InSlot(a, s, SlotOfQuery(i), since)}

(* resolveActiveAgentToken. *)
ByoaAccepts(a) ==
  /\ user[a].isActive
  /\ row[a].status \notin {"pending", "rejected"}
  /\ row[a].isActive

VerdictOn(a) == IF ByoaAccepts(a) THEN "ok" ELSE "denied"

LookupFirst(q, s) ==
  /\ Idle(q)
  /\ \/ \E a \in Hits(1, s, now) : Finish(q, VerdictOn(a))
     \/ /\ Hits(1, s, now) = {}
        /\ req' = [req EXCEPT ![q] = [op |-> "lookup", secret |-> s, since |-> now]]
  /\ UNCHANGED <<row, user, member, minted, now>>

LookupSecond(q) ==
  /\ req[q].op = "lookup"
  /\ LET hits == Hits(2, req[q].secret, req[q].since)
     IN  \/ \E a \in hits : Finish(q, VerdictOn(a))
         \/ hits = {} /\ Finish(q, "unknown")
  /\ UNCHANGED <<row, user, member, minted, now>>

Tick ==
  /\ now < MaxTime
  /\ now' = now + 1
  /\ UNCHANGED <<row, user, member, minted, req>>

Next ==
  \/ \E a \in Agents : \/ CreateAgent(a)
                       \/ Activate(a)
                       \/ Reject(a)
                       \/ Suspend(a)
                       \/ Resume(a)
                       \/ CreatorAccountDeleted(a)
  \/ \E q \in Requests, a \in Agents : DeleteBegin(q, a) \/ RotateBegin(q, a)
  \/ \E q \in Requests : \/ DeleteUser(q)
                         \/ DeleteToken(q)
                         \/ DeleteRooms(q)
                         \/ \E part \in DeleteParts : DeleteWriteFails(q, part)
                         \/ RotateSwap(q)
                         \/ RotateConflict(q)
                         \/ \E s \in minted : LookupFirst(q, s)
                         \/ LookupSecond(q)
  \/ Tick

Spec == Init /\ [][Next]_vars

----------------------------------------------------------------------------
(* A secret honoured at some slot of some row for a lookup begun at since. *)
Honoured(s, since) ==
  \E a \in Agents : \/ InSlot(a, s, "current", since)
                    \/ InSlot(a, s, "previous", since)

Held(s) == \E a \in Agents : row[a].token = s \/ row[a].previous = s

(* No secret stands in two slots: whatever interleaving of creations and   *)
(* rotations ran, a bearer resolves to one row, and never both as the      *)
(* current token of one and the grace token of another (the schema keeps   *)
(* each of the two columns unique, not the two together).                  *)
SecretsDisjoint ==
  \A a, b \in Agents :
    /\ a # b /\ row[a].token # NoSecret => row[a].token # row[b].token
    /\ row[a].previous # NoSecret =>
         /\ row[a].previous # row[b].token
         /\ a # b => row[a].previous # row[b].previous

(* Revoking wins over a rotation in flight: a row that an admin suspended, *)
(* rejected or that was deleted keeps no grace token, even when the        *)
(* rotation had passed all its checks before the revocation was written.   *)
PreviousOnlyWhileActive ==
  \A a \in Agents :
    row[a].previous # NoSecret => row[a].isActive /\ row[a].status = "active"

(* A grace window never ends later than a full window from the present,    *)
(* and a row without a grace token carries no expiry.                      *)
GraceBounded ==
  \A a \in Agents :
    /\ row[a].expiresAt <= now + Grace
    /\ row[a].previous = NoSecret => row[a].expiresAt = 0

(* What the proofs of the above rest on: a row that exists holds a minted  *)
(* secret and an absent one holds nothing, and a lookup between its two    *)
(* queries holds a minted secret that is no row's current token.           *)
RowsHoldMintedSecrets ==
  \A a \in Agents :
    /\ IF Exists(a) THEN row[a].token \in minted
                    ELSE row[a].token = NoSecret /\ row[a].previous = NoSecret
    /\ row[a].previous \in minted \cup {NoSecret}

LookupsMissedCurrent ==
  \A q \in Requests : req[q].op = "lookup" =>
    /\ req[q].secret \in minted
    /\ \A a \in Agents : row[a].token # req[q].secret

Inductive ==
  /\ TypeOK
  /\ RowsHoldMintedSecrets
  /\ SecretsDisjoint
  /\ PreviousOnlyWhileActive
  /\ GraceBounded
  /\ LookupsMissedCurrent

(* Of concurrent rotations of one agent exactly one wins: whenever a       *)
(* current token is replaced, it is the one that moves into the grace      *)
(* slot, so the holder of the secret that was valid is never locked out by *)
(* a rotation that started from an older one.                              *)
RotationKeepsOld ==
  [][\A a \in Agents :
       row[a].token # NoSecret /\ row'[a].token \notin {NoSecret, row[a].token}
         => row'[a].previous = row[a].token]_vars

(* A secret that has left both slots of its row is dead for good: no late  *)
(* rotation, activation or resumption brings it back.                      *)
SupersededStaysDead ==
  [][\A s \in minted : ~Held(s) => ~Held(s)']_vars

(* The two-query lookup never overlooks a secret that moves between the    *)
(* slots while it runs: "unknown" is answered only for a secret that is    *)
(* honoured nowhere at the moment of the answer.                           *)
LookupNeverMisses ==
  [][\A q \in Requests :
       req[q].op = "lookup" /\ req'[q] = Answered("unknown")
         => ~Honoured(req[q].secret, req[q].since)]_vars

(* The whole life cycle, handlers in flight included, behaves like the     *)
(* abstract AgentAccess: every step is one indivisible issue, enabling,    *)
(* disabling, retirement or replacement, or is invisible.                  *)
Access == INSTANCE AgentAccess WITH
  enabled <- {a \in Agents : row[a].isActive /\ row[a].status = "active"},
  current <- [a \in Agents |-> row[a].token],
  grace   <- [a \in Agents |-> row[a].previous],
  used    <- minted

ImplementsAccess == Access!Spec

(* What the header of agentTokenRotation.ts says of a revoked row: with    *)
(* isActive false, or a status other than "active", it authenticates no    *)
(* one.  byoaAuth tests only for "pending" and "rejected".                 *)
AcceptedRowsAreActive ==
  \A a \in Agents : ByoaAccepts(a) => row[a].isActive /\ row[a].status = "active"

=============================================================================
