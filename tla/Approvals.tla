------------------------------- MODULE Approvals -------------------------------
(***************************************************************************)
(* Human approval of connector actions: the connector proxy that creates,  *)
(* looks up and consumes approval requests, and the decide route.          *)
(*                                                                         *)
(* Both handlers await the database between reading a row and acting on    *)
(* it, so a call is a little process of its own: a proxy call passes the   *)
(* gate, then runs the action or creates a request; a decision reads the   *)
(* request, then checks who decides, then writes.                          *)
(*                                                                         *)
(* Sources: server/src/connectors/proxy.ts, server/src/routes/approvals.ts *)
(***************************************************************************)
EXTENDS Integers, FiniteSets

CONSTANTS
  Agents,       \* callers: users behind agent bearer tokens
  Actions,      \* connector actions with requiresApproval
  Tasks, NoTask,
  ProjectOf,    \* the project of each task
  NoProject,
  Humans, Admins, Nobody,   \* users with the platform; the admins among them
  Requests,     \* approval_request rows that may be created
  Calls,        \* proxy calls in flight
  Deciders,     \* decide calls in flight
  Window,       \* 24 hours, in ticks
  MaxTime       \* bound on the clock

(* What a server has: somebody who may call, something to call, and a      *)
(* window and a clock that are numbers.  MCServer, which instantiates this *)
(* module, has TLC evaluate it.                                            *)
Configured == Agents # {} /\ Actions # {} /\ Window \in Nat /\ MaxTime \in Nat

VARIABLES
  request,    \* approval_request
  team,       \* owners and team members: pairs of a human and a project
  joined,     \* history: every pair that was ever in team
  live,       \* humans whose account exists
  call,       \* proxy calls in flight
  decide,     \* decide calls in flight
  decisions,  \* history: every decision written
  executed,   \* history: every action sent to a provider
  now

vars == <<request, team, joined, live, call, decide, decisions, executed, now>>

Projects == {ProjectOf[t] : t \in Tasks}
Members == (Humans \ Admins) \X Projects  \* an admin's own membership decides nothing
TaskOrNone == Tasks \cup {NoTask}
Statuses == {"absent", "pending", "approved", "rejected"}
Verdicts == {"approved", "rejected"}
BodyStatuses == Verdicts \cup {"pending"}   \* what the body of a decision may say
Time == 0..MaxTime

(* What a call asks for, and what an approval is looked up by. *)
Key == [agent: Agents, action: Actions, task: TaskOrNone]

Row == [status: Statuses, key: Key, project: Projects \cup {NoProject},
        created: Time, decidedBy: Humans \cup {Nobody}]

CallState ==
  [pc: {"idle"}] \cup [pc: {"gate", "create"}, key: Key]
    \cup [pc: {"run"}, key: Key, request: Requests, gated: Time]
DecideState ==
  [pc: {"idle"}] \cup
  [pc: {"check", "write"}, by: Humans, request: Requests, verdict: Verdicts,
   seen: Statuses]

TypeOK ==
  /\ request \in [Requests -> Row]
  /\ team \subseteq joined /\ joined \subseteq Members
  /\ live \subseteq Humans
  /\ call \in [Calls -> CallState]
  /\ decide \in [Deciders -> DecideState]
  /\ decisions \subseteq [request: Requests, by: Humans, verdict: Verdicts]
  /\ executed \subseteq [key: Key, request: Requests, gated: Time]
  /\ now \in Time

Idle == [pc |-> "idle"]

NoRow == [status |-> "absent", key |-> CHOOSE k \in Key : TRUE, project |-> NoProject,
          created |-> 0, decidedBy |-> Nobody]

Init ==
  /\ request = [r \in Requests |-> NoRow]
  /\ team \in SUBSET Members
  /\ joined = team
  /\ live = Humans
  /\ call = [c \in Calls |-> Idle]
  /\ decide = [d \in Deciders |-> Idle]
  /\ decisions = {}
  /\ executed = {}
  /\ now = 0

----------------------------------------------------------------------------
(* Faults: mutated forms of the definitions below. *)
MatchesAnyTask(r, k, cutoff) ==
  /\ r.status = "approved"
  /\ r.key.agent = k.agent /\ r.key.action = k.action
  /\ r.created >= cutoff
UnscopedIsOpen(h, p) == h \in Admins \/ p = NoProject \/ <<h, p>> \in team

(* The where clause of the gate's findFirst. *)
Matches(r, k, cutoff) ==
  /\ r.status = "approved"
  /\ r.key = k
  /\ r.created >= cutoff

MatchingRequests(k) == {r \in Requests : Matches(request[r], k, now - Window)}

(* orderBy createdAt desc *)
Latest(S) == {r \in S : \A s \in S : request[s].created <= request[r].created}

(* A call that fails the token, permission or task checks is answered with *)
(* an error and changes nothing, so a call starts past them.               *)
CallAuthorized(c, k) ==
  /\ call[c] = Idle
  /\ call' = [call EXCEPT ![c] = [pc |-> "gate", key |-> k]]
  /\ UNCHANGED <<request, team, joined, live, decide, decisions, executed, now>>

GateFindsApproval(c) ==
  /\ call[c].pc = "gate"
  /\ \E r \in Latest(MatchingRequests(call[c].key)) :
       call' = [call EXCEPT ![c] = [pc |-> "run", key |-> call[c].key,
                                    request |-> r, gated |-> now]]
  /\ UNCHANGED <<request, team, joined, live, decide, decisions, executed, now>>

GateFindsNone(c) ==
  /\ call[c].pc = "gate"
  /\ MatchingRequests(call[c].key) = {}
  /\ call' = [call EXCEPT ![c].pc = "create"]
  /\ UNCHANGED <<request, team, joined, live, decide, decisions, executed, now>>

NewRequest(k) ==
  [status |-> "pending", key |-> k, created |-> now, decidedBy |-> Nobody,
   project |-> IF k.task = NoTask THEN NoProject ELSE ProjectOf[k.task]]

(* The 202 answer.  The notification of the project room is best effort    *)
(* and touches no approval state.                                          *)
CreateRequest(c) ==
  /\ call[c].pc = "create"
  /\ \E r \in Requests :
       /\ request[r].status = "absent"
       /\ request' = [request EXCEPT ![r] = NewRequest(call[c].key)]
  /\ call' = [call EXCEPT ![c] = Idle]
  /\ UNCHANGED <<team, joined, live, decide, decisions, executed, now>>

(* resolveToken found a usable integration token and the provider is       *)
(* called.                                                                 *)
RunAction(c) ==
  /\ call[c].pc = "run"
  /\ executed' = executed \cup {[key |-> call[c].key, request |-> call[c].request,
                                 gated |-> call[c].gated]}
  /\ call' = [call EXCEPT ![c] = Idle]
  /\ UNCHANGED <<request, team, joined, live, decide, decisions, now>>

(* No usable token (503), a database error (500), or the process stops.    *)
CallFails(c) ==
  /\ call[c] # Idle
  /\ call' = [call EXCEPT ![c] = Idle]
  /\ UNCHANGED <<request, team, joined, live, decide, decisions, executed, now>>

----------------------------------------------------------------------------
CanDecide(h, p) == h \in Admins \/ (p # NoProject /\ <<h, p>> \in team)

StillPending(seen) == seen = "pending"

ValidVerdict(v) == v \in Verdicts

(* PATCH /:id/decide: the body is validated and the row is read ... *)
DecideRead(d, h, r, verdict) ==
  /\ decide[d] = Idle
  /\ h \in live
  /\ ValidVerdict(verdict)
  /\ request[r].status # "absent"
  /\ decide' = [decide EXCEPT ![d] = [pc |-> "check", by |-> h, request |-> r,
                                      verdict |-> verdict, seen |-> request[r].status]]
  /\ UNCHANGED <<request, team, joined, live, call, decisions, executed, now>>

(* ... then the project, for the entitlement; the pending check that       *)
(* follows is on the row as it was read ...                                *)
DecidePasses(d) ==
  /\ decide[d].pc = "check"
  /\ CanDecide(decide[d].by, request[decide[d].request].project)
  /\ StillPending(decide[d].seen)
  /\ decide' = [decide EXCEPT ![d].pc = "write"]
  /\ UNCHANGED <<request, team, joined, live, call, decisions, executed, now>>

DecideRefused(d) ==
  /\ decide[d].pc = "check"
  /\ ~(CanDecide(decide[d].by, request[decide[d].request].project)
         /\ StillPending(decide[d].seen))
  /\ decide' = [decide EXCEPT ![d] = Idle]
  /\ UNCHANGED <<request, team, joined, live, call, decisions, executed, now>>

(* ... and the update is by id alone. *)
DecideWrite(d) ==
  /\ decide[d].pc = "write"
  /\ request' = [request EXCEPT ![decide[d].request].status = decide[d].verdict,
                                ![decide[d].request].decidedBy = decide[d].by]
  /\ decisions' = decisions \cup {[request |-> decide[d].request, by |-> decide[d].by,
                                   verdict |-> decide[d].verdict]}
  /\ decide' = [decide EXCEPT ![d] = Idle]
  /\ UNCHANGED <<team, joined, live, call, executed, now>>

(* The database refuses the update, or the process stops before it. *)
DecideFails(d) ==
  /\ decide[d].pc = "write"
  /\ decide' = [decide EXCEPT ![d] = Idle]
  /\ UNCHANGED <<request, team, joined, live, call, decisions, executed, now>>

(* A human joins the project's team (an invitation, or joining its room).  *)
JoinTeam(h, p) ==
  /\ h \in live /\ <<h, p>> \in Members
  /\ team' = team \cup {<<h, p>>}
  /\ joined' = joined \cup {<<h, p>>}
  /\ UNCHANGED <<request, live, call, decide, decisions, executed, now>>

(* No route removes a member, but every writer of teamMemberIds writes back *)
(* an array it read before an await, so a concurrent join can be undone;   *)
(* deleting the project removes them all.                                  *)
MembershipLost(h, p) ==
  /\ <<h, p>> \in team
  /\ team' = team \ {<<h, p>>}
  /\ UNCHANGED <<request, joined, live, call, decide, decisions, executed, now>>

(* DELETE /api/auth/me of a decider, as far as approvals are concerned.    *)
AccountDeleted(h) ==
  /\ h \in live
  /\ live' = live \ {h}
  /\ team' = {m \in team : m[1] # h}
  /\ request' = [r \in Requests |->
       IF request[r].decidedBy = h THEN [request[r] EXCEPT !.decidedBy = Nobody]
                                   ELSE request[r]]
  /\ UNCHANGED <<joined, call, decide, decisions, executed, now>>

Tick ==
  /\ now < MaxTime
  /\ now' = now + 1
  /\ UNCHANGED <<request, team, joined, live, call, decide, decisions, executed>>

Next ==
  \/ \E c \in Calls : \/ \E k \in Key : CallAuthorized(c, k)
                      \/ GateFindsApproval(c)
                      \/ GateFindsNone(c)
                      \/ CreateRequest(c)
                      \/ RunAction(c)
                      \/ CallFails(c)
  \/ \E d \in Deciders : \/ \E h \in Humans, r \in Requests, v \in BodyStatuses :
                              DecideRead(d, h, r, v)
                         \/ DecidePasses(d)
                         \/ DecideRefused(d)
                         \/ DecideWrite(d)
                         \/ DecideFails(d)
  \/ \E h \in Humans : \/ AccountDeleted(h)
                       \/ \E p \in Projects : JoinTeam(h, p) \/ MembershipLost(h, p)
  \/ Tick

Spec == Init /\ [][Next]_vars

----------------------------------------------------------------------------
(* Nothing reaches a provider unapproved: every action that ran was let    *)
(* through by a request for exactly its agent, action and task, which some *)
(* human had approved, and which was at most 24 hours old at the gate.     *)
ExecutedWereApproved ==
  \A e \in executed :
    /\ request[e.request].key = e.key
    /\ \E dec \in decisions : dec.request = e.request /\ dec.verdict = "approved"
    /\ e.gated - request[e.request].created <= Window

(* Authority follows the task the call was made for: a request decided by  *)
(* somebody who is not an admin belongs to a task, and the decider has     *)
(* been the owner or a team member of that task's project.                 *)
ScopedAuthority ==
  \A r \in Requests :
    request[r].decidedBy \notin Admins \cup {Nobody} =>
      /\ request[r].key.task # NoTask
      /\ <<request[r].decidedBy, ProjectOf[request[r].key.task]>> \in joined

VerdictsStay ==
  \A r \in Requests :
    request[r].status \in Verdicts => request'[r].status = request[r].status

(* What docs/okf/approvals-lifecycle.md says: a decided request cannot be  *)
(* re-decided.  Two decisions that both read the row while it was pending  *)
(* both write.                                                             *)
DecisionsAreFinal == [][VerdictsStay]_vars

=============================================================================
