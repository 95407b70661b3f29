------------------------------ MODULE AgentStatus ------------------------------
(***************************************************************************)
(* The live status of agents, from the gateway's report to the dot in one  *)
(* browser's participant list.                                             *)
(*                                                                         *)
(* A report goes into Redis, where it lapses after its time to live, and,  *)
(* a query later, out to the rooms.  The browser keeps the last event of   *)
(* each agent and what the room reported when it was loaded.  Nothing      *)
(* redraws the list when a status lapses but one timer, set at the         *)
(* earliest expiry by the effect of each drawing.  The effect runs after   *)
(* the drawing and reads the clock anew: a status that lapses in between   *)
(* is on the screen and gets no timer.                                     *)
(*                                                                         *)
(* Sources: server/src/routes/{agentPresence,rooms}.ts,                    *)
(* server/src/services/agentPresence.ts, client/src/stores/socketStore.ts, *)
(* client/src/components/chat/UserList.tsx                                 *)
(***************************************************************************)
EXTENDS FiniteSets, Integers

CONSTANTS
  Agents,
  Reports,      \* reports in flight
  Ttl,          \* the longest time to live that a report may ask for
  MaxNow,       \* bound of the clock
  MaxReports    \* bound on the reports

(* What an instance assumes. *)
Configured == Agents # {} /\ Ttl \in Nat /\ MaxNow \in Nat /\ MaxReports \in Nat

VARIABLES
  now,
  store,      \* agent_presence:<agent>
  rep,        \* reports whose event is not out yet
  connected,  \* the browser's socket
  live,       \* socketStore.agentPresence
  fetched,    \* the room load in flight: what the server answered
  loaded,     \* presenceMeta of the participants
  shown,      \* what the list shows, as it was last drawn
  timer,      \* when the timer fires
  unarmed,    \* the effect of the last drawing has not run
  missed,     \* history: agents whose status lapsed between the drawing and its effect
  reported    \* history: reports so far

vars == <<now, store, rep, connected, live, fetched, loaded, shown, timer, unarmed, missed, reported>>
browser == <<live, loaded, shown, timer, unarmed, missed>>

Never == MaxNow + Ttl + 1
None == [status |-> "none", updatedAt |-> 0, expiresAt |-> 0]
Status == [status: {"none", "working", "offline"}, updatedAt: 0..MaxNow, expiresAt: 0..MaxNow + Ttl]
Idle == [agent |-> CHOOSE a \in Agents : TRUE, event |-> None]
NotLoading == [a \in Agents |-> [None EXCEPT !.status = "offline"]]
Details(s) == s.status # "none"

TypeOK ==
  /\ now \in 0..MaxNow /\ connected \in BOOLEAN /\ timer \in 0..Never
  /\ unarmed \in BOOLEAN /\ missed \subseteq Agents /\ reported \in 0..MaxReports
  /\ store \in [Agents -> Status] /\ live \in [Agents -> Status]
  /\ loaded \in [Agents -> Status] /\ fetched \in [Agents -> Status]
  /\ rep \in [Reports -> [agent: Agents, event: Status]]
  /\ shown \in [Agents -> [from: {"live", "loaded"}, what: Status]]

Init ==
  /\ now = 0 /\ connected = TRUE /\ timer = Never /\ unarmed = FALSE /\ missed = {} /\ reported = 0
  /\ store = [a \in Agents |-> None] /\ rep = [r \in Reports |-> Idle]
  /\ live = store /\ loaded = store /\ fetched = NotLoading
  /\ shown = [a \in Agents |-> [from |-> "loaded", what |-> None]]

----------------------------------------------------------------------------
(* resolvePresence *)
Applies(event, details, t) ==
  /\ Details(event)
  /\ IF Details(details) THEN event.updatedAt >= details.updatedAt
     ELSE event.status # "offline" /\ event.expiresAt > t

Resolved(event, details, t) ==
  IF Applies(event, details, t) THEN [from |-> "live", what |-> event]
  ELSE [from |-> "loaded", what |-> details]

(* The statuses whose display depends on the time. *)
Pending(events, details, t) ==
  {a \in Agents : /\ Details(events[a]) /\ events[a].status # "offline"
                  /\ ~Details(details[a]) /\ events[a].expiresAt > t}

(* When the effect of the last drawing, run now, has the timer fire. *)
Earliest ==
  LET due == {live[a].expiresAt : a \in Pending(live, loaded, now)} IN
  IF due = {} THEN Never ELSE CHOOSE t \in due : \A x \in due : t <= x

Lapsed(a) ==
  /\ shown[a].from = "live" /\ shown[a].what.status = "working"
  /\ shown[a].what.expiresAt <= now

(* One that is on the screen past its time, of an agent for which the room *)
(* had reported no details.                                                *)
Overdue(a) == Lapsed(a) /\ ~Details(loaded[a])

(* The list is rendered from events and details.  The effect of the        *)
(* drawing before runs first if it has not run; else the timer is left.    *)
Render(events, details, left) ==
  /\ live' = events /\ loaded' = details
  /\ shown' = [a \in Agents |-> Resolved(events[a], details[a], now)]
  /\ timer' = IF unarmed THEN Earliest ELSE left
  /\ missed' = {}

(* A drawing that the effect depends on: it will run. *)
Draw(events, details) == Render(events, details, timer) /\ unarmed' = TRUE

(* The effect: it clears the old timer, and skips what has lapsed by now.  *)
Arm ==
  /\ unarmed /\ unarmed' = FALSE
  /\ timer' = Earliest
  /\ missed' = {a \in Agents : Overdue(a)}
  /\ UNCHANGED <<now, store, rep, connected, fetched, live, loaded, shown, reported>>

(* Fault: a mutated form of the next definition. *)
FiresOnce ==
  /\ timer < Never /\ now >= timer
  /\ Render(live, loaded, Never) /\ unarmed' = FALSE
  /\ UNCHANGED <<now, store, rep, connected, fetched, reported>>

(* The timer is spent; the tick it counts makes the effect run again.      *)
TimerFires ==
  /\ timer < Never /\ now >= timer
  /\ Render(live, loaded, Never) /\ unarmed' = TRUE
  /\ UNCHANGED <<now, store, rep, connected, fetched, reported>>

(* Another state of the component changes (the form that invites): the     *)
(* list is drawn, and the effect does not depend on it.                    *)
Redraw ==
  /\ Render(live, loaded, timer) /\ unarmed' = FALSE
  /\ UNCHANGED <<now, store, rep, connected, fetched, reported>>

----------------------------------------------------------------------------
(* POST /api/agents/me/presence: the report asks for a time to live, and   *)
(* "offline" deletes the key.  When Redis is away the answer is a 503 and  *)
(* nothing changes.                                                        *)
Report(r, a, s, ttl) ==
  LET event == [status |-> s, updatedAt |-> now,
                expiresAt |-> IF s = "offline" THEN now ELSE now + ttl] IN
  /\ rep[r] = Idle /\ reported < MaxReports /\ reported' = reported + 1
  /\ store' = [store EXCEPT ![a] = IF s = "offline" THEN None ELSE event]
  /\ rep' = [rep EXCEPT ![r] = [agent |-> a, event |-> event]]
  /\ UNCHANGED <<now, connected, fetched, browser>>

(* The memberships are read, the event goes to the rooms. *)
Emit(r) ==
  /\ Details(rep[r].event)
  /\ rep' = [rep EXCEPT ![r] = Idle]
  /\ IF connected THEN Draw([live EXCEPT ![rep[r].agent] = rep[r].event], loaded)
     ELSE UNCHANGED browser
  /\ UNCHANGED <<now, store, connected, fetched, reported>>

EmitFails(r) ==
  /\ Details(rep[r].event)
  /\ rep' = [rep EXCEPT ![r] = Idle]
  /\ UNCHANGED <<now, store, connected, fetched, browser, reported>>

(* GET /api/rooms/:id: what Redis still has. *)
Load ==
  /\ fetched = NotLoading
  /\ fetched' = [a \in Agents |-> IF store[a].expiresAt > now THEN store[a] ELSE None]
  /\ UNCHANGED <<now, store, rep, connected, browser, reported>>

LoadArrives ==
  /\ fetched # NotLoading
  /\ fetched' = NotLoading
  /\ Draw(live, fetched)
  /\ UNCHANGED <<now, store, rep, connected, reported>>

LoadFails ==
  /\ fetched # NotLoading /\ fetched' = NotLoading
  /\ UNCHANGED <<now, store, rep, connected, browser, reported>>

Disconnect ==
  /\ connected /\ connected' = FALSE
  /\ Draw([a \in Agents |-> None], loaded)
  /\ UNCHANGED <<now, store, rep, fetched, reported>>

Connect ==
  /\ ~connected /\ connected' = TRUE
  /\ UNCHANGED <<now, store, rep, fetched, browser, reported>>

Tick ==
  /\ now < MaxNow /\ now' = now + 1
  /\ UNCHANGED <<store, rep, connected, fetched, browser, reported>>

(* The server stops and starts; Redis keeps what it has. *)
Restart ==
  /\ \E r \in Reports : rep[r] # Idle
  /\ rep' = [r \in Reports |-> Idle] /\ connected' = FALSE
  /\ Draw([a \in Agents |-> None], loaded)
  /\ UNCHANGED <<now, store, fetched, reported>>

Next ==
  \/ \E r \in Reports :
       \/ Emit(r) \/ EmitFails(r)
       \/ \E a \in Agents, s \in {"working", "offline"}, ttl \in 1..Ttl : Report(r, a, s, ttl)
  \/ Load \/ LoadArrives \/ LoadFails \/ Disconnect \/ Connect
  \/ TimerFires \/ Arm \/ Redraw \/ Tick \/ Restart

Spec == Init /\ [][Next]_vars

(* The browser runs its timers, and the effects of what it has drawn. *)
Fairness == WF_vars(TimerFires) /\ WF_vars(Arm)
FairSpec == Spec /\ Fairness

----------------------------------------------------------------------------
(* Properties *)

(* An overdue status leaves the screen although nothing arrives, also when *)
(* it was not the first of the list to lapse (UserList: "without it a      *)
(* status whose writer died stays on screen until some other event         *)
(* arrives"), unless it lapsed between a drawing and its effect.           *)
LapsedStatusGoes == \A a \in Agents : Overdue(a) ~> ~Overdue(a) \/ a \in missed

(* What this rests on: once the effect has run, the timer is due by the    *)
(* time the first status lapses, whatever events, loads, disconnections    *)
(* and firings redrew the list since; and a firing takes every lapsed      *)
(* status off the screen, a missed one too, and has the effect run again.  *)
TimerIsInTime ==
  \A a \in Agents : Overdue(a) /\ ~unarmed /\ a \notin missed => timer < Never /\ timer <= now
FiringClears == [][TimerFires => unarmed' /\ \A a \in Agents : ~Overdue(a)']_vars

(* What the effect relies on when it sets no timer: "an expiry already     *)
(* past has fallen back already".                                          *)
PastHasFallenBack == [][Arm => \A a \in Agents : ~Overdue(a)]_vars

(* Any live status leaves the screen after its time, as the server says of *)
(* its clients: "Clients drop a live event past this instant, so a status  *)
(* whose writer died cannot outlive its TTL on screen either".             *)
LiveStatusesLapse == \A a \in Agents : Lapsed(a) ~> ~Lapsed(a)
================================================================================
