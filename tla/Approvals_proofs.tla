---------------------------- MODULE Approvals_proofs ----------------------------
(***************************************************************************)
(* Proofs about Approvals, for any agents, actions, tasks, humans and any  *)
(* number of requests, proxy calls and decisions in flight: types, nothing *)
(* runs unapproved, and who decides has the authority.                     *)
(*                                                                         *)
(* Neither safety property is inductive.  A call that passed the gate runs *)
(* later (CallsWereLetThrough), an approval is written after it was        *)
(* authorised (DecidersHaveAuthority), and both rest on rows that keep     *)
(* their key, their project and their time from creation on (RowsInOrder). *)
(***************************************************************************)
EXTENDS Approvals, TLAPS

Exists(r) == request[r].status # "absent"

ProjectFor(key) == IF key.task = NoTask THEN NoProject ELSE ProjectOf[key.task]

(* Row r is for the project of its task, and nobody decided what is not    *)
(* there.                                                                  *)
RowsInOrder ==
  \A r \in Requests :
    /\ Exists(r) => request[r].project = ProjectFor(request[r].key)
    /\ ~Exists(r) => request[r].decidedBy = Nobody

Approved(r, decisions1) ==
  \E dec \in decisions1 : dec.request = r /\ dec.verdict = "approved"

ApprovalsWereGiven ==
  \A r \in Requests : request[r].status = "approved" => Approved(r, decisions)

(* The request that let call or execution e through does cover it. *)
Through(e, request1, decisions1) ==
  /\ request1[e.request].status # "absent"
  /\ request1[e.request].key = e.key
  /\ Approved(e.request, decisions1)
  /\ e.gated - request1[e.request].created <= Window

CallsWereLetThrough ==
  \A c \in Calls : call[c].pc = "run" => Through(call[c], request, decisions)
ExecutedWereLetThrough == \A e \in executed : Through(e, request, decisions)

(* h may decide row r, or might have at some time. *)
Authority(h, r, request1, joined1) ==
  \/ h \in Admins
  \/ /\ request1[r].key.task # NoTask
     /\ <<h, ProjectOf[request1[r].key.task]>> \in joined1

DecidersHaveAuthority ==
  \A d \in Deciders :
    /\ decide[d].pc # "idle" => Exists(decide[d].request)
    /\ decide[d].pc = "write" => Authority(decide[d].by, decide[d].request, request, joined)

DecisionsHadAuthority ==
  \A r \in Requests :
    request[r].decidedBy # Nobody => Authority(request[r].decidedBy, r, request, joined)

IInv ==
  /\ TypeOK /\ RowsInOrder /\ ApprovalsWereGiven
  /\ CallsWereLetThrough /\ ExecutedWereLetThrough
  /\ DecidersHaveAuthority /\ DecisionsHadAuthority

----------------------------------------------------------------------------
LEMMA CallFields ==
  ASSUME NEW s \in CallState
  PROVE  /\ s.pc \in {"idle", "gate", "create", "run"}
         /\ s.pc # "idle" => s.key \in Key
         /\ s.pc = "run" => s.request \in Requests /\ s.gated \in Time
BY DEF CallState

LEMMA DecideFields ==
  ASSUME NEW s \in DecideState
  PROVE  /\ s.pc \in {"idle", "check", "write"}
         /\ s.pc # "idle" => /\ s.by \in Humans /\ s.request \in Requests
                             /\ s.verdict \in Verdicts /\ s.seen \in Statuses
BY DEF DecideState

LEMMA IdleTyped == Idle \in CallState /\ Idle \in DecideState /\ Idle.pc = "idle"
BY DEF Idle, CallState, DecideState

LEMMA InitIInv ==
  ASSUME Configured, Init
  PROVE  IInv
<1>1. \E k \in Key : TRUE
  <2>1. PICK a \in Agents, x \in Actions : TRUE
    BY DEF Configured
  <2>2. [agent |-> a, action |-> x, task |-> NoTask] \in Key
    BY DEF Key, TaskOrNone
  <2> QED BY <2>2
<1>2. (CHOOSE k \in Key : TRUE) \in Key
  BY <1>1
<1>3. 0 \in Time
  BY DEF Configured, Time
<1>4. NoRow \in Row
  BY <1>2, <1>3 DEF NoRow, Row, Statuses
<1>5. TypeOK
  BY <1>3, <1>4, IdleTyped DEF Init, TypeOK
<1>6. RowsInOrder /\ ApprovalsWereGiven /\ DecisionsHadAuthority
  BY DEF Init, RowsInOrder, ApprovalsWereGiven, DecisionsHadAuthority, Exists, NoRow
<1>7. CallsWereLetThrough /\ ExecutedWereLetThrough /\ DecidersHaveAuthority
  BY IdleTyped DEF Init, CallsWereLetThrough, ExecutedWereLetThrough, DecidersHaveAuthority
<1> QED BY <1>5, <1>6, <1>7 DEF IInv

(* No step takes a row, a decision or a membership that was back. *)
Remembers ==
  /\ \A r \in Requests : Exists(r) =>
       /\ request'[r].status # "absent"
       /\ request'[r].key = request[r].key
       /\ request'[r].project = request[r].project
       /\ request'[r].created = request[r].created
  /\ decisions \subseteq decisions'
  /\ joined \subseteq joined'

LEMMA RememberedThrough ==
  ASSUME Remembers, NEW e, e.request \in Requests, Through(e, request, decisions)
  PROVE  Through(e, request', decisions')
BY DEF Remembers, Through, Approved, Exists

LEMMA RememberedAuthority ==
  ASSUME Remembers, NEW h, NEW r \in Requests, Exists(r), Authority(h, r, request, joined)
  PROVE  Authority(h, r, request', joined')
BY DEF Remembers, Authority

(* The parts of the invariant that speak of what is in flight or has run,  *)
(* for a step that leaves that alone.                                      *)
LEMMA RememberedRest ==
  ASSUME IInv, Remembers
  PROVE  /\ call' = call => CallsWereLetThrough'
         /\ executed' = executed => ExecutedWereLetThrough'
         /\ decide' = decide => DecidersHaveAuthority'
<1>1. ASSUME call' = call, NEW c \in Calls, call[c].pc = "run"
      PROVE  Through(call'[c], request', decisions')
  <2>1. call[c] \in CallState /\ Through(call[c], request, decisions)
    BY <1>1 DEF IInv, TypeOK, CallsWereLetThrough
  <2>2. call[c].request \in Requests
    BY <1>1, <2>1, CallFields
  <2> QED BY <1>1, <2>1, <2>2, RememberedThrough
<1>2. ASSUME executed' = executed, NEW e \in executed
      PROVE  Through(e, request', decisions')
  <2>1. e.request \in Requests /\ Through(e, request, decisions)
    BY <1>2 DEF IInv, TypeOK, ExecutedWereLetThrough
  <2> QED BY <2>1, RememberedThrough
<1>3. ASSUME decide' = decide, NEW d \in Deciders, decide[d].pc # "idle"
      PROVE  /\ request'[decide[d].request].status # "absent"
             /\ decide[d].pc = "write" =>
                  Authority(decide[d].by, decide[d].request, request', joined')
  <2>1. decide[d] \in DecideState /\ Exists(decide[d].request)
    BY <1>3 DEF IInv, TypeOK, DecidersHaveAuthority
  <2>2. decide[d].request \in Requests
    BY <1>3, <2>1, DecideFields
  <2>3. decide[d].pc = "write" => Authority(decide[d].by, decide[d].request, request, joined)
    BY DEF IInv, DecidersHaveAuthority
  <2>4. request'[decide[d].request].status # "absent"
    BY <2>1, <2>2 DEF Remembers
  <2>5. ASSUME decide[d].pc = "write"
        PROVE  Authority(decide[d].by, decide[d].request, request', joined')
    BY <2>1, <2>2, <2>3, <2>5, RememberedAuthority
  <2> QED BY <2>4, <2>5
<1>4. call' = call => CallsWereLetThrough'
  BY <1>1 DEF CallsWereLetThrough
<1>5. executed' = executed => ExecutedWereLetThrough'
  BY <1>2 DEF ExecutedWereLetThrough
<1>6. decide' = decide => DecidersHaveAuthority'
  BY <1>3 DEF DecidersHaveAuthority, Exists
<1> QED BY <1>4, <1>5, <1>6

(* A step that writes no row. *)
LEMMA RowsUnchanged ==
  ASSUME IInv, request' = request, decisions' = decisions, joined \subseteq joined'
  PROVE  /\ Remembers /\ RowsInOrder' /\ ApprovalsWereGiven' /\ DecisionsHadAuthority'
<1>1. Remembers
  BY DEF Remembers, Exists
<1>2. RowsInOrder' /\ ApprovalsWereGiven'
  BY DEF IInv, RowsInOrder, ApprovalsWereGiven, Exists
<1>3. ASSUME NEW r \in Requests, request[r].decidedBy # Nobody
      PROVE  Authority(request[r].decidedBy, r, request', joined')
  BY <1>3 DEF IInv, DecisionsHadAuthority, Authority
<1>4. DecisionsHadAuthority'
  BY <1>3 DEF DecisionsHadAuthority
<1> QED BY <1>1, <1>2, <1>4

----------------------------------------------------------------------------
(* A proxy call moves and touches nothing else, but for what it executes. *)
LEMMA CallStep ==
  ASSUME IInv, NEW c \in Calls, NEW new \in CallState, call' = [call EXCEPT ![c] = new],
         new.pc = "run" => Through(new, request, decisions),
         executed' \subseteq [key: Key, request: Requests, gated: Time],
         \A e \in executed' : Through(e, request, decisions),
         UNCHANGED <<request, team, joined, live, decide, decisions, now>>
  PROVE  IInv'
<1>1. call' \in [Calls -> CallState]
  BY DEF IInv, TypeOK
<1>2. \A b \in Calls : call'[b] = IF b = c THEN new ELSE call[b]
  BY DEF IInv, TypeOK
<1>3. CallsWereLetThrough'
  BY <1>2 DEF IInv, CallsWereLetThrough
<1>4. ExecutedWereLetThrough'
  BY DEF ExecutedWereLetThrough
<1>5. TypeOK'
  BY <1>1 DEF IInv, TypeOK
<1> QED BY <1>3, <1>4, <1>5, RowsUnchanged, RememberedRest DEF IInv

LEMMA CallKeepsIInv ==
  ASSUME Configured, IInv, NEW c \in Calls,
         \/ \E k \in Key : CallAuthorized(c, k)
         \/ GateFindsApproval(c)
         \/ GateFindsNone(c)
         \/ RunAction(c)
         \/ CallFails(c)
  PROVE  IInv'
<1>1. call[c] \in CallState /\ call \in [Calls -> CallState]
  BY DEF IInv, TypeOK
<1>2. /\ executed \subseteq [key: Key, request: Requests, gated: Time]
      /\ \A e \in executed : Through(e, request, decisions)
  BY DEF IInv, TypeOK, ExecutedWereLetThrough
<1>3. ASSUME NEW k \in Key, CallAuthorized(c, k) PROVE IInv'
  <2> DEFINE new == [pc |-> "gate", key |-> k]
  <2>1. new \in CallState /\ new.pc # "run"
    BY DEF CallState
  <2>2. call' = [call EXCEPT ![c] = new]
    BY <1>3 DEF CallAuthorized
  <2> HIDE DEF new
  <2> QED BY <1>2, <1>3, <2>1, <2>2, CallStep DEF CallAuthorized
<1>4. CASE GateFindsApproval(c)
  <2> DEFINE key == call[c].key
  <2>1. call[c].pc = "gate" /\ key \in Key
    BY <1>1, <1>4, CallFields DEF GateFindsApproval
  <2>2. PICK r \in Latest(MatchingRequests(key)) :
          call' = [call EXCEPT ![c] =
            [pc |-> "run", key |-> key, request |-> r, gated |-> now]]
    BY <1>4 DEF GateFindsApproval
  <2>3. r \in Requests /\ Matches(request[r], key, now - Window)
    BY <2>2 DEF Latest, MatchingRequests
  <2> DEFINE new == [pc |-> "run", key |-> key, request |-> r, gated |-> now]
  <2>4. new \in CallState
    BY <2>1, <2>3 DEF CallState, IInv, TypeOK
  <2>5. request[r] \in Row /\ now \in Time
    BY <2>3 DEF IInv, TypeOK
  <2>6. request[r].created \in Int /\ now \in Int /\ Window \in Int
    BY <2>5 DEF Row, Time, Configured
  <2>7. now - request[r].created <= Window
    BY <2>3, <2>6 DEF Matches
  <2>8. Approved(r, decisions)
    BY <2>3 DEF Matches, IInv, ApprovalsWereGiven
  <2>9. Through(new, request, decisions)
    BY <2>3, <2>7, <2>8 DEF Through, Matches
  <2>10. call' = [call EXCEPT ![c] = new]
    BY <2>2
  <2> HIDE DEF new
  <2> QED BY <1>2, <1>4, <2>4, <2>9, <2>10, CallStep DEF GateFindsApproval
<1>5. CASE GateFindsNone(c)
  <2> DEFINE new == [call[c] EXCEPT !.pc = "create"]
  <2>1. new \in CallState /\ new.pc # "run"
    BY <1>1, <1>5 DEF GateFindsNone, CallState
  <2>2. call' = [call EXCEPT ![c] = new]
    BY <1>5 DEF GateFindsNone
  <2> HIDE DEF new
  <2> QED BY <1>2, <1>5, <2>1, <2>2, CallStep DEF GateFindsNone
<1>6. CASE RunAction(c)
  <2> DEFINE e == [key |-> call[c].key, request |-> call[c].request, gated |-> call[c].gated]
  <2>1. call[c].pc = "run" /\ Through(call[c], request, decisions)
    BY <1>6 DEF RunAction, IInv, CallsWereLetThrough
  <2>2. e \in [key: Key, request: Requests, gated: Time]
    BY <1>1, <2>1, CallFields
  <2>3. Through(e, request, decisions)
    BY <2>1 DEF Through
  <2>4. executed' = executed \cup {e} /\ call' = [call EXCEPT ![c] = Idle]
    BY <1>6 DEF RunAction
  <2> HIDE DEF e
  <2> QED BY <1>2, <1>6, <2>2, <2>3, <2>4, IdleTyped, CallStep DEF RunAction
<1>7. CASE CallFails(c)
  BY <1>2, <1>7, IdleTyped, CallStep DEF CallFails
<1> QED BY <1>3, <1>4, <1>5, <1>6, <1>7

(* A new request takes a row nobody refers to. *)
LEMMA CreateKeepsIInv ==
  ASSUME IInv, NEW c \in Calls, CreateRequest(c)
  PROVE  IInv'
<1>1. call[c] \in CallState /\ call[c].pc = "create"
  BY DEF IInv, TypeOK, CreateRequest
<1>2. call[c].key \in Key
  BY <1>1, CallFields
<1>3. PICK r \in Requests :
        request[r].status = "absent" /\ request' = [request EXCEPT ![r] = NewRequest(call[c].key)]
  BY DEF CreateRequest
<1> DEFINE new == NewRequest(call[c].key)
<1>4. new.project \in Projects \cup {NoProject}
  BY <1>2 DEF NewRequest, Projects, Key, TaskOrNone
<1>5. new \in Row
  BY <1>2, <1>4 DEF NewRequest, Row, Statuses, IInv, TypeOK
<1>6. request \in [Requests -> Row]
  BY DEF IInv, TypeOK
<1>7. /\ request' \in [Requests -> Row]
      /\ \A s \in Requests : request'[s] = IF s = r THEN new ELSE request[s]
  BY <1>3, <1>5, <1>6
<1>8. /\ new.status = "pending" /\ new.project = ProjectFor(new.key) /\ new.decidedBy = Nobody
  BY DEF NewRequest, ProjectFor
<1> HIDE DEF new
<1>9. Remembers
  BY <1>3, <1>7 DEF CreateRequest, Remembers, Exists
<1>10. RowsInOrder'
  BY <1>7, <1>8 DEF IInv, RowsInOrder, Exists
<1>11. ApprovalsWereGiven'
  BY <1>7, <1>8 DEF IInv, ApprovalsWereGiven, CreateRequest
<1>12. DecisionsHadAuthority'
  BY <1>7, <1>8 DEF IInv, DecisionsHadAuthority, Authority, CreateRequest
<1>13. TypeOK'
  BY <1>7, IdleTyped DEF IInv, TypeOK, CreateRequest
<1>14. CallsWereLetThrough'
  <2>1. ASSUME NEW b \in Calls, call'[b].pc = "run"
        PROVE  Through(call'[b], request', decisions')
    <3>1. call'[b] = call[b]
      BY <2>1, IdleTyped DEF CreateRequest, IInv, TypeOK
    <3>2. call[b].request \in Requests
      BY <2>1, <3>1, CallFields DEF IInv, TypeOK
    <3>3. Through(call[b], request, decisions)
      BY <2>1, <3>1 DEF IInv, CallsWereLetThrough
    <3> QED BY <1>9, <3>1, <3>2, <3>3, RememberedThrough
  <2> QED BY <2>1 DEF CallsWereLetThrough
<1> QED BY <1>9, <1>10, <1>11, <1>12, <1>13, <1>14, RememberedRest DEF IInv, CreateRequest

----------------------------------------------------------------------------
(* A decision moves and writes nothing yet. *)
LEMMA DecideStep ==
  ASSUME IInv, NEW d \in Deciders, NEW new \in DecideState,
         decide' = [decide EXCEPT ![d] = new],
         new.pc # "idle" => Exists(new.request),
         new.pc = "write" => Authority(new.by, new.request, request, joined),
         UNCHANGED <<request, team, joined, live, call, decisions, executed, now>>
  PROVE  IInv'
<1>1. /\ decide' \in [Deciders -> DecideState]
      /\ \A b \in Deciders : decide'[b] = IF b = d THEN new ELSE decide[b]
  BY DEF IInv, TypeOK
<1>2. ASSUME NEW b \in Deciders, decide'[b].pc # "idle"
      PROVE  /\ Exists(decide'[b].request)
             /\ decide'[b].pc = "write" =>
                  Authority(decide'[b].by, decide'[b].request, request, joined)
  <2>1. CASE b = d
    BY <1>1, <1>2, <2>1
  <2>2. CASE b # d
    <3>1. decide'[b] = decide[b]
      BY <1>1, <2>2
    <3> QED BY <1>2, <3>1 DEF IInv, DecidersHaveAuthority
  <2> QED BY <2>1, <2>2
<1>3. DecidersHaveAuthority'
  BY <1>2 DEF DecidersHaveAuthority, Exists
<1>4. TypeOK'
  BY <1>1 DEF IInv, TypeOK
<1> QED BY <1>3, <1>4, RowsUnchanged, RememberedRest DEF IInv

(* Who passes the entitlement check has the authority: the project the     *)
(* check looks at is the one of the row's task.                            *)
LEMMA PassingIsAuthority ==
  ASSUME IInv, NEW h, NEW r \in Requests, Exists(r), CanDecide(h, request[r].project)
  PROVE  Authority(h, r, request, joined)
<1>1. request[r].project = ProjectFor(request[r].key) /\ team \subseteq joined
  BY DEF IInv, TypeOK, RowsInOrder
<1> QED BY <1>1 DEF CanDecide, Authority, ProjectFor

LEMMA DecideKeepsIInv ==
  ASSUME IInv, NEW d \in Deciders,
         \/ \E h \in Humans, r \in Requests, v \in BodyStatuses : DecideRead(d, h, r, v)
         \/ DecidePasses(d)
         \/ DecideRefused(d)
         \/ DecideFails(d)
  PROVE  IInv'
<1>1. decide[d] \in DecideState
  BY DEF IInv, TypeOK
<1>2. ASSUME NEW h \in Humans, NEW r \in Requests, NEW v \in BodyStatuses, DecideRead(d, h, r, v)
      PROVE  IInv'
  <2> DEFINE new == [pc |-> "check", by |-> h, request |-> r, verdict |-> v,
                     seen |-> request[r].status]
  <2>1. request[r].status \in Statuses /\ v \in Verdicts /\ Exists(r)
    BY <1>2 DEF DecideRead, ValidVerdict, Exists, IInv, TypeOK, Row
  <2>2. new \in DecideState /\ new.pc = "check" /\ new.request = r
    BY <2>1 DEF DecideState
  <2>3. decide' = [decide EXCEPT ![d] = new]
    BY <1>2 DEF DecideRead
  <2> HIDE DEF new
  <2> QED BY <1>2, <2>1, <2>2, <2>3, DecideStep DEF DecideRead
<1>3. CASE DecidePasses(d)
  <2> DEFINE new == [decide[d] EXCEPT !.pc = "write"]
  <2>1. decide[d].pc = "check"
    BY <1>3 DEF DecidePasses
  <2>2. decide[d].request \in Requests /\ Exists(decide[d].request)
    BY <1>1, <2>1, DecideFields DEF IInv, DecidersHaveAuthority
  <2>3. Authority(decide[d].by, decide[d].request, request, joined)
    BY <1>3, <2>2, PassingIsAuthority DEF DecidePasses
  <2>4. /\ new \in DecideState /\ new.pc = "write"
        /\ new.request = decide[d].request /\ new.by = decide[d].by
    BY <1>1, <2>1 DEF DecideState
  <2>5. decide' = [decide EXCEPT ![d] = new]
    BY <1>3 DEF DecidePasses
  <2> HIDE DEF new
  <2> QED BY <1>3, <2>2, <2>3, <2>4, <2>5, DecideStep DEF DecidePasses
<1>4. CASE DecideRefused(d) \/ DecideFails(d)
  BY <1>4, IdleTyped, DecideStep DEF DecideRefused, DecideFails
<1> QED BY <1>2, <1>3, <1>4

(* The write of a decision: by its id, whatever the row says by now. *)
LEMMA DecideWriteKeepsIInv ==
  ASSUME IInv, NEW d \in Deciders, DecideWrite(d)
  PROVE  IInv'
<1> DEFINE r == decide[d].request
           h == decide[d].by
           new == [request[r] EXCEPT !.status = decide[d].verdict, !.decidedBy = h]
           dec == [request |-> r, by |-> h, verdict |-> decide[d].verdict]
<1>1. decide[d] \in DecideState /\ decide[d].pc = "write"
  BY DEF IInv, TypeOK, DecideWrite
<1>2. r \in Requests /\ h \in Humans /\ decide[d].verdict \in Verdicts
  BY <1>1, DecideFields
<1>3. Exists(r) /\ Authority(h, r, request, joined)
  BY <1>1 DEF IInv, DecidersHaveAuthority
<1>4. request \in [Requests -> Row] /\ request[r] \in Row
  BY <1>2 DEF IInv, TypeOK
<1>5. /\ new \in Row /\ new.status = decide[d].verdict /\ new.decidedBy = h
      /\ new.key = request[r].key /\ new.project = request[r].project
      /\ new.created = request[r].created
  BY <1>2, <1>4 DEF Row, Statuses, Verdicts
<1>6. dec \in [request: Requests, by: Humans, verdict: Verdicts]
      /\ dec.request = r /\ dec.verdict = decide[d].verdict
  BY <1>2
<1>7. /\ request' = [request EXCEPT ![r] = new]
      /\ decisions' = decisions \cup {dec}
      /\ decide' = [decide EXCEPT ![d] = Idle]
      /\ UNCHANGED <<team, joined, live, call, executed, now>>
  BY <1>4 DEF DecideWrite, Row
<1> HIDE DEF new, dec
<1>8. /\ request' \in [Requests -> Row]
      /\ \A s \in Requests : request'[s] = IF s = r THEN new ELSE request[s]
  BY <1>4, <1>5, <1>7
<1>9. new.status # "absent"
  BY <1>2, <1>5 DEF Verdicts
<1>10. Remembers
  BY <1>5, <1>7, <1>8, <1>9 DEF Remembers, Exists
<1>11. RowsInOrder'
  BY <1>3, <1>5, <1>8, <1>9 DEF IInv, RowsInOrder, Exists
<1>12. ApprovalsWereGiven'
  BY <1>5, <1>6, <1>7, <1>8 DEF IInv, ApprovalsWereGiven, Approved
<1>13. DecisionsHadAuthority'
  <2>1. ASSUME NEW s \in Requests, request'[s].decidedBy # Nobody
        PROVE  Authority(request'[s].decidedBy, s, request', joined')
    <3>1. CASE s = r
      BY <1>2, <1>3, <1>5, <1>8, <1>10, <3>1, RememberedAuthority
    <3>2. CASE s # r
      <4>1. request'[s] = request[s]
        BY <1>8, <3>2
      <4>2. Authority(request[s].decidedBy, s, request, joined) /\ Exists(s)
        BY <2>1, <4>1 DEF IInv, DecisionsHadAuthority, RowsInOrder
      <4> QED BY <1>10, <4>1, <4>2, RememberedAuthority
    <3> QED BY <3>1, <3>2
  <2> QED BY <2>1 DEF DecisionsHadAuthority
<1>14. decide' \in [Deciders -> DecideState]
       /\ \A b \in Deciders : decide'[b] = IF b = d THEN Idle ELSE decide[b]
  BY <1>7, IdleTyped DEF IInv, TypeOK
<1>15. DecidersHaveAuthority'
  <2>1. ASSUME NEW b \in Deciders, decide'[b].pc # "idle"
        PROVE  /\ request'[decide'[b].request].status # "absent"
               /\ decide'[b].pc = "write" =>
                    Authority(decide'[b].by, decide'[b].request, request', joined')
    <3>1. decide'[b] = decide[b]
      BY <1>14, <2>1, IdleTyped
    <3>2. decide[b].request \in Requests /\ Exists(decide[b].request)
      BY <2>1, <3>1, DecideFields DEF IInv, TypeOK, DecidersHaveAuthority
    <3>3. request'[decide[b].request].status # "absent"
      BY <1>10, <3>2 DEF Remembers
    <3>4. ASSUME decide[b].pc = "write"
          PROVE  Authority(decide[b].by, decide[b].request, request', joined')
      <4>1. Authority(decide[b].by, decide[b].request, request, joined)
        BY <3>4 DEF IInv, DecidersHaveAuthority
      <4> QED BY <1>10, <3>2, <4>1, RememberedAuthority
    <3> QED BY <3>1, <3>3, <3>4
  <2> QED BY <2>1 DEF DecidersHaveAuthority, Exists
<1>16. TypeOK'
  BY <1>6, <1>7, <1>8, <1>14 DEF IInv, TypeOK
<1> QED BY <1>7, <1>10, <1>11, <1>12, <1>13, <1>15, <1>16, RememberedRest DEF IInv

(* A deletion takes a decider's name off the rows and leaves the verdicts. *)
LEMMA AccountDeletedKeepsIInv ==
  ASSUME IInv, NEW h \in Humans, AccountDeleted(h)
  PROVE  IInv'
<1>1. request \in [Requests -> Row]
  BY DEF IInv, TypeOK
<1>2. \A r \in Requests :
        /\ request'[r] \in Row
        /\ request'[r].status = request[r].status /\ request'[r].key = request[r].key
        /\ request'[r].project = request[r].project
        /\ request'[r].created = request[r].created
        /\ request'[r].decidedBy \in {request[r].decidedBy, Nobody}
  BY <1>1 DEF AccountDeleted, Row
<1>3. UNCHANGED <<joined, call, decide, decisions, executed, now>>
  BY DEF AccountDeleted
<1>4. Remembers
  BY <1>2, <1>3 DEF Remembers, Exists
<1>5. RowsInOrder' /\ ApprovalsWereGiven'
  BY <1>2, <1>3 DEF IInv, RowsInOrder, ApprovalsWereGiven, Exists
<1>6. ASSUME NEW r \in Requests, request'[r].decidedBy # Nobody
      PROVE  Authority(request'[r].decidedBy, r, request', joined')
  <2>1. request'[r].decidedBy = request[r].decidedBy
    BY <1>2, <1>6
  <2>2. Authority(request[r].decidedBy, r, request, joined) /\ Exists(r)
    BY <1>6, <2>1 DEF IInv, DecisionsHadAuthority, RowsInOrder
  <2> QED BY <1>4, <2>1, <2>2, RememberedAuthority
<1>7. DecisionsHadAuthority'
  BY <1>6 DEF DecisionsHadAuthority
<1>8. request' \in [Requests -> Row]
  BY <1>2 DEF AccountDeleted
<1>9. TypeOK'
  BY <1>8 DEF IInv, TypeOK, AccountDeleted
<1> QED BY <1>3, <1>4, <1>5, <1>7, <1>9, RememberedRest DEF IInv

LEMMA SurroundingsKeepIInv ==
  ASSUME Configured, IInv,
         Tick \/ \E h \in Humans, p \in Projects : JoinTeam(h, p) \/ MembershipLost(h, p)
  PROVE  IInv'
<1>1. UNCHANGED <<request, call, decide, decisions, executed>> /\ joined \subseteq joined'
  BY DEF Tick, JoinTeam, MembershipLost
<1>2. TypeOK'
  <2>1. CASE Tick
    BY <2>1 DEF Tick, IInv, TypeOK, Time, Configured
  <2>2. ASSUME NEW h \in Humans, NEW p \in Projects, JoinTeam(h, p) \/ MembershipLost(h, p)
        PROVE  TypeOK'
    BY <2>2 DEF JoinTeam, MembershipLost, IInv, TypeOK
  <2> QED BY <2>1, <2>2
<1> QED BY <1>1, <1>2, RowsUnchanged, RememberedRest DEF IInv

----------------------------------------------------------------------------
LEMMA NextKeepsIInv ==
  ASSUME Configured
  PROVE  IInv /\ [Next]_vars => IInv'
<1> SUFFICES ASSUME IInv, [Next]_vars PROVE IInv'
  OBVIOUS
<1>1. ASSUME NEW c \in Calls,
             \/ \E k \in Key : CallAuthorized(c, k)
             \/ GateFindsApproval(c)
             \/ GateFindsNone(c)
             \/ CreateRequest(c)
             \/ RunAction(c)
             \/ CallFails(c)
      PROVE  IInv'
  BY <1>1, CallKeepsIInv, CreateKeepsIInv
<1>2. ASSUME NEW d \in Deciders,
             \/ \E h \in Humans, r \in Requests, v \in BodyStatuses : DecideRead(d, h, r, v)
             \/ DecidePasses(d)
             \/ DecideRefused(d)
             \/ DecideWrite(d)
             \/ DecideFails(d)
      PROVE  IInv'
  BY <1>2, DecideKeepsIInv, DecideWriteKeepsIInv
<1>3. ASSUME NEW h \in Humans,
             AccountDeleted(h) \/ \E p \in Projects : JoinTeam(h, p) \/ MembershipLost(h, p)
      PROVE  IInv'
  BY <1>3, AccountDeletedKeepsIInv, SurroundingsKeepIInv
<1>4. CASE Tick
  BY <1>4, SurroundingsKeepIInv
<1>5. CASE UNCHANGED vars
  BY <1>5 DEF vars, IInv, TypeOK, RowsInOrder, ApprovalsWereGiven, CallsWereLetThrough,
              ExecutedWereLetThrough, DecidersHaveAuthority, DecisionsHadAuthority, Exists
<1> QED BY <1>1, <1>2, <1>3, <1>4, <1>5 DEF Next

THEOREM Invariance ==
  ASSUME Configured
  PROVE  Spec => []IInv
<1>1. Init => IInv
  BY InitIInv
<1>2. IInv /\ [Next]_vars => IInv'
  BY NextKeepsIInv
<1> QED BY <1>1, <1>2, PTL DEF Spec

(* Rows, calls and decisions in flight stay of their types, and a team     *)
(* member has joined.                                                      *)
THEOREM TypeCorrect ==
  ASSUME Configured
  PROVE  Spec => []TypeOK
<1>1. IInv => TypeOK
  BY DEF IInv
<1> QED BY <1>1, Invariance, PTL

(* Every action that was sent to a provider had been let through by an     *)
(* approved request for its very agent, action and task, at most the       *)
(* window old at the gate.                                                 *)
THEOREM ApprovalPrecedesExecution ==
  ASSUME Configured
  PROVE  Spec => []ExecutedWereApproved
<1>1. IInv => ExecutedWereApproved
  BY DEF IInv, ExecutedWereLetThrough, Through, Approved, ExecutedWereApproved
<1> QED BY <1>1, Invariance, PTL

(* A decision of somebody who is no admin is about a task of a project     *)
(* they were on the team of, though the update is by id alone.             *)
THEOREM AuthorityFollowsTheTask ==
  ASSUME Configured
  PROVE  Spec => []ScopedAuthority
<1>1. IInv => ScopedAuthority
  BY DEF IInv, DecisionsHadAuthority, Authority, ScopedAuthority
<1> QED BY <1>1, Invariance, PTL

=============================================================================
