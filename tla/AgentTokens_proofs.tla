--------------------------- MODULE AgentTokens_proofs ---------------------------
(***************************************************************************)
(* Theorems about AgentTokens for every set of agents, secrets and         *)
(* requests, every grace window and every bound on the clock.              *)
(*                                                                         *)
(* The argument: EveryStep reduces the next-state relation to the six      *)
(* things a step may do to a row; each part of Inductive is then kept by   *)
(* each of the six.                                                        *)
(***************************************************************************)
EXTENDS AgentTokens, TLAPS

(* The six effects on the row of agent a. *)
Issued(a, s) ==
  /\ s \in Secrets \ minted
  /\ row[a].status = "absent"
  /\ row'[a].status \in {"active", "pending"} /\ row'[a].isActive \in BOOLEAN
  /\ row'[a].token = s /\ row'[a].previous = NoSecret /\ row'[a].expiresAt = 0
  /\ minted' = minted \cup {s}
  /\ now' = now

Enabled(a) ==
  /\ Exists(a)
  /\ row'[a] = [row[a] EXCEPT !.isActive = TRUE, !.status = row'[a].status]
  /\ row'[a].status \in {row[a].status, "active"}
  /\ minted' = minted /\ now' = now

Cleared(a) ==
  /\ Exists(a)
  /\ row'[a].status \in {row[a].status, "rejected", "revoked"}
  /\ row'[a].isActive = FALSE
  /\ row'[a].token = row[a].token
  /\ row'[a].previous = NoSecret /\ row'[a].expiresAt = 0
  /\ minted' = minted /\ now' = now

Removed(a) ==
  /\ Exists(a)
  /\ row'[a] = [NoRow EXCEPT !.status = "gone"]
  /\ minted' = minted /\ now' = now

Swapped(a, s) ==
  /\ s \in Secrets \ minted
  /\ row[a].isActive /\ row[a].status = "active"
  /\ row'[a].isActive /\ row'[a].status = "active"
  /\ row'[a].token = s /\ row'[a].previous = row[a].token
  /\ row'[a].expiresAt \in Grace .. (now + Grace)
  /\ minted' = minted \cup {s}
  /\ now' = now

RowStep(a) ==
  /\ \A b \in Agents : b # a => row'[b] = row[b]
  /\ row'[a] \in Row
  /\ \/ \E s \in Secrets : Issued(a, s)
     \/ Enabled(a)
     \/ Cleared(a)
     \/ Removed(a)
     \/ \E s \in Secrets : Swapped(a, s)

NoRowStep == row' = row /\ minted' = minted /\ now' \in Time /\ now <= now'

----------------------------------------------------------------------------

(* A row that is switched on, or whose secrets are swapped, is still a row. *)
LEMMA RowShape ==
  ASSUME NEW r \in Row
  PROVE  /\ \A st \in Statuses, b \in BOOLEAN : [r EXCEPT !.status = st, !.isActive = b] \in Row
         /\ \A b \in BOOLEAN : [r EXCEPT !.isActive = b] \in Row
         /\ \A s \in Secrets, n \in 0..(MaxTime + Grace) :
              [r EXCEPT !.token = s, !.previous = r.token, !.expiresAt = n] \in Row
  BY DEF Row

(* What a step does to the secrets of its row. *)
LEMMA StepSecrets ==
  ASSUME NEW a \in Agents, row[a] \in Row, RowStep(a)
  PROVE  \/ \E s \in Secrets \ minted :
              row'[a].token = s /\ row'[a].previous \in {NoSecret, row[a].token}
         \/ row'[a].token = row[a].token /\ row'[a].previous \in {NoSecret, row[a].previous}
         \/ row'[a].token = NoSecret /\ row'[a].previous = NoSecret
<1>1. ASSUME NEW s \in Secrets, Issued(a, s) \/ Swapped(a, s)
      PROVE  /\ s \in Secrets \ minted /\ row'[a].token = s
             /\ row'[a].previous \in {NoSecret, row[a].token}
  BY <1>1 DEF Issued, Swapped
<1>2. Cleared(a) => row'[a].token = row[a].token /\ row'[a].previous = NoSecret
  BY DEF Cleared
<1>3. Enabled(a) => row'[a].token = row[a].token /\ row'[a].previous = row[a].previous
  BY DEF Enabled, Row
<1>4. Removed(a) => row'[a].token = NoSecret /\ row'[a].previous = NoSecret
  BY DEF Removed, NoRow
<1>5. QED BY <1>1, <1>2, <1>3, <1>4 DEF RowStep

LEMMA RequestShape ==
  ASSUME NEW r \in Request
  PROVE  /\ r.op = "lookup" => r \in LookupRequest
         /\ r.op = "rotate" => r \in RotateRequest
         /\ r.op = "delete" => r \in DeleteRequest
  BY DEF Request, IdleRequest, LookupRequest, RotateRequest, DeleteRequest

LEMMA FinishType ==
  ASSUME TypeOK, NEW q \in Requests, NEW v \in Verdicts, Finish(q, v)
  PROVE  req' \in [Requests -> Request]
<1>1. Answered(v) \in Request BY DEF Answered, Request, IdleRequest
<1>2. QED BY <1>1 DEF Finish, TypeOK

LEMMA DeleteStepType ==
  ASSUME TypeOK, NEW q \in Requests, req[q].op = "delete",
         NEW part \in DeleteParts, DeleteStepDone(q, part)
  PROVE  req' \in [Requests -> Request]
<1> DEFINE rest == req[q].todo \ {part}
<1>1. req[q] \in DeleteRequest
  BY RequestShape DEF TypeOK
<1>2. CASE rest = {}
  BY <1>2, FinishType DEF DeleteStepDone, Verdicts
<1>3. CASE rest # {}
  <2>1. [req[q] EXCEPT !.todo = rest] \in DeleteRequest
    BY <1>1 DEF DeleteRequest
  <2>2. req' = [req EXCEPT ![q] = [req[q] EXCEPT !.todo = rest]]
    BY <1>3 DEF DeleteStepDone, TypeOK
  <2>3. QED BY <2>1, <2>2 DEF Request, TypeOK
<1>4. QED BY <1>2, <1>3

LEMMA ClearedRow ==
  ASSUME NEW r \in Row
  PROVE  \A x \in {RejectedRow(r), SuspendedRow(r), RevokedRow(r)} :
           /\ x \in Row
           /\ x.status \in {r.status, "rejected", "revoked"}
           /\ x.isActive = FALSE /\ x.token = r.token
           /\ x.previous = NoSecret /\ x.expiresAt = 0
<1>1. 0 \in 0..(MaxTime + Grace)
  BY TimeAssumption, GraceAssumption
<1>2. ASSUME NEW s \in Statuses
      PROVE  LET x == WithoutPrevious([r EXCEPT !.status = s, !.isActive = FALSE])
             IN  /\ x \in Row
                 /\ x.status = s /\ x.isActive = FALSE /\ x.token = r.token
                 /\ x.previous = NoSecret /\ x.expiresAt = 0
  BY <1>1 DEF Row, WithoutPrevious
<1>3. r = [r EXCEPT !.status = r.status] /\ r.status \in Statuses
  BY DEF Row
<1>4. SuspendedRow(r) = WithoutPrevious([r EXCEPT !.status = r.status, !.isActive = FALSE])
  BY <1>3 DEF SuspendedRow, Row
<1>5. "rejected" \in Statuses /\ "revoked" \in Statuses
  BY DEF Statuses
<1>6. ASSUME NEW x \in {RejectedRow(r), SuspendedRow(r), RevokedRow(r)}
      PROVE  \E s \in Statuses :
               /\ s \in {r.status, "rejected", "revoked"}
               /\ x = WithoutPrevious([r EXCEPT !.status = s, !.isActive = FALSE])
  <2>1. CASE x = RejectedRow(r) BY <2>1, <1>5 DEF RejectedRow
  <2>2. CASE x = SuspendedRow(r) BY <2>2, <1>3, <1>4
  <2>3. CASE x = RevokedRow(r) BY <2>3, <1>5 DEF RevokedRow
  <2>4. QED BY <2>1, <2>2, <2>3
<1>7. ASSUME NEW x \in {RejectedRow(r), SuspendedRow(r), RevokedRow(r)}
      PROVE  /\ x \in Row
             /\ x.status \in {r.status, "rejected", "revoked"}
             /\ x.isActive = FALSE /\ x.token = r.token
             /\ x.previous = NoSecret /\ x.expiresAt = 0
  <2>1. PICK s \in Statuses :
          /\ s \in {r.status, "rejected", "revoked"}
          /\ x = WithoutPrevious([r EXCEPT !.status = s, !.isActive = FALSE])
    BY <1>6
  <2>2. QED BY <2>1, <1>2
<1>8. QED BY <1>7

LEMMA EmptyRow == NoRow \in Row /\ [NoRow EXCEPT !.status = "gone"] \in Row
<1>1. 0 \in 0..(MaxTime + Grace)
  BY TimeAssumption, GraceAssumption
<1>2. QED BY <1>1 DEF NoRow, Row, Statuses

(* Every step keeps the types and does one of the six things to one row.   *)
LEMMA EveryStep ==
  Inductive /\ [Next]_vars => TypeOK' /\ (NoRowStep \/ \E a \in Agents : RowStep(a))
<1> SUFFICES ASSUME Inductive, [Next]_vars
             PROVE  TypeOK' /\ (NoRowStep \/ \E a \in Agents : RowStep(a))
  OBVIOUS
<1> TypeOK BY DEF Inductive
<1> USE DEF TypeOK
<1>1. ASSUME NEW a \in Agents, CreateAgent(a) PROVE TypeOK' /\ RowStep(a)
  <2>1. PICK s \in Secrets \ minted, trusted \in BOOLEAN :
          /\ row' = [row EXCEPT ![a] =
                 [NoRow EXCEPT !.status = IF trusted THEN "active" ELSE "pending",
                               !.isActive = trusted, !.token = s]]
          /\ user' = [user EXCEPT ![a] = [isActive |-> trusted, isDeleted |-> FALSE]]
          /\ minted' = minted \cup {s}
    BY <1>1 DEF CreateAgent
  <2> DEFINE st == IF trusted THEN "active" ELSE "pending"
  <2>2. row'[a] = [NoRow EXCEPT !.status = st, !.isActive = trusted, !.token = s]
    BY <2>1
  <2>3. row'[a] \in Row
    <3>1. st \in {"active", "pending"} OBVIOUS
    <3> HIDE DEF st
    <3>2. 0 \in 0..(MaxTime + Grace) BY TimeAssumption, GraceAssumption
    <3>3. row'[a] = [status |-> st, isActive |-> trusted, token |-> s,
                     previous |-> NoSecret, expiresAt |-> 0]
      BY <2>2 DEF NoRow
    <3>4. QED BY <3>1, <3>2, <3>3 DEF Row, Statuses
  <2>4. row' \in [Agents -> Row] BY <2>1, <2>2, <2>3
  <2>5. user' \in [Agents -> User] BY <2>1 DEF User
  <2>6. Issued(a, s)
    <3>1. /\ row'[a].status \in {"active", "pending"} /\ row'[a].token = s
          /\ row'[a].previous = NoSecret /\ row'[a].expiresAt = 0
      BY <2>2 DEF NoRow
    <3>2. row'[a].isActive \in BOOLEAN BY <2>3 DEF Row
    <3>3. row[a].status = "absent" /\ now' = now BY <1>1 DEF CreateAgent
    <3>4. QED BY <2>1, <3>1, <3>2, <3>3, Zenon DEF Issued
  <2>7. QED BY <1>1, <2>1, <2>3, <2>4, <2>5, <2>6 DEF CreateAgent, RowStep
<1>2. ASSUME NEW a \in Agents, Activate(a) PROVE TypeOK' /\ RowStep(a)
  <2>1. row' \in [Agents -> Row]
    <3>1. row' = [row EXCEPT ![a] = [row[a] EXCEPT !.status = "active", !.isActive = TRUE]]
      BY <1>2 DEF Activate
    <3>2. row[a] \in Row /\ "active" \in Statuses
      BY DEF Statuses
    <3>3. [row[a] EXCEPT !.status = "active", !.isActive = TRUE] \in Row
      BY <3>2, RowShape
    <3>4. QED BY <3>1, <3>3
  <2>2. user' \in [Agents -> User] BY <1>2 DEF Activate, User
  <2>3. row'[a] = [row[a] EXCEPT !.status = "active", !.isActive = TRUE]
    BY <1>2 DEF Activate
  <2>4. row[a] \in Row OBVIOUS
  <2>5. Enabled(a)
    BY <1>2, <2>3, <2>4 DEF Activate, Enabled, Row
  <2>6. QED BY <1>2, <2>1, <2>2, <2>5 DEF Activate, RowStep
<1>3. ASSUME NEW a \in Agents, Reject(a) PROVE TypeOK' /\ RowStep(a)
  <2>1. row' \in [Agents -> Row] /\ Cleared(a)
    BY <1>3, ClearedRow DEF Reject, Cleared
  <2>2. user' \in [Agents -> User] BY <1>3 DEF Reject, User
  <2>3. QED BY <1>3, <2>1, <2>2 DEF Reject, RowStep
<1>4. ASSUME NEW a \in Agents, Suspend(a) PROVE TypeOK' /\ RowStep(a)
  <2>1. row' \in [Agents -> Row] /\ Cleared(a)
    BY <1>4, ClearedRow DEF Suspend, Cleared
  <2>2. QED BY <1>4, <2>1 DEF Suspend, RowStep
<1>5. ASSUME NEW a \in Agents, Resume(a) PROVE TypeOK' /\ RowStep(a)
  <2>1. row' \in [Agents -> Row]
    <3>1. row' = [row EXCEPT ![a] = [row[a] EXCEPT !.isActive = TRUE]] /\ row[a] \in Row
      BY <1>5 DEF Resume
    <3>2. [row[a] EXCEPT !.isActive = TRUE] \in Row
      BY <3>1, RowShape
    <3>3. QED BY <3>1, <3>2
  <2>2. Enabled(a)
    <3>1. row'[a] = [row[a] EXCEPT !.isActive = TRUE] /\ row[a] \in Row
      BY <1>5 DEF Resume
    <3>2. QED BY <1>5, <3>1 DEF Resume, Enabled, Row
  <2>3. QED BY <1>5, <2>1, <2>2 DEF Resume, RowStep
<1>6. ASSUME NEW a \in Agents, CreatorAccountDeleted(a) PROVE TypeOK' /\ RowStep(a)
  <2>1. row' \in [Agents -> Row] /\ Removed(a)
    BY <1>6, EmptyRow DEF CreatorAccountDeleted, Removed
  <2>2. user' \in [Agents -> User] BY <1>6 DEF CreatorAccountDeleted, User
  <2>3. QED BY <1>6, <2>1, <2>2 DEF CreatorAccountDeleted, RowStep
<1>7. ASSUME NEW q \in Requests, NEW a \in Agents, DeleteBegin(q, a)
      PROVE TypeOK' /\ NoRowStep
  <2>1. [op |-> "delete", agent |-> a, todo |-> DeleteParts] \in Request
    BY DEF Request, DeleteRequest
  <2>2. QED BY <1>7, <2>1 DEF DeleteBegin, NoRowStep, Time
<1>8. ASSUME NEW q \in Requests, NEW a \in Agents, RotateBegin(q, a)
      PROVE TypeOK' /\ NoRowStep
  <2>1. row[a].token \in Secrets
    BY <1>8 DEF Inductive, RowsHoldMintedSecrets, RotateBegin
  <2>2. [op |-> "rotate", agent |-> a, secret |-> row[a].token, since |-> now] \in Request
    BY <2>1 DEF Request, RotateRequest
  <2>3. QED BY <1>8, <2>2 DEF RotateBegin, NoRowStep, Time
<1>9. ASSUME NEW q \in Requests, DeleteUser(q) PROVE TypeOK' /\ NoRowStep
  <2>1. req' \in [Requests -> Request]
    BY <1>9, DeleteStepType DEF DeleteUser, DeleteParts
  <2>2. user' \in [Agents -> User] BY <1>9 DEF DeleteUser, User
  <2>3. QED BY <1>9, <2>1, <2>2 DEF DeleteUser, NoRowStep, Time
<1>10. ASSUME NEW q \in Requests, DeleteToken(q)
       PROVE  TypeOK' /\ \E a \in Agents : RowStep(a)
  <2>1. req' \in [Requests -> Request]
    BY <1>10, DeleteStepType DEF DeleteToken, DeleteParts
  <2>2. req[q].agent \in Agents
    BY <1>10, RequestShape DEF DeleteToken, DeleteRequest
  <2>3. row' \in [Agents -> Row] /\ Cleared(req[q].agent)
    BY <1>10, <2>2, ClearedRow DEF DeleteToken, Cleared
  <2>4. QED BY <1>10, <2>1, <2>2, <2>3 DEF DeleteToken, RowStep
<1>11. ASSUME NEW q \in Requests, DeleteRooms(q) PROVE TypeOK' /\ NoRowStep
  <2>1. req' \in [Requests -> Request]
    BY <1>11, DeleteStepType DEF DeleteRooms, DeleteParts
  <2>2. member' \in [Agents -> BOOLEAN]
    BY <1>11, Zenon DEF DeleteRooms
  <2>3. QED BY <1>11, <2>1, <2>2 DEF DeleteRooms, NoRowStep, Time
<1>12. ASSUME NEW q \in Requests, NEW part \in DeleteParts, DeleteWriteFails(q, part)
       PROVE  TypeOK' /\ NoRowStep
  <2>1. req' \in [Requests -> Request]
    BY <1>12, DeleteStepType DEF DeleteWriteFails
  <2>2. QED BY <1>12, <2>1 DEF DeleteWriteFails, NoRowStep, Time
<1>13. ASSUME NEW q \in Requests, RotateSwap(q)
       PROVE  TypeOK' /\ \E a \in Agents : RowStep(a)
  <2> DEFINE a == req[q].agent
  <2>1. req[q] \in RotateRequest
    BY <1>13, RequestShape DEF RotateSwap
  <2>2. a \in Agents /\ req[q].since \in Time
    BY <2>1 DEF RotateRequest
  <2>3. PICK s \in Secrets \ minted, t \in req[q].since .. now :
          /\ row' = [row EXCEPT ![a] = SwappedRow(row[a], req[q].secret, s, t + Grace)]
          /\ minted' = minted \cup {s}
    BY <1>13 DEF RotateSwap
  <2>4. /\ t + Grace \in Grace .. (now + Grace)
        /\ t + Grace \in 0 .. (MaxTime + Grace)
    BY <2>2, GraceAssumption, TimeAssumption DEF Time
  <2>5. SwapMatches(row[a], req[q].secret)
    BY <1>13 DEF RotateSwap
  <2>6. row'[a] = [row[a] EXCEPT !.token = s, !.previous = row[a].token,
                                 !.expiresAt = t + Grace]
    BY <2>2, <2>3, <2>5 DEF SwappedRow, SwapMatches
  <2>7. row'[a] \in Row
    <3>1. row[a] \in Row
      BY <2>2
    <3>2. PICK n \in 0 .. (MaxTime + Grace) : n = t + Grace
      BY <2>4
    <3>3. [row[a] EXCEPT !.token = s, !.previous = row[a].token, !.expiresAt = n] \in Row
      BY <3>1, RowShape
    <3>4. QED BY <2>6, <3>2, <3>3
  <2>8. row' \in [Agents -> Row]
    BY <2>3, <2>2, <2>7
  <2>9. Swapped(a, s)
    <3>1. row[a] \in Row BY <2>2
    <3>2. /\ row'[a].isActive = row[a].isActive /\ row'[a].status = row[a].status
          /\ row'[a].token = s /\ row'[a].previous = row[a].token
          /\ row'[a].expiresAt = t + Grace
      BY <2>6, <3>1 DEF Row
    <3>3. row[a].isActive /\ row[a].status = "active"
      BY <2>5, Zenon DEF SwapMatches
    <3>4. row'[a].isActive BY <3>2, <3>3, Zenon
    <3>5. now' = now BY <1>13 DEF RotateSwap
    <3>6. QED BY <2>3, <2>4, <3>2, <3>3, <3>4, <3>5, Zenon DEF Swapped
  <2>10. req' \in [Requests -> Request]
    BY <1>13, FinishType DEF RotateSwap, Verdicts
  <2>11. RowStep(a)
    BY <2>2, <2>3, <2>7, <2>9 DEF RowStep
  <2>12. QED BY <1>13, <2>2, <2>3, <2>8, <2>10, <2>11 DEF RotateSwap
<1>14. ASSUME NEW q \in Requests, RotateConflict(q) PROVE TypeOK' /\ NoRowStep
  <2>1. req' \in [Requests -> Request]
    BY <1>14, FinishType DEF RotateConflict, Verdicts
  <2>2. QED BY <1>14, <2>1 DEF RotateConflict, NoRowStep, Time
<1>15. ASSUME NEW q \in Requests, NEW s \in minted, LookupFirst(q, s)
       PROVE  TypeOK' /\ NoRowStep
  <2>1. [op |-> "lookup", secret |-> s, since |-> now] \in Request
    BY DEF Request, LookupRequest
  <2>2. \A a \in Agents : VerdictOn(a) \in Verdicts
    BY DEF VerdictOn, Verdicts
  <2>3. req' \in [Requests -> Request]
    <3>1. CASE \E a \in Hits(1, s, now) : Finish(q, VerdictOn(a))
      BY <3>1, <2>2, FinishType DEF Hits
    <3>2. CASE req' = [req EXCEPT ![q] = [op |-> "lookup", secret |-> s, since |-> now]]
      BY <3>2, <2>1
    <3>3. QED BY <1>15, <3>1, <3>2 DEF LookupFirst
  <2>4. QED BY <1>15, <2>3 DEF LookupFirst, NoRowStep, Time
<1>16. ASSUME NEW q \in Requests, LookupSecond(q) PROVE TypeOK' /\ NoRowStep
  <2>1. \A a \in Agents : VerdictOn(a) \in Verdicts
    BY DEF VerdictOn, Verdicts
  <2>2. "unknown" \in Verdicts BY DEF Verdicts
  <2>3. req' \in [Requests -> Request]
    BY <1>16, <2>1, <2>2, FinishType DEF LookupSecond, Hits
  <2>4. QED BY <1>16, <2>3 DEF LookupSecond, NoRowStep, Time
<1>17. CASE Tick
  BY <1>17, TimeAssumption DEF Tick, NoRowStep, Time
<1>18. CASE UNCHANGED vars
  BY <1>18 DEF vars, NoRowStep, Time
<1>19. QED
  BY <1>1, <1>2, <1>3, <1>4, <1>5, <1>6, <1>7, <1>8, <1>9, <1>10, <1>11, <1>12,
     <1>13, <1>14, <1>15, <1>16, <1>17, <1>18 DEF Next

----------------------------------------------------------------------------

(* What a step that touches no row leaves as it was. *)
LEMMA UntouchedRows ==
  ASSUME Inductive, TypeOK', NoRowStep
  PROVE  /\ RowsHoldMintedSecrets' /\ SecretsDisjoint'
         /\ PreviousOnlyWhileActive' /\ GraceBounded'
<1>1. RowsHoldMintedSecrets' /\ SecretsDisjoint' /\ PreviousOnlyWhileActive'
  BY DEF Inductive, NoRowStep, RowsHoldMintedSecrets, SecretsDisjoint,
         PreviousOnlyWhileActive, Exists
<1>2. GraceBounded'
  <2> SUFFICES ASSUME NEW a \in Agents
               PROVE  /\ row'[a].expiresAt <= now' + Grace
                      /\ row'[a].previous = NoSecret => row'[a].expiresAt = 0
    BY DEF GraceBounded
  <2>1. /\ row[a].expiresAt \in Nat /\ now \in Nat /\ now' \in Nat
        /\ row' = row /\ now <= now'
    BY TimeAssumption, GraceAssumption DEF Inductive, TypeOK, Row, NoRowStep, Time
  <2>2. /\ row[a].expiresAt <= now + Grace
        /\ row[a].previous = NoSecret => row[a].expiresAt = 0
    BY DEF Inductive, GraceBounded
  <2>3. QED BY <2>1, <2>2, GraceAssumption
<1>3. QED BY <1>1, <1>2

LEMMA KeepsMinted ==
  ASSUME Inductive, NEW a \in Agents, RowStep(a)
  PROVE  RowsHoldMintedSecrets'
<1> SUFFICES ASSUME NEW b \in Agents
             PROVE  /\ IF Exists(b)' THEN row'[b].token \in minted'
                        ELSE row'[b].token = NoSecret /\ row'[b].previous = NoSecret
                    /\ row'[b].previous \in minted' \cup {NoSecret}
  BY DEF RowsHoldMintedSecrets
<1> RowsHoldMintedSecrets /\ row[b] \in Row
  BY DEF Inductive, TypeOK
<1>1. minted \subseteq minted'
  BY DEF RowStep, Issued, Enabled, Cleared, Removed, Swapped
<1>2. CASE b # a
  BY <1>1, <1>2 DEF RowStep, RowsHoldMintedSecrets, Exists
<1>3. CASE b = a
  BY <1>1, <1>3 DEF RowStep, RowsHoldMintedSecrets, Exists, NoRow, Row,
     Issued, Enabled, Cleared, Removed, Swapped
<1>4. QED BY <1>2, <1>3

LEMMA KeepsDisjoint ==
  ASSUME Inductive, NEW a \in Agents, RowStep(a)
  PROVE  SecretsDisjoint'
<1> RowsHoldMintedSecrets /\ SecretsDisjoint /\ row \in [Agents -> Row] /\ minted \subseteq Secrets
  BY DEF Inductive, TypeOK
<1>1. \A b \in Agents : /\ row[b].token \in minted \cup {NoSecret}
                        /\ row[b].previous \in minted \cup {NoSecret}
  BY DEF RowsHoldMintedSecrets
<1>2. \/ \E s \in Secrets \ minted :
            row'[a].token = s /\ row'[a].previous \in {NoSecret, row[a].token}
      \/ row'[a].token = row[a].token /\ row'[a].previous \in {NoSecret, row[a].previous}
      \/ row'[a].token = NoSecret /\ row'[a].previous = NoSecret
  BY StepSecrets
<1>3. \A b \in Agents : b # a => row'[b] = row[b]
  BY DEF RowStep
<1>4. QED
  BY <1>1, <1>2, <1>3, NoSecretAssumption DEF SecretsDisjoint

LEMMA KeepsActive ==
  ASSUME Inductive, NEW a \in Agents, RowStep(a)
  PROVE  PreviousOnlyWhileActive'
<1> SUFFICES ASSUME NEW b \in Agents, row'[b].previous # NoSecret
             PROVE  row'[b].isActive /\ row'[b].status = "active"
  BY DEF PreviousOnlyWhileActive
<1> PreviousOnlyWhileActive /\ row[b] \in Row
  BY DEF Inductive, TypeOK
<1>1. CASE b # a
  BY <1>1 DEF RowStep, PreviousOnlyWhileActive
<1>2. CASE b = a
  <2>1. Enabled(a) \/ \E s \in Secrets : Swapped(a, s)
    BY <1>2 DEF RowStep, Issued, Cleared, Removed, NoRow
  <2>2. CASE Enabled(a)
    BY <1>2, <2>2 DEF Enabled, PreviousOnlyWhileActive, Row
  <2>3. CASE \E s \in Secrets : Swapped(a, s)
    BY <1>2, <2>3 DEF Swapped
  <2>4. QED BY <2>1, <2>2, <2>3
<1>3. QED BY <1>1, <1>2

LEMMA KeepsGraceBounded ==
  ASSUME Inductive, NEW a \in Agents, RowStep(a)
  PROVE  GraceBounded'
<1> SUFFICES ASSUME NEW b \in Agents
             PROVE  /\ row'[b].expiresAt <= now' + Grace
                    /\ row'[b].previous = NoSecret => row'[b].expiresAt = 0
  BY DEF GraceBounded
<1>1. /\ GraceBounded /\ RowsHoldMintedSecrets /\ row[b] \in Row
      /\ minted \subseteq Secrets /\ now \in Nat
  BY TimeAssumption DEF Inductive, TypeOK, Time
<1>2. now' = now
  BY DEF RowStep, Issued, Enabled, Cleared, Removed, Swapped
<1>3. CASE b # a
  BY <1>1, <1>2, <1>3 DEF RowStep, GraceBounded
<1>4. CASE b = a
  <2>1. CASE Enabled(a)
    BY <1>1, <1>2, <1>4, <2>1 DEF Enabled, GraceBounded, Row
  <2>2. CASE (\E s \in Secrets : Issued(a, s)) \/ Cleared(a) \/ Removed(a)
    <3>1. row'[a].expiresAt = 0
      BY <2>2 DEF Issued, Cleared, Removed, NoRow
    <3>2. QED BY <3>1, <1>1, <1>2, <1>4, GraceAssumption
  <2>3. CASE \E s \in Secrets : Swapped(a, s)
    <3>1. row[a].token \in Secrets
      BY <1>1, <2>3 DEF Swapped, RowsHoldMintedSecrets, Exists
    <3>2. row'[a].previous # NoSecret
      BY <2>3, <3>1, NoSecretAssumption DEF Swapped
    <3>3. row'[a].expiresAt <= now + Grace
      BY <2>3, <1>1, GraceAssumption DEF Swapped
    <3>4. QED BY <1>2, <1>4, <3>2, <3>3
  <2>4. QED BY <2>1, <2>2, <2>3 DEF RowStep
<1>5. QED BY <1>3, <1>4

----------------------------------------------------------------------------

(* A lookup between its queries cannot be overtaken by its own secret: only *)
(* a secret generated after the miss becomes current.                       *)
LEMMA KeepsLookups ==
  ASSUME Inductive, TypeOK', [Next]_vars
  PROVE  LookupsMissedCurrent'
<1> SUFFICES ASSUME NEW q \in Requests, req'[q].op = "lookup"
             PROVE  /\ req'[q].secret \in minted'
                    /\ \A a \in Agents : row'[a].token # req'[q].secret
  BY DEF LookupsMissedCurrent
<1>1. LookupsMissedCurrent /\ minted \subseteq Secrets /\ TypeOK
  BY DEF Inductive, TypeOK
<1>2. \/ req'[q] = req[q]
      \/ \E s \in minted : /\ req'[q].secret = s /\ row' = row /\ minted' = minted
                           /\ \A a \in Agents : row[a].token # s
  <2>1. ASSUME NEW p \in Requests, NEW v, Finish(p, v) PROVE req'[q] = req[q]
    <3>1. CASE p = q
      BY <2>1, <3>1, <1>1 DEF Finish, Answered, TypeOK
    <3>2. CASE p # q
      BY <2>1, <3>2, <1>1 DEF Finish, TypeOK
    <3>3. QED BY <3>1, <3>2
  <2>2. ASSUME NEW p \in Requests, NEW part, req[p].op = "delete", DeleteStepDone(p, part)
        PROVE  req'[q] = req[q]
    <3>1. CASE req[p].todo \ {part} = {}
      BY <2>1, <2>2, <3>1 DEF DeleteStepDone
    <3>2. CASE req[p].todo \ {part} # {}
      <4>1. req' = [req EXCEPT ![p].todo = req[p].todo \ {part}]
        BY <2>2, <3>2 DEF DeleteStepDone
      <4>2. CASE p = q
        <5>1. req[p] \in DeleteRequest
          BY <2>2, <1>1, RequestShape DEF TypeOK
        <5>2. req'[q].op = "delete"
          BY <4>1, <4>2, <5>1, <1>1 DEF TypeOK, DeleteRequest
        <5>3. QED BY <5>2
      <4>3. CASE p # q
        BY <4>1, <4>3, <1>1 DEF TypeOK
      <4>4. QED BY <4>2, <4>3
    <3>3. QED BY <3>1, <3>2
  <2>3. CASE \E p \in Requests, s \in minted : LookupFirst(p, s)
    <3>1. PICK p \in Requests, s \in minted : LookupFirst(p, s)
      BY <2>3
    <3>2. CASE \E a \in Hits(1, s, now) : Finish(p, VerdictOn(a))
      BY <3>2, <2>1
    <3>3. CASE Hits(1, s, now) = {}
               /\ req' = [req EXCEPT ![p] = [op |-> "lookup", secret |-> s, since |-> now]]
      <4>1. \A a \in Agents : row[a].token # s
        BY <3>3 DEF Hits, InSlot, SlotOfQuery
      <4>2. req'[q] = req[q] \/ req'[q].secret = s
        BY <3>3, <1>1 DEF TypeOK
      <4>3. QED BY <3>1, <4>1, <4>2 DEF LookupFirst
    <3>4. QED BY <3>1, <3>2, <3>3 DEF LookupFirst
  <2>4. CASE \E p \in Requests, a \in Agents : DeleteBegin(p, a) \/ RotateBegin(p, a)
    BY <2>4, <1>1 DEF DeleteBegin, RotateBegin, TypeOK
  <2>5. CASE \E p \in Requests : \/ DeleteUser(p) \/ DeleteToken(p) \/ DeleteRooms(p)
                                 \/ \E part \in DeleteParts : DeleteWriteFails(p, part)
    BY <2>5, <2>2 DEF DeleteUser, DeleteToken, DeleteRooms, DeleteWriteFails
  <2>6. CASE \E p \in Requests : RotateSwap(p) \/ RotateConflict(p) \/ LookupSecond(p)
    BY <2>6, <2>1 DEF RotateSwap, RotateConflict, LookupSecond
  <2>7. CASE \/ \E a \in Agents : \/ CreateAgent(a) \/ Activate(a) \/ Reject(a)
                                  \/ Suspend(a) \/ Resume(a) \/ CreatorAccountDeleted(a)
             \/ Tick
             \/ UNCHANGED vars
    BY <2>7 DEF CreateAgent, Activate, Reject, Suspend, Resume, CreatorAccountDeleted,
                Tick, vars
  <2>8. QED BY <2>3, <2>4, <2>5, <2>6, <2>7 DEF Next
<1>3. CASE req'[q] = req[q]
  <2>1. req[q].secret \in minted /\ \A a \in Agents : row[a].token # req[q].secret
    BY <1>1, <1>3 DEF LookupsMissedCurrent
  <2>2. minted \subseteq minted' /\ \A a \in Agents :
          row'[a].token \in {row[a].token, NoSecret} \cup (Secrets \ minted)
    <3>1. CASE NoRowStep
      BY <3>1 DEF NoRowStep
    <3>2. ASSUME NEW b \in Agents, RowStep(b)
          PROVE  /\ minted \subseteq minted'
                 /\ \A a \in Agents :
                      row'[a].token \in {row[a].token, NoSecret} \cup (Secrets \ minted)
      <4>1. row[b] \in Row BY <1>1 DEF TypeOK
      <4>2. /\ minted \subseteq minted'
            /\ row'[b].token \in {row[b].token, NoSecret} \cup (Secrets \ minted)
        BY <3>2, <4>1 DEF RowStep, Issued, Enabled, Cleared, Removed, Swapped, NoRow, Row
      <4>3. QED BY <3>2, <4>2 DEF RowStep
    <3>3. QED BY <3>1, <3>2, EveryStep
  <2>3. QED BY <1>1, <1>3, <2>1, <2>2, NoSecretAssumption
<1>4. QED BY <1>2, <1>3

(* The inductive invariant: every step is one of six effects on a row, or  *)
(* leaves rows and secrets alone, and each keeps every conjunct.           *)
THEOREM InductiveIsInvariant == Spec => []Inductive
<1>1. Init => Inductive
  <2> SUFFICES ASSUME Init PROVE Inductive
    OBVIOUS
  <2>1. TypeOK
    <3>1. row \in [Agents -> Row] BY EmptyRow DEF Init
    <3>2. 0 \in Time BY TimeAssumption DEF Time
    <3>3. Answered("none") \in Request
      BY DEF Answered, Request, IdleRequest, Verdicts
    <3>4. QED BY <3>1, <3>2, <3>3 DEF Init, TypeOK, User
  <2>2. \A q \in Requests : req[q].op = "idle"
    BY DEF Init, Answered
  <2>3. \A a \in Agents : /\ row[a] = NoRow /\ NoRow.expiresAt = 0
                          /\ NoRow.token = NoSecret /\ NoRow.previous = NoSecret
                          /\ ~Exists(a)
    BY DEF Init, NoRow, Exists
  <2>4. GraceBounded
    BY <2>3, GraceAssumption DEF GraceBounded, Init
  <2>5. QED
    BY <2>1, <2>2, <2>3, <2>4 DEF Inductive, RowsHoldMintedSecrets, SecretsDisjoint,
       PreviousOnlyWhileActive, LookupsMissedCurrent
<1>2. Inductive /\ [Next]_vars => Inductive'
  <2> SUFFICES ASSUME Inductive, [Next]_vars PROVE Inductive'
    OBVIOUS
  <2>1. TypeOK' /\ (NoRowStep \/ \E a \in Agents : RowStep(a))
    BY EveryStep
  <2>2. LookupsMissedCurrent'
    BY <2>1, KeepsLookups
  <2>3. CASE NoRowStep
    BY <2>1, <2>2, <2>3, UntouchedRows DEF Inductive
  <2>4. CASE \E a \in Agents : RowStep(a)
    BY <2>1, <2>2, <2>4, KeepsMinted, KeepsDisjoint, KeepsActive, KeepsGraceBounded
    DEF Inductive
  <2>5. QED BY <2>1, <2>3, <2>4
<1>3. QED BY <1>1, <1>2, PTL DEF Spec

(* Type correctness of every reachable state. *)
THEOREM TypeCorrect == Spec => []TypeOK
BY InductiveIsInvariant, PTL DEF Inductive

(* A bearer never resolves to two rows or to two slots. *)
THEOREM SecretsStayDisjoint == Spec => []SecretsDisjoint
BY InductiveIsInvariant, PTL DEF Inductive

(* Revocation wins over every rotation in flight. *)
THEOREM RevocationWins == Spec => []PreviousOnlyWhileActive
BY InductiveIsInvariant, PTL DEF Inductive

(* No grace window outlasts one window from the present. *)
THEOREM GraceIsBounded == Spec => []GraceBounded
BY InductiveIsInvariant, PTL DEF Inductive

----------------------------------------------------------------------------

(* Exactly one of two concurrent rotations wins: a replaced token is the   *)
(* one that was current, and it moves into the grace slot.                 *)
THEOREM OneRotationWins == Spec => RotationKeepsOld
<1>1. ASSUME Inductive, [Next]_vars, NEW a \in Agents,
             row[a].token # NoSecret, row'[a].token \notin {NoSecret, row[a].token}
      PROVE  row'[a].previous = row[a].token
  <2>1. PICK b \in Agents : RowStep(b)
    BY <1>1, EveryStep DEF NoRowStep
  <2>2. b = a
    BY <1>1, <2>1 DEF RowStep
  <2>3. ~Removed(a)
    BY <1>1 DEF Removed, NoRow
  <2>4. \A s : ~Issued(a, s)
    BY <1>1 DEF Issued, Inductive, RowsHoldMintedSecrets, Exists
  <2>5. ~Enabled(a)
    BY <1>1 DEF Enabled, Inductive, TypeOK, Row
  <2>6. ~Cleared(a)
    BY <1>1 DEF Cleared
  <2>7. QED BY <2>1, <2>2, <2>3, <2>4, <2>5, <2>6 DEF RowStep, Swapped
<1>2. Inductive /\ [Next]_vars =>
        [\A a \in Agents :
           row[a].token # NoSecret /\ row'[a].token \notin {NoSecret, row[a].token}
             => row'[a].previous = row[a].token]_vars
  BY <1>1
<1>3. QED BY <1>2, InductiveIsInvariant, PTL DEF Spec, RotationKeepsOld

(* A superseded secret never returns to a slot. *)
THEOREM NoSecretReturns == Spec => SupersededStaysDead
<1>1. ASSUME Inductive, [Next]_vars, NEW s \in minted, ~Held(s)
      PROVE  ~Held(s)'
  <2> SUFFICES ASSUME NEW a \in Agents
               PROVE  row'[a].token # s /\ row'[a].previous # s
    BY DEF Held
  <2>1. /\ s # NoSecret /\ row[a].token # s /\ row[a].previous # s
        /\ row[a] \in Row
    BY <1>1, NoSecretAssumption DEF Held, Inductive, TypeOK
  <2>2. CASE NoRowStep
    BY <2>1, <2>2 DEF NoRowStep
  <2>3. ASSUME NEW b \in Agents, RowStep(b) PROVE row'[a].token # s /\ row'[a].previous # s
    <3>1. CASE a # b BY <2>1, <2>3, <3>1 DEF RowStep
    <3>2. CASE a = b
      BY <1>1, <2>1, <2>3, <3>2, StepSecrets
    <3>3. QED BY <3>1, <3>2
  <2>4. QED BY <1>1, <2>2, <2>3, EveryStep
<1>2. Inductive /\ [Next]_vars => [\A s \in minted : ~Held(s) => ~Held(s)']_vars
  BY <1>1
<1>3. QED BY <1>2, InductiveIsInvariant, PTL DEF Spec, SupersededStaysDead

(* "unknown" is answered only for a secret that no row honours. *)
THEOREM LookupsAreExact == Spec => LookupNeverMisses
<1>1. ASSUME Inductive, [Next]_vars, NEW q \in Requests,
             req[q].op = "lookup", req'[q] = Answered("unknown")
      PROVE  ~Honoured(req[q].secret, req[q].since)
  <2>1. TypeOK /\ LookupsMissedCurrent
    BY <1>1 DEF Inductive
  <2>2. \A a \in Agents : row[a].token # req[q].secret
    BY <1>1, <2>1 DEF LookupsMissedCurrent
  <2>3. req'[q].op = "idle" /\ req'[q].answer = "unknown"
    BY <1>1 DEF Answered
  <2>4. req'[q] # req[q]
    BY <1>1, <2>3
  <2>5. \A p \in Requests, v \in Verdicts : Finish(p, v) => p = q
    BY <2>1, <2>4 DEF Finish, TypeOK
  <2>6. LookupSecond(q)
    <3>1. ASSUME NEW p \in Requests, req[p].op # "lookup",
                 NEW r, req' = [req EXCEPT ![p] = r]
          PROVE  FALSE
      BY <1>1, <2>1, <2>4, <3>1 DEF TypeOK
    <3>2. ASSUME NEW p \in Requests, req[p].op # "lookup", NEW part, DeleteStepDone(p, part)
          PROVE  FALSE
      BY <3>1, <3>2 DEF DeleteStepDone, Finish
    <3>3. ASSUME NEW p \in Requests, LookupSecond(p) PROVE p = q
      BY <1>1, <2>1, <2>4, <3>3 DEF LookupSecond, Finish, TypeOK
    <3>4. QED
      BY <1>1, <2>1, <2>4, <3>1, <3>2, <3>3
      DEF Next, vars, CreateAgent, Activate, Reject, Suspend, Resume, CreatorAccountDeleted,
          DeleteBegin, RotateBegin, DeleteUser, DeleteToken, DeleteRooms, DeleteWriteFails,
          RotateSwap, RotateConflict, LookupFirst, Idle, Finish, Tick
  <2>7. Hits(2, req[q].secret, req[q].since) = {}
    <3>1. ASSUME NEW a \in Agents, Finish(q, VerdictOn(a)) PROVE FALSE
      <4>1. req'[q].answer = VerdictOn(a)
        BY <2>1, <3>1 DEF Finish, Answered, TypeOK
      <4>2. QED BY <2>3, <4>1 DEF VerdictOn
    <3>2. QED BY <2>6, <3>1 DEF LookupSecond, Hits
  <2>8. QED
    BY <2>2, <2>7 DEF Honoured, Hits, InSlot, SlotOfQuery
<1>2. Inductive /\ [Next]_vars =>
        [\A q \in Requests :
           req[q].op = "lookup" /\ req'[q] = Answered("unknown")
             => ~Honoured(req[q].secret, req[q].since)]_vars
  BY <1>1
<1>3. QED BY <1>2, InductiveIsInvariant, PTL DEF Spec, LookupNeverMisses

(* The handlers in flight implement the abstract life cycle. *)
THEOREM Refinement == Spec => ImplementsAccess
<1> DEFINE on == {a \in Agents : row[a].isActive /\ row[a].status = "active"}
           cur == [a \in Agents |-> row[a].token]
           old == [a \in Agents |-> row[a].previous]
<1>1. Init => Access!Init
  <2> SUFFICES ASSUME Init PROVE Access!Init
    OBVIOUS
  <2>1. \A a \in Agents : /\ row[a].token = NoSecret /\ row[a].previous = NoSecret
                          /\ row[a].status # "active"
    BY DEF Init, NoRow
  <2>2. QED BY <2>1 DEF Init, Access!Init
<1>2. Inductive /\ [Next]_vars => [Access!Next]_Access!vars
  <2> SUFFICES ASSUME Inductive, [Next]_vars PROVE [Access!Next]_Access!vars
    OBVIOUS
  <2>1. CASE NoRowStep
    BY <2>1 DEF NoRowStep, Access!vars
  <2>2. ASSUME NEW a \in Agents, RowStep(a) PROVE [Access!Next]_Access!vars
    <3>1. /\ \A b \in Agents : b # a => row'[b] = row[b]
          /\ row[a] \in Row /\ row'[a] \in Row
      BY <2>2 DEF RowStep, Inductive, TypeOK
    <3>2. cur' = [cur EXCEPT ![a] = row'[a].token] /\ old' = [old EXCEPT ![a] = row'[a].previous]
      BY <3>1
    <3>3. /\ row'[a].isActive /\ row'[a].status = "active" => on' = on \cup {a}
          /\ ~(row'[a].isActive /\ row'[a].status = "active") => on' = on \ {a}
      BY <3>1
    <3>4. ASSUME NEW s \in Secrets, Issued(a, s) PROVE Access!Issue(a, s)
      BY <3>1, <3>2, <3>3, <3>4 DEF Issued, Access!Issue, Inductive, RowsHoldMintedSecrets, Exists
    <3>5. CASE Enabled(a)
      <4>0. row'[a].token = row[a].token /\ row'[a].previous = row[a].previous
        BY <3>1, <3>5 DEF Enabled, Row
      <4>1. cur' = cur /\ old' = old
        BY <3>1, <4>0
      <4>2. on' = on \/ on' = on \cup {a}
        <5>1. row'[a].isActive /\ row'[a].status \in {row[a].status, "active"}
          BY <3>1, <3>5 DEF Enabled, Row
        <5>2. CASE row'[a].status = "active"
          BY <3>3, <5>1, <5>2
        <5>3. CASE row'[a].status # "active"
          <6>1. a \notin on
            BY <5>1, <5>3
          <6>2. QED BY <3>3, <5>3, <6>1
        <5>4. QED BY <5>2, <5>3
      <4>3. QED BY <3>5, <4>1, <4>2 DEF Enabled, Access!Enable, Access!vars, Access!Next
    <3>6. CASE Cleared(a)
      <4>1. cur' = cur
        BY <3>1, <3>6 DEF Cleared
      <4>2. on' = on \ {a} /\ old' = [old EXCEPT ![a] = NoSecret] /\ minted' = minted
        BY <3>2, <3>3, <3>6 DEF Cleared
      <4>3. Access!Disable(a)
        BY <4>1, <4>2 DEF Access!Disable
      <4>4. QED BY <4>3 DEF Access!Next
    <3>7. CASE Removed(a)
      <4>1. /\ row'[a].token = NoSecret /\ row'[a].previous = NoSecret
            /\ row'[a].status # "active" /\ minted' = minted
        BY <3>7 DEF Removed, NoRow
      <4>2. Access!Retire(a)
        BY <3>2, <3>3, <4>1 DEF Access!Retire
      <4>3. QED BY <4>2 DEF Access!Next
    <3>8. ASSUME NEW s \in Secrets, Swapped(a, s) PROVE Access!Replace(a, s)
      BY <3>1, <3>2, <3>3, <3>8 DEF Swapped, Access!Replace
    <3>9. QED BY <2>2, <3>4, <3>5, <3>6, <3>7, <3>8 DEF RowStep, Access!Next
  <2>3. QED BY <2>1, <2>2, EveryStep
<1>3. QED BY <1>1, <1>2, InductiveIsInvariant, PTL DEF Spec, ImplementsAccess, Access!Spec
=============================================================================
