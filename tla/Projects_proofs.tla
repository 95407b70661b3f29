---------------------------- MODULE Projects_proofs ----------------------------
(***************************************************************************)
(* Proofs about what MCProjects puts together: the team of a project, for  *)
(* any users and any number of requests in flight; the code by which       *)
(* people register for it; and the tasks of its board.                     *)
(*                                                                         *)
(* None of the properties is inductive.  A name lost from the list hurts   *)
(* nobody because the participant was stored before the list was read      *)
(* (OnTheirWay), and what a request will write back must consist of        *)
(* invited users and the gateway, which comes with the room (Justified).   *)
(* A code is redeemed once more only by registrations between their check  *)
(* and their count (UsesInv).  A request to the board is entitled to what  *)
(* it writes (Entitled), and knows the columns as long as nothing has      *)
(* overtaken it (UpToDate).                                                *)
(***************************************************************************)
EXTENDS MCProjects, FiniteSetTheorems, TLAPS

Reaching == {"transaction", "join", "read", "write", "upsert"}

(* Whom somebody entitled let in, and the gateway. *)
LetIn == invited \cup {Gateway}
USE DEF LetIn

(* Whoever is on a list, in the room or about to be was let in. *)
Justified ==
  /\ Owner \in invited
  /\ team \subseteq LetIn /\ inRoom \subseteq LetIn /\ added \subseteq LetIn
  /\ \A r \in Requests :
       /\ req[r].list \subseteq LetIn
       /\ req[r].pc \in Reaching => req[r].who \in LetIn

(* u can come in through the room, or need not. *)
Present(u, room1, removed1, users1, project1) ==
  u \in room1 \/ u \in removed1 \/ u \notin users1 \/ project1 = "gone"
Now(u) == Present(u, inRoom, removed, users, project)
Then(u) == Present(u, inRoom', removed', users', project')

AddedArePresent == \A u \in added : Now(u)

(* Only a registration writes the list before the participant. *)
OnTheirWay ==
  \A r \in Requests :
    req[r].pc \in {"read", "write"} => req[r].op = "register" \/ Now(req[r].who)

IInv == TypeOK /\ Justified /\ AddedArePresent /\ OnTheirWay

(* Without additions: users come only if nobody waits for them, and those  *)
(* in the room stay unless they are removed or deleted.                    *)
PresenceKept == \A u \in LetIn : Now(u) => Then(u)

Op == {"none", "add", "invite", "place", "register", "access", "open"}
Pc == {"idle", "transaction", "join", "read", "check", "write", "upsert", "list", "merge"}
Record == [op: Op, pc: Pc, who: Users, list: SUBSET Users]

----------------------------------------------------------------------------
LEMMA InitIInv == Init => IInv
<1> SUFFICES ASSUME Init PROVE IInv
  OBVIOUS
<1>1. TypeOK
  BY TeamAssumption DEF Init, TypeOK, Idle
<1>2. Justified
  BY DEF Init, Justified, Idle, Reaching
<1>3. AddedArePresent /\ OnTheirWay
  BY DEF Init, AddedArePresent, OnTheirWay, Now, Present, Idle
<1> QED BY <1>1, <1>2, <1>3 DEF IInv

(* A step that leaves the requests but r alone, and moves r to a new       *)
(* record, keeps the parts of the invariant if the new record does.        *)
LEMMA OneRequest ==
  ASSUME IInv, NEW r \in Requests, NEW new \in Record,
         req' = [req EXCEPT ![r] = new],
         PresenceKept, invited \subseteq invited',
         new.list \subseteq LetIn',
         new.pc \in Reaching => new.who \in LetIn',
         new.pc \in {"read", "write"} => new.op = "register" \/ Then(new.who)
  PROVE  /\ req' \in [Requests -> Record]
         /\ \A s \in Requests :
              /\ req'[s].list \subseteq LetIn'
              /\ req'[s].pc \in Reaching => req'[s].who \in LetIn'
         /\ OnTheirWay'
<1>1. req \in [Requests -> Record]
  BY DEF IInv, TypeOK, Record, Op, Pc
<1>2. req' \in [Requests -> Record]
  BY <1>1
<1>3. \A s \in Requests : req'[s] = IF s = r THEN new ELSE req[s]
  BY <1>1
<1>4. ASSUME NEW s \in Requests
      PROVE  /\ req'[s].list \subseteq LetIn'
             /\ req'[s].pc \in Reaching => req'[s].who \in LetIn'
  BY <1>3 DEF IInv, Justified
<1>5. ASSUME NEW s \in Requests, req'[s].pc \in {"read", "write"}
      PROVE  req'[s].op = "register" \/ Then(req'[s].who)
  <2>1. CASE s = r
    BY <1>3, <1>5, <2>1
  <2>2. CASE s # r
    <3>1. req'[s] = req[s]
      BY <1>3, <2>2
    <3>2. req[s].op = "register" \/ Now(req[s].who)
      BY <1>5, <3>1 DEF IInv, OnTheirWay
    <3>3. req[s].who \in LetIn
      BY <1>5, <3>1 DEF IInv, Justified, Reaching
    <3>4. req[s].op = "register" \/ Then(req[s].who)
      BY <3>2, <3>3 DEF PresenceKept
    <3> QED BY <3>1, <3>4
  <2> QED BY <2>1, <2>2
<1>6. OnTheirWay'
  BY <1>5 DEF OnTheirWay, Now, Then
<1> QED BY <1>2, <1>4, <1>6

(* What a step must show for the rest of the state. *)
Sound ==
  /\ project' \in {"kept", "gone"} /\ room' \in {"kept", "gone"}
  /\ users' \subseteq Users /\ invited' \subseteq Users /\ removed' \subseteq Agents
  /\ invited \subseteq invited'
  /\ team' \subseteq LetIn' /\ inRoom' \subseteq LetIn' /\ added' \subseteq LetIn'
  /\ PresenceKept
  /\ \A u \in added' \ added : Then(u)

LEMMA SoundKeepsTheRest ==
  ASSUME IInv, Sound
  PROVE  /\ req' \in [Requests -> Record] => TypeOK'
         /\ (\A s \in Requests :
               /\ req'[s].list \subseteq LetIn'
               /\ req'[s].pc \in Reaching => req'[s].who \in LetIn') => Justified'
         /\ AddedArePresent'
<1>1. req' \in [Requests -> Record] => TypeOK'
  BY TeamAssumption DEF Sound, TypeOK, Record, Op, Pc
<1>2. (\A s \in Requests :
         /\ req'[s].list \subseteq LetIn'
         /\ req'[s].pc \in Reaching => req'[s].who \in LetIn') => Justified'
  BY DEF IInv, Sound, Justified
<1>3. ASSUME NEW u \in added' PROVE Then(u)
  <2>1. CASE u \in added
    <3>1. Now(u) /\ u \in LetIn
      BY <2>1 DEF IInv, AddedArePresent, Justified
    <3> QED BY <3>1 DEF Sound, PresenceKept
  <2>2. CASE u \notin added
    BY <1>3, <2>2 DEF Sound
  <2> QED BY <2>1, <2>2
<1>4. AddedArePresent'
  BY <1>3 DEF AddedArePresent, Now, Then
<1> QED BY <1>1, <1>2, <1>4

(* A sound step that moves request r to a record that is in order. *)
InOrder(new) ==
  /\ new \in Record
  /\ new.list \subseteq LetIn'
  /\ new.pc \in Reaching => new.who \in LetIn'
  /\ new.pc \in {"read", "write"} => new.op = "register" \/ Then(new.who)

LEMMA RequestStep ==
  ASSUME IInv, Sound, NEW r \in Requests, NEW new, InOrder(new),
         req' = [req EXCEPT ![r] = new]
  PROVE  IInv'
<1>1. new \in Record /\ PresenceKept /\ invited \subseteq invited'
  BY DEF InOrder, Sound
<1>2. /\ req' \in [Requests -> Record]
      /\ \A s \in Requests :
           /\ req'[s].list \subseteq LetIn'
           /\ req'[s].pc \in Reaching => req'[s].who \in LetIn'
      /\ OnTheirWay'
  BY <1>1, OneRequest DEF InOrder
<1>3. TypeOK' /\ Justified' /\ AddedArePresent'
  BY <1>2, SoundKeepsTheRest
<1> QED BY <1>2, <1>3 DEF IInv

LEMMA IdleInOrder == InOrder(Idle)
BY TeamAssumption DEF InOrder, Idle, Record, Op, Pc, Reaching

(* A sound step that leaves the requests as they are, or forgets them all. *)
LEMMA QuietStep ==
  ASSUME IInv, Sound, req' = req
  PROVE  IInv'
<1>1. /\ req' \in [Requests -> Record]
      /\ \A s \in Requests :
           /\ req'[s].list \subseteq LetIn'
           /\ req'[s].pc \in Reaching => req'[s].who \in LetIn'
  BY DEF IInv, TypeOK, Justified, Sound, Record, Op, Pc
<1>2. ASSUME NEW s \in Requests, req[s].pc \in {"read", "write"}
      PROVE  req[s].op = "register" \/ Then(req[s].who)
  <2>1. req[s].op = "register" \/ Now(req[s].who)
    BY <1>2 DEF IInv, OnTheirWay
  <2>2. req[s].who \in LetIn
    BY <1>2 DEF IInv, Justified, Reaching
  <2> QED BY <2>1, <2>2 DEF Sound, PresenceKept
<1>3. OnTheirWay'
  BY <1>2 DEF OnTheirWay, Now, Then
<1> QED BY <1>1, <1>3, SoundKeepsTheRest DEF IInv

LEMMA RestartKeepsIInv ==
  ASSUME IInv, Restart
  PROVE  IInv'
<1>1. Sound
  BY DEF IInv, TypeOK, Justified, Restart, Sound, PresenceKept, Now, Then, history
<1>2. /\ req' \in [Requests -> Record] /\ OnTheirWay'
      /\ \A s \in Requests :
           /\ req'[s].list \subseteq LetIn'
           /\ req'[s].pc \in Reaching => req'[s].who \in LetIn'
  BY TeamAssumption DEF Restart, Idle, Record, Op, Pc, Reaching, OnTheirWay
<1> QED BY <1>1, <1>2, SoundKeepsTheRest DEF IInv

(* A room that only grows, with nobody new among the users, keeps those    *)
(* who are present.                                                        *)
LEMMA GrowingKeepsPresence ==
  ASSUME inRoom \subseteq inRoom', removed \subseteq removed', users' \subseteq users,
         project' = project
  PROVE  PresenceKept
BY DEF PresenceKept, Now, Then, Present

----------------------------------------------------------------------------
LEMMA AddKeepsIInv ==
  ASSUME IInv, NEW r \in Requests,
         (\E u \in Users : AddBegin(r, u)) \/ AddTransaction(r)
  PROVE  IInv'
<1>1. ASSUME NEW u \in Users, AddBegin(r, u) PROVE IInv'
  <2> DEFINE new == [op |-> "add", pc |-> "transaction", who |-> u, list |-> team]
  <2>1. req' = [req EXCEPT ![r] = new]
    BY <1>1 DEF AddBegin, Begin
  <2>2. PresenceKept
    BY <1>1, GrowingKeepsPresence DEF AddBegin
  <2>3. Sound
    BY <1>1, <2>2 DEF AddBegin, Sound, IInv, TypeOK, Justified
  <2>4. InOrder(new)
    BY <1>1 DEF AddBegin, InOrder, IInv, TypeOK, Justified, Record, Op, Pc, Reaching
  <2> HIDE DEF new
  <2> QED BY <2>1, <2>3, <2>4, RequestStep
<1>2. CASE AddTransaction(r)
  <2>1. PresenceKept
    BY <1>2, GrowingKeepsPresence DEF AddTransaction, TakePart
  <2>2. req[r].who \in LetIn /\ req[r].list \subseteq LetIn
    BY <1>2 DEF AddTransaction, IInv, Justified, Reaching
  <2>3. req' = [req EXCEPT ![r] = Idle]
    BY <1>2 DEF AddTransaction, Succeed, Done
  <2>4. team' \subseteq LetIn /\ inRoom' \subseteq LetIn /\ added' \subseteq LetIn
    BY <1>2, <2>2 DEF AddTransaction, TakePart, Succeed, ListWith, IInv, Justified
  <2>5. \A u \in added' \ added : Then(u)
    BY <1>2 DEF AddTransaction, TakePart, Succeed, Then, Present
  <2>6. Sound
    BY <1>2, <2>1, <2>4, <2>5 DEF AddTransaction, Sound, IInv, TypeOK
  <2> QED BY <2>3, <2>6, IdleInOrder, RequestStep
<1> QED BY <1>1, <1>2

LEMMA ComeInKeepsIInv ==
  ASSUME IInv, NEW r \in Requests,
         (\E u \in Users : InviteBegin(r, u) \/ PlaceBegin(r, u)) \/ Join(r)
  PROVE  IInv'
<1>1. ASSUME NEW u \in Users, InviteBegin(r, u) \/ PlaceBegin(r, u) PROVE IInv'
  <2>1. PICK op \in {"invite", "place"} :
          req' = [req EXCEPT ![r] = [op |-> op, pc |-> "join", who |-> u, list |-> {}]]
    BY <1>1 DEF InviteBegin, PlaceBegin, Begin
  <2> DEFINE new == [op |-> op, pc |-> "join", who |-> u, list |-> {}]
  <2>2. /\ invited' = invited \cup {u}
        /\ UNCHANGED <<project, room, team, inRoom, users, added, removed>>
    BY <1>1 DEF InviteBegin, PlaceBegin
  <2>3. PresenceKept
    BY <2>2, GrowingKeepsPresence
  <2>4. Sound
    BY <2>2, <2>3 DEF Sound, IInv, TypeOK, Justified
  <2>5. InOrder(new)
    BY <2>2 DEF InOrder, Record, Op, Pc, Reaching
  <2> HIDE DEF new
  <2>6. req' = [req EXCEPT ![r] = new]
    BY <2>1 DEF new
  <2> QED BY <2>4, <2>5, <2>6, RequestStep
<1>2. CASE Join(r)
  <2> DEFINE u == req[r].who
  <2>1. PresenceKept
    BY <1>2, GrowingKeepsPresence DEF Join, TakePart, history
  <2>2. u \in LetIn
    BY <1>2 DEF Join, IInv, Justified, Reaching
  <2>3. Sound
    BY <1>2, <2>1, <2>2 DEF Join, TakePart, Sound, IInv, TypeOK, Justified, history
  <2>4. CASE UNCHANGED inRoom /\ Done(r)
    BY <2>3, <2>4, IdleInOrder, RequestStep DEF Done
  <2>5. CASE TakePart(u) /\ Go(r, "read")
    <3> DEFINE new == [req[r] EXCEPT !.pc = "read"]
    <3>1. req[r] \in Record
      BY DEF IInv, TypeOK, Record, Op, Pc
    <3>2. new \in Record /\ new.pc = "read" /\ new.who = u /\ new.list = req[r].list
      BY <3>1 DEF Record, Pc
    <3>3. Then(u)
      BY <2>5 DEF TakePart, Then, Present
    <3>4. InOrder(new)
      BY <2>2, <2>3, <3>2, <3>3 DEF InOrder, IInv, Justified, Sound
    <3>5. req' = [req EXCEPT ![r] = new]
      BY <2>5 DEF Go
    <3> HIDE DEF new
    <3> QED BY <2>3, <3>4, <3>5, RequestStep
  <2> QED BY <1>2, <2>4, <2>5 DEF Join
<1> QED BY <1>1, <1>2

(* Nothing but the requests, the list, and who was answered with success. *)
LEMMA ListStep ==
  ASSUME IInv, UNCHANGED <<project, room, inRoom, users, invited, removed>>,
         team' \subseteq LetIn, added' \subseteq LetIn,
         \A u \in added' \ added : Now(u)
  PROVE  Sound
<1>1. PresenceKept
  BY GrowingKeepsPresence
<1>2. \A u \in added' \ added : Then(u)
  BY DEF Now, Then
<1> QED BY <1>1, <1>2 DEF Sound, IInv, TypeOK, Justified

LEMMA ReadProjectKeepsIInv ==
  ASSUME IInv, NEW r \in Requests, ReadProject(r)
  PROVE  IInv'
<1> DEFINE u == req[r].who
<1>1. /\ req[r].pc = "read"
      /\ UNCHANGED <<project, room, team, inRoom, users, invited, removed>>
  BY DEF ReadProject
<1>2. u \in LetIn /\ (req[r].op = "register" \/ Now(u))
  BY <1>1 DEF IInv, Justified, Reaching, OnTheirWay
<1>3. req[r] \in Record
  BY DEF IInv, TypeOK, Record, Op, Pc
<1>4. CASE req' = [req EXCEPT ![r].pc = "write", ![r].list = team] /\ UNCHANGED added
  <2> DEFINE new == [req[r] EXCEPT !.pc = "write", !.list = team]
  <2>1. Sound
    BY <1>1, <1>4, ListStep DEF IInv, Justified
  <2>2. new \in Record
    BY <1>3 DEF IInv, TypeOK, Record, Op, Pc
  <2>3. Now(u) => Then(u)
    BY <1>1 DEF Now, Then
  <2>4. InOrder(new)
    BY <1>1, <1>2, <2>2, <2>3 DEF InOrder, IInv, Justified
  <2>5. req' = [req EXCEPT ![r] = new]
    BY <1>3, <1>4 DEF Record
  <2> HIDE DEF new
  <2> QED BY <2>1, <2>4, <2>5, RequestStep
<1>5. CASE Succeed(r) /\ ~(project = "kept" /\ req[r].op = "register")
  <2>1. Now(u)
    BY <1>2, <1>5 DEF Now, Present, IInv, TypeOK
  <2>2. Sound
    BY <1>1, <1>2, <1>5, <2>1, ListStep DEF Succeed, IInv, Justified
  <2> QED BY <1>5, <2>2, IdleInOrder, RequestStep DEF Succeed
<1> QED BY <1>4, <1>5 DEF ReadProject

LEMMA WriteListKeepsIInv ==
  ASSUME IInv, NEW r \in Requests, WriteList(r)
  PROVE  IInv'
<1> DEFINE u == req[r].who
<1>1. /\ req[r].pc = "write"
      /\ UNCHANGED <<project, room, inRoom, users, invited, removed>>
  BY DEF WriteList
<1>2. u \in LetIn /\ req[r].list \subseteq LetIn /\ Owner \in invited
  BY <1>1 DEF IInv, Justified, Reaching
<1>3. req[r] \in Record
  BY DEF IInv, TypeOK, Record, Op, Pc
<1>4. req[r].op = "register" \/ Now(u)
  BY <1>1 DEF IInv, OnTheirWay
<1>5. team' \subseteq LetIn
  BY <1>2 DEF WriteList, ListWith, IInv, Justified
<1>6. CASE UNCHANGED added
  <2>1. Sound
    BY <1>1, <1>5, <1>6, ListStep DEF IInv, Justified
  <2>2. CASE Done(r)
    BY <2>1, <2>2, IdleInOrder, RequestStep DEF Done
  <2>3. CASE Go(r, "upsert")
    <3> DEFINE new == [req[r] EXCEPT !.pc = "upsert"]
    <3>1. InOrder(new)
      BY <1>1, <1>2, <1>3 DEF InOrder, Record, Pc
    <3>2. req' = [req EXCEPT ![r] = new]
      BY <1>3, <2>3 DEF Go, Record
    <3> HIDE DEF new
    <3> QED BY <2>1, <3>1, <3>2, RequestStep
  <2>4. CASE req' = [req EXCEPT ![r].pc = "list", ![r].list = ListWith(req[r].list, u)]
    <3> DEFINE list == ListWith(req[r].list, u)
               new == [req[r] EXCEPT !.pc = "list", !.list = list]
    <3>1. list \subseteq LetIn /\ list \subseteq Users
      BY <1>2 DEF ListWith, IInv, TypeOK
    <3>2. InOrder(new)
      BY <1>1, <1>3, <3>1 DEF InOrder, Record, Pc, Reaching
    <3>3. req' = [req EXCEPT ![r] = new]
      BY <1>3, <2>4 DEF Record
    <3> HIDE DEF new
    <3> QED BY <2>1, <3>2, <3>3, RequestStep
  <2>5. \/ Done(r)
        \/ Go(r, "upsert")
        \/ req' = [req EXCEPT ![r].pc = "list", ![r].list = ListWith(req[r].list, u)]
        \/ Succeed(r)
    BY DEF WriteList
  <2>6. CASE Succeed(r)
    BY <2>1, <2>6, IdleInOrder, RequestStep DEF Succeed
  <2> QED BY <2>2, <2>3, <2>4, <2>5, <2>6
<1>7. CASE req[r].op \in {"invite", "place"} /\ Succeed(r)
  <2>1. Sound
    BY <1>1, <1>2, <1>4, <1>5, <1>7, ListStep DEF Succeed, IInv, Justified
  <2> QED BY <1>7, <2>1, IdleInOrder, RequestStep DEF Succeed
<1> QED BY <1>6, <1>7 DEF WriteList

LEMMA RegisterKeepsIInv ==
  ASSUME IInv, NEW r \in Requests,
         (\E u \in Users : Register(r, u)) \/ RegisterUpsert(r)
  PROVE  IInv'
<1>1. ASSUME NEW u \in Users, Register(r, u) PROVE IInv'
  <2> DEFINE new == [op |-> "register", pc |-> "read", who |-> u, list |-> {}]
  <2>1. req' = [req EXCEPT ![r] = new]
    BY <1>1 DEF Register, Begin
  <2>2. PresenceKept
    BY <1>1, TeamAssumption DEF Register, PresenceKept, Now, Then, Present
  <2>3. Sound
    BY <1>1, <2>2 DEF Register, Sound, IInv, TypeOK, Justified
  <2>4. InOrder(new)
    BY <1>1 DEF Register, InOrder, Record, Op, Pc, Reaching
  <2> HIDE DEF new
  <2> QED BY <2>1, <2>3, <2>4, RequestStep
<1>2. CASE RegisterUpsert(r)
  <2>1. PresenceKept
    BY <1>2, GrowingKeepsPresence DEF RegisterUpsert, TakePart
  <2>2. req[r].who \in LetIn
    BY <1>2 DEF RegisterUpsert, IInv, Justified, Reaching
  <2>3. \A u \in added' \ added : Then(u)
    BY <1>2 DEF RegisterUpsert, TakePart, Succeed, Then, Present
  <2>4. Sound
    BY <1>2, <2>1, <2>2, <2>3 DEF RegisterUpsert, TakePart, Succeed, Sound, IInv, TypeOK, Justified
  <2>5. req' = [req EXCEPT ![r] = Idle]
    BY <1>2 DEF RegisterUpsert, Succeed, Done
  <2> QED BY <2>4, <2>5, IdleInOrder, RequestStep
<1> QED BY <1>1, <1>2

LEMMA AccessKeepsIInv ==
  ASSUME IInv, NEW r \in Requests,
         \/ \E u \in Users, op \in {"access", "open"} : AccessBegin(r, op, u)
         \/ AccessCheck(r)
  PROVE  IInv'
<1>1. UNCHANGED <<project, room, team, inRoom, users, invited, added, removed>>
  BY DEF AccessBegin, AccessCheck, history
<1>2. Sound
  BY <1>1, ListStep DEF IInv, Justified
<1>3. ASSUME NEW u \in Users, NEW op \in {"access", "open"}, AccessBegin(r, op, u) PROVE IInv'
  <2> DEFINE new == [op |-> op, pc |-> "check", who |-> u, list |-> team]
  <2>1. req' = [req EXCEPT ![r] = new]
    BY <1>3 DEF AccessBegin, Begin
  <2>2. InOrder(new)
    BY <1>1 DEF InOrder, IInv, TypeOK, Justified, Record, Op, Pc, Reaching
  <2> HIDE DEF new
  <2> QED BY <1>2, <2>1, <2>2, RequestStep
<1>4. CASE AccessCheck(r) /\ Done(r)
  BY <1>2, <1>4, IdleInOrder, RequestStep DEF Done
<1>5. CASE AccessCheck(r) /\ TakesPart(req[r].who) /\ Go(r, "write")
  <2> DEFINE new == [req[r] EXCEPT !.pc = "write"]
  <2>1. req[r] \in Record
    BY DEF IInv, TypeOK, Record, Op, Pc
  <2>2. req[r].who \in LetIn /\ Then(req[r].who)
    BY <1>1, <1>5 DEF TakesPart, IInv, Justified, Then, Present
  <2>3. InOrder(new)
    BY <1>1, <2>1, <2>2 DEF InOrder, IInv, Justified, Record, Pc
  <2>4. req' = [req EXCEPT ![r] = new]
    BY <1>5, <2>1 DEF Go, Record
  <2> HIDE DEF new
  <2> QED BY <1>2, <2>3, <2>4, RequestStep
<1> QED BY <1>3, <1>4, <1>5 DEF AccessCheck

LEMMA OpenKeepsIInv ==
  ASSUME IInv, NEW r \in Requests,
         (\E u \in Users : OpenBegin(r, u)) \/ OpenList(r) \/ OpenMerge(r)
  PROVE  IInv'
<1>1. req[r] \in Record /\ req[r].list \subseteq LetIn
  BY DEF IInv, TypeOK, Justified, Record, Op, Pc
<1>2. UNCHANGED <<project, room, inRoom, users, invited, added, removed>>
  BY DEF OpenBegin, OpenList, OpenMerge, history
<1>3. team' \subseteq LetIn
  BY <1>1 DEF OpenBegin, OpenList, OpenMerge, IInv, Justified
<1>4. Sound
  BY <1>2, <1>3, ListStep DEF IInv, Justified
<1>5. ASSUME NEW u \in Users, OpenBegin(r, u) PROVE IInv'
  <2> DEFINE new == [op |-> "open", pc |-> "list", who |-> u, list |-> team]
  <2>1. req' = [req EXCEPT ![r] = new]
    BY <1>5 DEF OpenBegin, Begin
  <2>2. InOrder(new)
    BY <1>2 DEF InOrder, IInv, TypeOK, Justified, Record, Op, Pc, Reaching
  <2> HIDE DEF new
  <2> QED BY <1>4, <2>1, <2>2, RequestStep
<1>6. CASE Done(r)
  BY <1>4, <1>6, IdleInOrder, RequestStep DEF Done
<1>7. CASE OpenList(r) /\ ~Done(r)
  <2> DEFINE merged == ListWith(req[r].list, Owner) \cup inRoom
             new == [req[r] EXCEPT !.pc = "merge", !.list = merged]
  <2>1. merged \subseteq LetIn /\ merged \subseteq Users
    BY <1>1, TeamAssumption DEF ListWith, IInv, TypeOK, Justified
  <2>2. InOrder(new)
    BY <1>1, <1>2, <2>1 DEF InOrder, Record, Pc, Reaching
  <2>3. req' = [req EXCEPT ![r] = new]
    BY <1>1, <1>7 DEF OpenList, Record
  <2> HIDE DEF new
  <2> QED BY <1>4, <2>2, <2>3, RequestStep
<1> QED BY <1>5, <1>6, <1>7 DEF OpenMerge

LEMMA LeavingKeepsIInv ==
  ASSUME IInv, (\E u \in Users : TakeOut(u) \/ DeleteAccount(u)) \/ DeleteRoom
  PROVE  IInv'
<1>1. ASSUME NEW u \in Users, TakeOut(u) PROVE Sound /\ req' = req
  <2>1. PresenceKept
    BY <1>1 DEF TakeOut, PresenceKept, Now, Then, Present
  <2> QED BY <1>1, <2>1 DEF TakeOut, Sound, IInv, TypeOK, Justified
<1>2. ASSUME NEW u \in Users, DeleteAccount(u) PROVE Sound /\ req' = req
  <2>1. PresenceKept
    BY <1>2 DEF DeleteAccount, PresenceKept, Now, Then, Present, history
  <2> QED BY <1>2, <2>1 DEF DeleteAccount, Sound, IInv, TypeOK, Justified, history
<1>3. CASE DeleteRoom
  <2>1. PresenceKept
    BY <1>3 DEF DeleteRoom, PresenceKept, Now, Then, Present, history
  <2>2. Sound /\ req' = req
    BY <1>3, <2>1 DEF DeleteRoom, Sound, IInv, TypeOK, Justified, history
  <2> QED BY <2>2, QuietStep
<1> QED BY <1>1, <1>2, <1>3, QuietStep

LEMMA NextKeepsIInv == IInv /\ [Next]_vars => IInv'
<1> SUFFICES ASSUME IInv, [Next]_vars PROVE IInv'
  OBVIOUS
<1>1. ASSUME NEW r \in Requests, NEW u \in Users,
             \/ AddBegin(r, u) \/ InviteBegin(r, u) \/ PlaceBegin(r, u) \/ Register(r, u)
             \/ OpenBegin(r, u) \/ \E op \in {"access", "open"} : AccessBegin(r, op, u)
      PROVE  IInv'
  BY <1>1, AddKeepsIInv, ComeInKeepsIInv, RegisterKeepsIInv, OpenKeepsIInv, AccessKeepsIInv
<1>2. ASSUME NEW r \in Requests,
             \/ AddTransaction(r) \/ Join(r) \/ ReadProject(r) \/ WriteList(r)
             \/ RegisterUpsert(r) \/ AccessCheck(r) \/ OpenList(r) \/ OpenMerge(r)
      PROVE  IInv'
  BY <1>2, AddKeepsIInv, ComeInKeepsIInv, ReadProjectKeepsIInv, WriteListKeepsIInv,
     RegisterKeepsIInv, AccessKeepsIInv, OpenKeepsIInv
<1>3. CASE (\E u \in Users : TakeOut(u) \/ DeleteAccount(u)) \/ DeleteRoom
  BY <1>3, LeavingKeepsIInv
<1>4. CASE Restart
  BY <1>4, RestartKeepsIInv
<1>5. CASE UNCHANGED vars
  <2>1. Sound /\ req' = req
    BY <1>5, ListStep DEF vars, IInv, Justified
  <2> QED BY <2>1, QuietStep
<1> QED BY <1>1, <1>2, <1>3, <1>4, <1>5 DEF Next

----------------------------------------------------------------------------
(* The invariant holds in every state of every behaviour. *)
THEOREM Inductive == Spec => []IInv
BY InitIInv, NextKeepsIInv, PTL DEF Spec

(* The list, the room and the requests have their types. *)
THEOREM TypeCorrect == Spec => []TypeOK
<1>1. IInv => TypeOK
  BY DEF IInv
<1> QED BY <1>1, Inductive, PTL

(* Whoever was added and told so can use the project, whatever other       *)
(* writers put back on the list, unless an admin took the agent out of the *)
(* room (addUserToProjectTeam, syncLinkedProjectTeam, POST /register).     *)
THEOREM AddedCanWork == Spec => []NobodyIsLockedOut
<1>1. IInv => NobodyIsLockedOut
  BY DEF IInv, AddedArePresent, Now, Present, NobodyIsLockedOut, TakesPart
<1> QED BY <1>1, Inductive, PTL

(* Nobody but the gateway, which is a participant of every new room, gets  *)
(* on the list or into the room whom nobody entitled let in                *)
(* (createProjectRoom, resolveProjectWithAccess, GET /:id).                *)
THEOREM OnlyTheInvited == Spec => []MembersWereInvited
<1>1. IInv => MembersWereInvited
  BY DEF IInv, Justified, MembersWereInvited
<1> QED BY <1>1, Inductive, PTL

----------------------------------------------------------------------------
(* The invite code of MCProjects.  What limits its uses is the number of   *)
(* registrations between their check and their count: each passed when a   *)
(* use was left, and there are no more than registrations in flight.       *)

CodeReq == [pc: {"idle", "create", "consume", "look", "close"}, who: Strangers \cup {Owner}]

(* Registrations past the check, and those with an account, uncounted yet. *)
Checked == {r \in Registrations : registration[r].pc \in {"create", "consume"}}
Consuming == {r \in Registrations : registration[r].pc = "consume"}

(* Accounts made with the code whose use is counted.                       *)
Counted == {u \in made \ lost : \A r \in Consuming : registration[r].who # u}

UsesInv ==
  /\ IsFiniteSet(made)
  /\ \A r \in Consuming : registration[r].who \in made \ lost
  /\ \A r, o \in Consuming : registration[r].who = registration[o].who => r = o
  /\ Cardinality(Counted) = code.useCount
  /\ code.useCount + Cardinality(Checked) <= MaxUses + Cardinality(Registrations) - 1

CodesInv ==
  /\ Invite!TypeOK
  /\ \A r \in Registrations : registration[r].pc # "idle" => registration[r].who \in Strangers
  /\ UsesInv
  /\ Owner \notin codeUsers /\ code.kept => ~code.isActive
  /\ ~code.kept => dropped \/ code.useCount = 0

CodeRow == [kept: BOOLEAN, isActive: BOOLEAN, useCount: Nat, usedById: Strangers \cup {Nobody}]

LEMMA CodesConstants ==
  /\ IsFiniteSet(Registrations) /\ Registrations # {} /\ MaxUses \in Nat /\ Owner \notin Strangers
  /\ Invite!Idle \in CodeReq /\ Invite!Idle.pc = "idle"
<1>1. IsFiniteSet(Registrations)
  BY InviteAssumption DEF Invite!Configured, Invite!IsFiniteSet, IsFiniteSet
<1>2. Registrations # {} /\ MaxUses \in Nat /\ Owner \notin Strangers
  BY InviteAssumption DEF Invite!Configured
<1>3. Invite!Idle \in CodeReq /\ Invite!Idle.pc = "idle"
  BY DEF Invite!Idle, CodeReq
<1> QED BY <1>1, <1>2, <1>3

LEMMA CodesTypes ==
  ASSUME CodesInv
  PROVE  /\ code \in CodeRow /\ code.useCount \in Nat
         /\ registration \in [Registrations -> CodeReq]
         /\ codeUsers \subseteq Strangers \cup {Owner} /\ made \subseteq Strangers
         /\ lost \subseteq made /\ Owner \notin Strangers
         /\ Invite!Idle \in CodeReq /\ Invite!Idle.pc = "idle"
         /\ IsFiniteSet(Registrations) /\ Registrations # {} /\ MaxUses \in Nat
BY CodesConstants DEF CodesInv, Invite!TypeOK, CodeRow, CodeReq

(* Requests are finite in number, and so is what is counted of them.       *)
LEMMA CheckedCounts ==
  /\ Cardinality(Registrations) \in Nat \ {0}
  /\ IsFiniteSet(Checked) /\ Cardinality(Checked) \in Nat
  /\ Cardinality(Checked) <= Cardinality(Registrations)
  /\ IsFiniteSet(Checked') /\ Cardinality(Checked)' \in Nat
  /\ Cardinality(Checked)' <= Cardinality(Registrations)
  /\ IsFiniteSet(Consuming) /\ Cardinality(Consuming) <= Cardinality(Checked)
<1>1. IsFiniteSet(Registrations) /\ Registrations # {}
  BY CodesConstants
<1>2. Checked \subseteq Registrations /\ Checked' \subseteq Registrations
      /\ Consuming \subseteq Checked
  BY DEF Checked, Consuming
<1> QED BY <1>1, <1>2, FS_Subset, FS_CardinalityType, FS_EmptySet

LEMMA CodesStart == Invite!Init => CodesInv
<1> SUFFICES ASSUME Invite!Init PROVE CodesInv
  OBVIOUS
<1>1. Invite!TypeOK
  BY DEF Invite!Init, Invite!TypeOK, Invite!Idle
<1>2. /\ \A r \in Registrations : registration[r].pc = "idle"
      /\ made = {} /\ lost = {} /\ code.useCount = 0 /\ code.kept /\ Owner \in codeUsers
  BY DEF Invite!Init, Invite!Idle
<1>3. Checked = {} /\ Consuming = {} /\ Counted = {}
  BY <1>2 DEF Checked, Consuming, Counted
<1>4. UsesInv
  BY <1>2, <1>3, CheckedCounts, FS_EmptySet, CodesConstants DEF UsesInv
<1> QED BY <1>1, <1>2, <1>4 DEF CodesInv

(* A step that counts nothing and checks nobody.                           *)
LEMMA UsesKept ==
  ASSUME CodesInv, code'.useCount = code.useCount, made' = made, Counted' = Counted,
         Checked' \subseteq Checked, Consuming' \subseteq Consuming,
         \A r \in Consuming' : registration'[r].who = registration[r].who
                               /\ registration'[r].who \notin lost'
  PROVE  UsesInv'
<1>1. Cardinality(Checked)' <= Cardinality(Checked)
  BY CheckedCounts, FS_Subset
<1>2. code'.useCount + Cardinality(Checked)' <= MaxUses + Cardinality(Registrations) - 1
  BY <1>1, CheckedCounts, CodesTypes DEF CodesInv, UsesInv
<1> QED BY <1>2 DEF CodesInv, UsesInv

(* A registration goes on without an effect on accounts or counts.         *)
LEMMA UsesGoOn ==
  ASSUME CodesInv, NEW r \in Registrations, NEW pc \in {"idle", "look", "close"},
         registration[r].pc \in {"create", "look", "close"}, UNCHANGED <<made, lost>>,
         code'.useCount = code.useCount,
         \/ registration' = [registration EXCEPT ![r].pc = pc]
         \/ registration' = [registration EXCEPT ![r] = Invite!Idle]
  PROVE  /\ UsesInv' /\ registration' \in [Registrations -> CodeReq]
         /\ \A o \in Registrations :
              registration'[o].pc # "idle" => /\ registration[o].pc # "idle"
                                              /\ registration'[o].who = registration[o].who
<1>1. /\ registration' \in [Registrations -> CodeReq]
      /\ registration'[r].pc \in {"idle", "look", "close"}
      /\ \A o \in Registrations \ {r} : registration'[o] = registration[o]
      /\ registration'[r].pc # "idle" => /\ registration'[r].who = registration[r].who
  <2>1. CASE registration' = [registration EXCEPT ![r].pc = pc]
    BY <2>1, CodesTypes DEF CodeReq
  <2>2. CASE registration' = [registration EXCEPT ![r] = Invite!Idle]
    BY <2>2, CodesTypes
  <2> QED BY <2>1, <2>2
<1>2. Checked' \subseteq Checked /\ Consuming' = Consuming
  BY <1>1 DEF Checked, Consuming
<1>3. \A o \in Consuming : registration'[o] = registration[o]
  BY <1>1 DEF Consuming
<1>4. Counted' = Counted
  BY <1>2, <1>3 DEF Counted
<1>5. \A o \in Consuming' : registration'[o].who = registration[o].who
                            /\ registration'[o].who \notin lost'
  BY <1>2, <1>3 DEF CodesInv, UsesInv
<1>6. UsesInv'
  BY <1>2, <1>4, <1>5, UsesKept
<1>7. \A o \in Registrations : registration'[o].pc # "idle" =>
        registration[o].pc # "idle" /\ registration'[o].who = registration[o].who
  BY <1>1
<1> QED BY <1>1, <1>6, <1>7

LEMMA CheckStep ==
  ASSUME CodesInv, NEW r \in Registrations, NEW u \in Strangers, Invite!Check(r, u)
  PROVE  CodesInv'
<1>1. /\ registration[r].pc = "idle" /\ code.useCount < MaxUses
      /\ registration' = [registration EXCEPT ![r] = [pc |-> "create", who |-> u]]
      /\ UNCHANGED <<code, expired, codeUsers, made, lost, dropped>>
  BY CodesTypes DEF Invite!Check, Invite!HasUsesLeft
<1>2. /\ registration' \in [Registrations -> CodeReq]
      /\ registration'[r].pc = "create" /\ registration'[r].who = u
      /\ \A o \in Registrations \ {r} : registration'[o] = registration[o]
  BY <1>1, CodesTypes DEF CodeReq
<1>3. Consuming' = Consuming /\ \A o \in Consuming : registration'[o] = registration[o]
  BY <1>1, <1>2 DEF Consuming
<1>4. Counted' = Counted
  BY <1>1, <1>3 DEF Counted
<1>5. code.useCount + Cardinality(Checked)' <= MaxUses + Cardinality(Registrations) - 1
  BY <1>1, CheckedCounts, CodesTypes
<1>6. UsesInv'
  BY <1>1, <1>3, <1>4, <1>5 DEF CodesInv, UsesInv
<1> QED BY <1>1, <1>2, <1>6 DEF CodesInv, Invite!TypeOK, CodeReq

LEMMA CreateUserStep ==
  ASSUME CodesInv, NEW r \in Registrations, Invite!CreateUser(r)
  PROVE  CodesInv'
<1> DEFINE u == registration[r].who
<1>1. /\ registration[r].pc = "create" /\ u \in Strangers
      /\ UNCHANGED <<code, expired, lost, dropped>>
  BY DEF Invite!CreateUser, CodesInv
<1>2. CASE u \in codeUsers \cup made
  <2>1. registration' = [registration EXCEPT ![r] = Invite!Idle] /\ UNCHANGED <<codeUsers, made>>
    BY <1>2 DEF Invite!CreateUser, Invite!Done
  <2>2. /\ UsesInv' /\ registration' \in [Registrations -> CodeReq]
        /\ \A o \in Registrations :
             registration'[o].pc # "idle" => /\ registration[o].pc # "idle"
                                             /\ registration'[o].who = registration[o].who
    BY <1>1, <2>1, UsesGoOn
  <2> QED BY <1>1, <2>1, <2>2 DEF CodesInv, Invite!TypeOK, CodeReq
<1>3. CASE u \notin codeUsers \cup made
  <2>1. /\ registration' = [registration EXCEPT ![r].pc = "consume"]
        /\ made' = made \cup {u} /\ codeUsers' = codeUsers \cup {u}
    BY <1>3 DEF Invite!CreateUser, Invite!Go
  <2>2. /\ registration' \in [Registrations -> CodeReq]
        /\ registration'[r].pc = "consume" /\ registration'[r].who = u
        /\ \A o \in Registrations \ {r} : registration'[o] = registration[o]
    BY <2>1, CodesTypes DEF CodeReq
  <2>3. Checked' = Checked /\ Consuming' = Consuming \cup {r} /\ r \notin Consuming
    BY <1>1, <2>2 DEF Checked, Consuming
  <2>4. \A o \in Consuming : registration'[o] = registration[o] /\ registration[o].who \in made \ lost
    BY <2>2, <2>3 DEF CodesInv, UsesInv, Consuming
  <2>5. u \notin lost /\ u \notin made
    BY <1>3, CodesTypes
  <2>6. Counted' = Counted
    BY <1>1, <2>1, <2>2, <2>3, <2>4, <2>5 DEF Counted
  <2>7. IsFiniteSet(made')
    BY <2>1, FS_AddElement DEF CodesInv, UsesInv
  <2>8. /\ \A x \in Consuming' : registration'[x].who \in made' \ lost'
        /\ \A x, o \in Consuming' : registration'[x].who = registration'[o].who => x = o
    BY <1>1, <2>1, <2>2, <2>3, <2>4, <2>5 DEF CodesInv, UsesInv
  <2>9. UsesInv'
    BY <1>1, <2>3, <2>6, <2>7, <2>8 DEF CodesInv, UsesInv
  <2> QED BY <1>1, <2>1, <2>2, <2>9, CodesTypes DEF CodesInv, Invite!TypeOK, CodeReq
<1> QED BY <1>2, <1>3

LEMMA ConsumeStep ==
  ASSUME CodesInv, NEW r \in Registrations, Invite!Consume(r)
  PROVE  CodesInv'
<1> DEFINE u == registration[r].who
<1>1. /\ registration[r].pc = "consume" /\ r \in Consuming /\ u \in made \ lost /\ u \in Strangers
      /\ UNCHANGED <<expired, codeUsers, made, dropped>>
  BY DEF Invite!Consume, CodesInv, UsesInv, Consuming
<1>2. /\ registration' \in [Registrations -> CodeReq]
      /\ registration'[r].pc \in {"look", "idle"}
      /\ \A o \in Registrations \ {r} : registration'[o] = registration[o]
      /\ registration'[r].pc # "idle" => registration'[r].who = u
  <2>1. \/ registration' = [registration EXCEPT ![r].pc = "look"]
        \/ registration' = [registration EXCEPT ![r] = Invite!Idle]
    BY DEF Invite!Consume, Invite!Go, Invite!Done
  <2>2. CASE registration' = [registration EXCEPT ![r].pc = "look"]
    BY <2>2, CodesTypes DEF CodeReq
  <2>3. CASE registration' = [registration EXCEPT ![r] = Invite!Idle]
    BY <2>3, CodesTypes
  <2> QED BY <2>1, <2>2, <2>3
<1>3. Checked' = Checked \ {r} /\ Consuming' = Consuming \ {r} /\ r \in Checked
  BY <1>1, <1>2 DEF Checked, Consuming
<1>4. \A o \in Consuming' : registration'[o] = registration[o] /\ registration[o].who # u
  BY <1>1, <1>2, <1>3 DEF CodesInv, UsesInv, Consuming
<1>5. CASE code.kept
  <2>1. code' = [code EXCEPT !.useCount = code.useCount + 1, !.usedById = u] /\ lost' = lost
    BY <1>5 DEF Invite!Consume
  <2>2. code' \in CodeRow /\ code'.useCount = code.useCount + 1
    <3>1. code \in CodeRow /\ code.useCount + 1 \in Nat /\ u \in Strangers \cup {Nobody}
      BY <1>1, CodesTypes
    <3> HIDE DEF u
    <3> QED BY <2>1, <3>1 DEF CodeRow
  <2>3. (code'.kept <=> code.kept) /\ (code'.isActive <=> code.isActive)
    BY <2>1, CodesTypes DEF CodeRow
  <2>4. Counted' = Counted \cup {u} /\ u \notin Counted
    BY <1>1, <1>3, <1>4, <2>1 DEF Counted
  <2>5. IsFiniteSet(Counted)
    <3>1. Counted \subseteq made
      BY DEF Counted
    <3> QED BY <3>1, FS_Subset DEF CodesInv, UsesInv
  <2>6. Cardinality(Counted)' = code'.useCount
    <3> HIDE DEF u
    <3>1. Cardinality(Counted \cup {u}) = Cardinality(Counted) + 1
      BY <2>4, <2>5, FS_AddElement
    <3>2. Cardinality(Counted) = code.useCount
      BY DEF CodesInv, UsesInv
    <3> QED BY <2>2, <2>4, <3>1, <3>2
  <2>7. Cardinality(Checked)' = Cardinality(Checked) - 1
    BY <1>3, CheckedCounts, FS_RemoveElement
  <2>8. code'.useCount + Cardinality(Checked)' <= MaxUses + Cardinality(Registrations) - 1
    BY <2>2, <2>7, CheckedCounts, CodesTypes DEF CodesInv, UsesInv
  <2>9. UsesInv'
    BY <1>1, <1>3, <1>4, <2>1, <2>6, <2>8 DEF CodesInv, UsesInv
  <2> QED BY <1>1, <1>2, <1>5, <2>1, <2>2, <2>3, <2>9 DEF CodesInv, Invite!TypeOK, CodeReq, CodeRow
<1>6. CASE ~code.kept
  <2>1. lost' = lost \cup {u} /\ code' = code
    BY <1>6 DEF Invite!Consume
  <2>2. Counted' = Counted
    BY <1>1, <1>3, <1>4, <2>1 DEF Counted
  <2>3. UsesInv'
    BY <1>1, <1>3, <1>4, <2>1, <2>2, UsesKept DEF CodesInv, UsesInv
  <2> QED BY <1>1, <1>2, <2>1, <2>3 DEF CodesInv, Invite!TypeOK, CodeReq
<1> QED BY <1>5, <1>6

LEMMA LookStep ==
  ASSUME CodesInv, NEW r \in Registrations, Invite!LookAgain(r) \/ Invite!Close(r)
  PROVE  CodesInv'
<1>1. /\ registration[r].pc \in {"look", "close"} /\ UNCHANGED <<expired, codeUsers, made, lost, dropped>>
      /\ \/ registration' = [registration EXCEPT ![r].pc = "close"]
         \/ registration' = [registration EXCEPT ![r] = Invite!Idle]
      /\ code' = code \/ code' = [code EXCEPT !.isActive = FALSE]
  BY DEF Invite!LookAgain, Invite!Close, Invite!Go, Invite!Done
<1>2. /\ code' \in CodeRow /\ code'.useCount = code.useCount /\ code'.kept = code.kept
      /\ code'.isActive => code.isActive
  BY <1>1, CodesTypes DEF CodeRow
<1>3. /\ UsesInv' /\ registration' \in [Registrations -> CodeReq]
      /\ \A o \in Registrations :
           registration'[o].pc # "idle" => /\ registration[o].pc # "idle"
                                           /\ registration'[o].who = registration[o].who
  BY <1>1, <1>2, UsesGoOn
<1> QED BY <1>1, <1>2, <1>3 DEF CodesInv, Invite!TypeOK, CodeReq, CodeRow

(* Steps that leave the registrations in flight alone.                     *)
LEMMA RowStep ==
  ASSUME CodesInv,
         \/ Invite!DeleteCode \/ Invite!Expire \/ Invite!CreatorLeaves
         \/ \E u \in Strangers : Invite!RedeemerLeaves(u)
  PROVE  CodesInv'
<1>1. UNCHANGED <<registration, made, lost>>
  BY DEF Invite!DeleteCode, Invite!Expire, Invite!CreatorLeaves, Invite!RedeemerLeaves
<1>2. /\ code' \in CodeRow /\ code'.useCount = code.useCount
      /\ code'.kept => code.kept
      /\ code'.isActive => code.isActive
      /\ expired' \in BOOLEAN /\ dropped' \in BOOLEAN
      /\ dropped => dropped'
      /\ ~code'.kept => ~code.kept \/ dropped' \/ code.useCount = 0
      /\ codeUsers' \subseteq codeUsers
      /\ Owner \notin codeUsers' /\ code'.kept => Owner \notin codeUsers \/ ~code'.isActive
  <2>1. CASE Invite!DeleteCode
    BY <2>1, CodesTypes DEF Invite!DeleteCode, CodeRow, CodesInv, Invite!TypeOK
  <2>2. CASE Invite!Expire
    BY <2>2, CodesTypes DEF Invite!Expire, CodeRow, CodesInv, Invite!TypeOK
  <2>3. CASE Invite!CreatorLeaves
    BY <2>3, CodesTypes DEF Invite!CreatorLeaves, Invite!IsUnused, CodeRow, CodesInv, Invite!TypeOK
  <2>4. ASSUME NEW u \in Strangers, Invite!RedeemerLeaves(u)
        PROVE  /\ code' = [code EXCEPT !.usedById = IF code.usedById = u THEN Nobody ELSE code.usedById]
               /\ codeUsers' = codeUsers \ {u} /\ u # Owner /\ UNCHANGED <<expired, dropped>>
    BY <2>4, CodesTypes DEF Invite!RedeemerLeaves
  <2>5. CASE \E u \in Strangers : Invite!RedeemerLeaves(u)
    BY <2>4, <2>5, CodesTypes DEF CodeRow, CodesInv, Invite!TypeOK
  <2> QED BY <2>1, <2>2, <2>3, <2>5
<1>3. Checked' = Checked /\ Consuming' = Consuming /\ Counted' = Counted
  BY <1>1 DEF Checked, Consuming, Counted
<1>4. UsesInv'
  BY <1>1, <1>2, <1>3 DEF CodesInv, UsesInv
<1>5. Invite!TypeOK'
  <2>1. codeUsers' \subseteq Strangers \cup {Owner} /\ code' \in CodeRow
        /\ expired' \in BOOLEAN /\ dropped' \in BOOLEAN
    BY <1>2, CodesTypes
  <2> QED BY <1>1, <2>1, CodesTypes DEF CodesInv, Invite!TypeOK, CodeRow
<1>6. Owner \notin codeUsers' /\ code'.kept => ~code'.isActive
  BY <1>2 DEF CodesInv
<1>7. ~code'.kept => dropped' \/ code'.useCount = 0
  BY <1>2 DEF CodesInv
<1>8. \A r \in Registrations : registration'[r].pc # "idle" => registration'[r].who \in Strangers
  BY <1>1 DEF CodesInv
<1> QED BY <1>4, <1>5, <1>6, <1>7, <1>8 DEF CodesInv

LEMMA CodesRestart ==
  ASSUME CodesInv, Invite!Restart
  PROVE  CodesInv'
<1>1. /\ registration' = [r \in Registrations |-> Invite!Idle]
      /\ lost' = lost \cup {registration[r].who : r \in Consuming}
      /\ UNCHANGED <<code, expired, codeUsers, made, dropped>>
  BY DEF Invite!Restart, Consuming
<1>2. registration' \in [Registrations -> CodeReq]
      /\ \A r \in Registrations : registration'[r].pc = "idle"
  BY <1>1, CodesTypes
<1>3. Checked' = {} /\ Consuming' = {}
  BY <1>2 DEF Checked, Consuming
<1>4. Counted' = Counted
  BY <1>1, <1>3 DEF Counted
<1>5. lost' \subseteq made
  BY <1>1, CodesTypes DEF CodesInv, UsesInv
<1>6. UsesInv'
  BY <1>1, <1>3, <1>4, UsesKept
<1> QED BY <1>1, <1>2, <1>5, <1>6 DEF CodesInv, Invite!TypeOK, CodeReq

LEMMA CodesStay == CodesInv /\ [Invite!Next]_codeVars => CodesInv'
<1>1. CodesInv /\ UNCHANGED codeVars => CodesInv'
  BY DEF codeVars, CodesInv, Invite!TypeOK, UsesInv, Checked, Consuming, Counted
<1> QED BY <1>1, CheckStep, CreateUserStep, ConsumeStep, LookStep, RowStep, CodesRestart
        DEF Invite!Next

(* The registrations in flight bound how many can be made with the last    *)
(* use.                                                                    *)
LEMMA CodesBounded == CodesInv => CodesAreLimited
<1> SUFFICES ASSUME CodesInv PROVE CodesAreLimited
  OBVIOUS
<1> DEFINE waiting == {registration[r].who : r \in Consuming}
           who == [r \in Consuming |-> registration[r].who]
<1>1. who \in Surjection(Consuming, waiting)
  BY DEF Surjection
<1>2. IsFiniteSet(waiting) /\ Cardinality(waiting) <= Cardinality(Consuming)
  BY <1>1, CheckedCounts, FS_Surjection
<1>3. made \ lost = Counted \cup waiting
  BY DEF Counted, CodesInv, UsesInv
<1>4. IsFiniteSet(Counted)
  <2>1. Counted \subseteq made
    BY DEF Counted
  <2> QED BY <2>1, FS_Subset DEF CodesInv, UsesInv
<1>5. /\ Cardinality(Counted \cup waiting)
           = Cardinality(Counted) + Cardinality(waiting) - Cardinality(Counted \cap waiting)
      /\ Cardinality(Counted \cap waiting) \in Nat
      /\ Cardinality(waiting) \in Nat /\ Cardinality(Counted) \in Nat
      /\ Cardinality(Consuming) \in Nat
  BY <1>2, <1>4, CheckedCounts, FS_Union, FS_Intersection, FS_CardinalityType
<1> HIDE DEF waiting
<1>6. Cardinality(made \ lost) <= MaxUses + Cardinality(Registrations) - 1
  <2>1. Cardinality(made \ lost) = Cardinality(Counted \cup waiting)
    BY <1>3
  <2>2. /\ Cardinality(Counted) = code.useCount /\ code.useCount \in Nat /\ MaxUses \in Nat
        /\ code.useCount + Cardinality(Checked) <= MaxUses + Cardinality(Registrations) - 1
    BY CodesTypes DEF CodesInv, UsesInv
  <2> QED BY <1>2, <1>5, <2>1, <2>2, CheckedCounts
<1>7. \A S : Invite!Cardinality(S) = Cardinality(S)
  BY DEF Cardinality, Invite!Cardinality
<1>8. Invite!OverrunIsBounded
  BY <1>6, <1>7, Zenon DEF Invite!OverrunIsBounded
<1>9. Invite!CodesOfTheGone
  BY CodesTypes DEF Invite!CodesOfTheGone, CodesInv
<1> QED BY <1>8, <1>9 DEF CodesAreLimited

LEMMA CodesHold == ProjectsSpec => []CodesInv
<1>1. ProjectsInit => CodesInv
  BY CodesStart DEF ProjectsInit
<1>2. CodesInv /\ [ProjectsNext]_<<part, vars, boardVars, codeVars>> => CodesInv'
  BY CodesStay DEF ProjectsNext
<1> QED BY <1>1, <1>2, PTL DEF ProjectsSpec

(* However many registrations pass the check on the last use, no more      *)
(* accounts are made than registrations are in flight; and the code of     *)
(* somebody who left lets nobody in, its record stays (POST /register,     *)
(* DELETE /me).                                                            *)
THEOREM CodesStayLimited == ProjectsSpec => []CodesAreLimited
BY CodesBounded, CodesHold, PTL

----------------------------------------------------------------------------
(* The board of MCProjects.                                                *)

BoardPc == {"idle", "create", "update", "announce", "delete", "count", "workflow"}
BoardReq == [pc: BoardPc, who: People, task: Tasks, from: Core \cup Optional,
             columns: SUBSET Optional, late: BOOLEAN, body: Board!Fields]

Member(u) == u \in members \cup {Owner}

(* What a request that is to write has checked, and what still holds of it *)
(* when it writes, because teams and holders are only ever added to the    *)
(* histories.                                                              *)
Entitled(q) ==
  /\ q.pc = "create" => held[q.task] = {} /\ (q.body.assignedTo = Same => Member(q.who))
  /\ q.pc \in {"create", "update"} => q.body.assignedTo = Same \/ Member(q.body.assignedTo)
  /\ q.pc = "update" => q.body.status \in {Same, q.from} \/ q.who \in held[q.task]

(* What one that nothing overtook knows of the columns.                    *)
UpToDate(q) ==
  /\ q.pc \in {"create", "update"} => q.body.status = Same \/ Board!OnBoard(q.body.status)
  /\ q.pc = "workflow" => Board!NoneInDisabled(q.columns)

HoldersInv ==
  /\ boardTeam \subseteq members
  /\ \A t \in Tasks : task[t].kept => task[t].assignedTo \in held[t] /\ Member(task[t].assignedTo)
  /\ \A r \in TaskRequests : Entitled(taskReq[r])
  /\ \A r, o \in TaskRequests :
       taskReq[r].pc = "create" /\ taskReq[o].pc = "create" /\ taskReq[r].task = taskReq[o].task
         => r = o

ColumnsInv ==
  \/ raced
  \/ /\ \A t \in Tasks : task[t].kept => Board!OnBoard(task[t].status)
     /\ \A r \in TaskRequests : taskReq[r].late \/ UpToDate(taskReq[r])

BoardInv == Board!TypeOK /\ HoldersInv /\ ColumnsInv

TaskRow == [kept: BOOLEAN, status: Core \cup Optional, assignedTo: People]

LEMMA BoardConstants ==
  /\ Owner \in People /\ Tasks # {} /\ "todo" \in Core /\ TaskBodies \subseteq Board!Fields
  /\ Board!Idle \in BoardReq /\ Board!Idle.pc = "idle" /\ Board!Idle.late = FALSE
  /\ Board!NoTask \in TaskRow /\ Board!NoTask.kept = FALSE /\ Board!NoTask.status = "todo"
  /\ Board!Columns = Core \cup Optional
<1>1. Owner \in People /\ Tasks # {} /\ "todo" \in Core /\ TaskBodies \subseteq Board!Fields
  BY BoardAssumption DEF Board!Configured
<1>2. Board!Idle \in BoardReq /\ Board!Idle.pc = "idle" /\ Board!Idle.late = FALSE
  BY <1>1 DEF Board!Idle, BoardReq, BoardPc, Board!Fields, Board!Columns
<1>3. Board!NoTask \in TaskRow /\ Board!NoTask.kept = FALSE /\ Board!NoTask.status = "todo"
  BY <1>1 DEF Board!NoTask, TaskRow
<1> QED BY <1>1, <1>2, <1>3 DEF Board!Columns

LEMMA BoardTypes ==
  ASSUME Board!TypeOK
  PROVE  /\ board \in {"kept", "gone"} /\ enabled \subseteq Optional
         /\ boardTeam \subseteq People /\ boardUsers \subseteq People
         /\ task \in [Tasks -> TaskRow] /\ taskReq \in [TaskRequests -> BoardReq]
         /\ members \subseteq People /\ raced \in BOOLEAN
         /\ held \in [Tasks -> SUBSET People]
         /\ settled \in [Tasks -> SUBSET (Core \cup Optional)]
BY DEF Board!TypeOK, TaskRow, Board!TaskRows, BoardReq, BoardPc, Board!Columns

(* ... and the other way round, for the next state. *)
LEMMA BoardTyped ==
  ASSUME board' \in {"kept", "gone"}, enabled' \subseteq Optional,
         boardTeam' \subseteq People, boardUsers' \subseteq People,
         task' \in [Tasks -> TaskRow], taskReq' \in [TaskRequests -> BoardReq],
         members' \subseteq People, raced' \in BOOLEAN,
         held' \in [Tasks -> SUBSET People],
         settled' \in [Tasks -> SUBSET (Core \cup Optional)]
  PROVE  Board!TypeOK'
BY DEF Board!TypeOK, TaskRow, Board!TaskRows, BoardReq, BoardPc, Board!Columns

LEMMA BoardStarts == Board!Init => BoardInv
<1> SUFFICES ASSUME Board!Init PROVE BoardInv
  OBVIOUS
<1>1. /\ \A t \in Tasks : task[t].kept = FALSE
      /\ \A r \in TaskRequests : taskReq[r] = Board!Idle /\ taskReq[r].pc = "idle"
      /\ boardTeam = members
  BY BoardConstants DEF Board!Init
<1>2. Board!TypeOK
  BY BoardConstants DEF Board!Init, Board!TypeOK, TaskRow, Board!TaskRows, BoardReq, BoardPc, Board!Columns
<1>3. HoldersInv
  BY <1>1 DEF HoldersInv, Entitled
<1>4. ColumnsInv
  BY <1>1 DEF ColumnsInv, UpToDate
<1> QED BY <1>2, <1>3, <1>4 DEF BoardInv

(* Request r goes on as q and nothing else changes but a settled arrival.  *)
LEMMA OnlyRequest ==
  ASSUME BoardInv, NEW r \in TaskRequests, NEW q \in BoardReq,
         taskReq' = [taskReq EXCEPT ![r] = q],
         UNCHANGED <<board, enabled, boardTeam, boardUsers, task, members, held, raced>>,
         settled' \in [Tasks -> SUBSET (Core \cup Optional)],
         Entitled(q), UpToDate(q),
         q.pc = "create" => \A o \in TaskRequests :
                              taskReq[o].pc = "create" => taskReq[o].task # q.task
  PROVE  BoardInv'
<1>1. /\ taskReq' \in [TaskRequests -> BoardReq] /\ taskReq'[r] = q
      /\ \A o \in TaskRequests \ {r} : taskReq'[o] = taskReq[o]
  BY BoardTypes DEF BoardInv
<1>2. Board!TypeOK'
  BY <1>1, BoardTypes, BoardTyped DEF BoardInv
<1>3. \A o \in TaskRequests : Entitled(taskReq[o])'
  BY <1>1 DEF BoardInv, HoldersInv, Entitled, Member
<1>4. \A o, x \in TaskRequests :
         taskReq'[o].pc = "create" /\ taskReq'[x].pc = "create" /\ taskReq'[o].task = taskReq'[x].task
           => o = x
  BY <1>1 DEF BoardInv, HoldersInv
<1>5. HoldersInv'
  BY <1>3, <1>4 DEF BoardInv, HoldersInv, Member
<1>6. ColumnsInv'
  BY <1>1 DEF BoardInv, ColumnsInv, UpToDate, Board!OnBoard, Board!NoneInDisabled
<1> QED BY <1>2, <1>5, <1>6 DEF BoardInv

LEMMA BoardFinish ==
  ASSUME BoardInv, NEW r \in TaskRequests, Board!Finish(r),
         UNCHANGED <<board, enabled, boardTeam, boardUsers, task, members, held, raced>>,
         settled' \in [Tasks -> SUBSET (Core \cup Optional)]
  PROVE  BoardInv'
BY BoardConstants, OnlyRequest DEF Board!Finish, Entitled, UpToDate

LEMMA Settled ==
  ASSUME NEW qs, qs \subseteq BoardReq, Board!TypeOK, Board!Settle(qs)
  PROVE  settled' \in [Tasks -> SUBSET (Core \cup Optional)]
BY BoardTypes DEF Board!Settle, BoardReq

(* What a request that begins is.                                          *)
LEMMA Begun ==
  ASSUME BoardInv, NEW r \in TaskRequests, NEW u \in People, NEW t \in Tasks,
         NEW body \in Board!Fields, NEW pc \in BoardPc, Board!Begin(r, u, t, body, pc)
  PROVE  \E q \in BoardReq :
           /\ taskReq' = [taskReq EXCEPT ![r] = q]
           /\ q.pc = pc /\ q.who = u /\ q.task = t /\ q.body = body /\ q.from = task[t].status
           /\ UNCHANGED <<board, enabled, boardTeam, boardUsers, task, members, held, settled, raced>>
<1> DEFINE q == [Board!Idle EXCEPT !.pc = pc, !.who = u, !.task = t, !.body = body,
                                   !.from = task[t].status]
<1>1. task[t].status \in Core \cup Optional
  BY BoardTypes DEF BoardInv, TaskRow
<1>2. q \in BoardReq /\ q.pc = pc /\ q.who = u /\ q.task = t /\ q.body = body
      /\ q.from = task[t].status
  BY <1>1, BoardConstants DEF BoardReq
<1>3. /\ taskReq' = [taskReq EXCEPT ![r] = q]
      /\ UNCHANGED <<board, enabled, boardTeam, boardUsers, task, members, held, settled, raced>>
  BY DEF Board!Begin, Board!history
<1> QED BY <1>2, <1>3

LEMMA CreateBegins ==
  ASSUME BoardInv, NEW r \in TaskRequests, NEW u \in People, NEW t \in Tasks,
         NEW body \in TaskBodies, Board!CreateBegin(r, u, t, body)
  PROVE  BoardInv'
<1>1. /\ held[t] = {} /\ \A o \in TaskRequests : taskReq[o].pc = "create" => taskReq[o].task # t
      /\ body.status # Same => Board!OnBoard(body.status)
      /\ body.assignedTo # Same => Board!Assignable(body.assignedTo)
      /\ body.assignedTo = Same => Board!Assignable(u)
      /\ Board!Begin(r, u, t, body, "create") /\ body \in Board!Fields
  BY BoardConstants DEF Board!CreateBegin, Board!ValidBody
<1>2. PICK q \in BoardReq :
        /\ taskReq' = [taskReq EXCEPT ![r] = q]
        /\ q.pc = "create" /\ q.who = u /\ q.task = t /\ q.body = body
        /\ UNCHANGED <<board, enabled, boardTeam, boardUsers, task, members, held, settled, raced>>
  BY <1>1, Begun DEF BoardPc
<1>3. Entitled(q) /\ UpToDate(q)
  BY <1>1, <1>2 DEF Entitled, UpToDate, Member, Board!Assignable, BoardInv, HoldersInv
<1> QED BY <1>1, <1>2, <1>3, OnlyRequest, BoardTypes DEF BoardInv

LEMMA UpdateBegins ==
  ASSUME BoardInv, NEW r \in TaskRequests, NEW u \in People, NEW t \in Tasks,
         NEW body \in TaskBodies, Board!UpdateBegin(r, u, t, body)
  PROVE  BoardInv'
<1>1. /\ task[t].kept
      /\ body.status \in {Same, task[t].status} \/ task[t].assignedTo = u
      /\ body.status # Same => Board!OnBoard(body.status)
      /\ body.assignedTo # Same => Board!Assignable(body.assignedTo)
      /\ Board!Begin(r, u, t, body, "update") /\ body \in Board!Fields
  BY BoardConstants DEF Board!UpdateBegin, Board!ValidBody, Board!MayMove
<1>2. PICK q \in BoardReq :
        /\ taskReq' = [taskReq EXCEPT ![r] = q]
        /\ q.pc = "update" /\ q.who = u /\ q.task = t /\ q.body = body /\ q.from = task[t].status
        /\ UNCHANGED <<board, enabled, boardTeam, boardUsers, task, members, held, settled, raced>>
  BY <1>1, Begun DEF BoardPc
<1>3. Entitled(q) /\ UpToDate(q)
  BY <1>1, <1>2 DEF Entitled, UpToDate, Member, Board!Assignable, BoardInv, HoldersInv
<1> QED BY <1>2, <1>3, OnlyRequest, BoardTypes DEF BoardInv

LEMMA DeleteBegins ==
  ASSUME BoardInv, NEW r \in TaskRequests, NEW u \in People, NEW t \in Tasks,
         Board!DeleteBegin(r, u, t)
  PROVE  BoardInv'
<1>1. Board!Begin(r, u, t, Board!Idle.body, "delete") /\ Board!Idle.body \in Board!Fields
  BY BoardConstants DEF Board!DeleteBegin, BoardReq
<1>2. PICK q \in BoardReq :
        /\ taskReq' = [taskReq EXCEPT ![r] = q] /\ q.pc = "delete"
        /\ UNCHANGED <<board, enabled, boardTeam, boardUsers, task, members, held, settled, raced>>
  BY <1>1, Begun DEF BoardPc
<1> QED BY <1>2, OnlyRequest, BoardTypes DEF BoardInv, Entitled, UpToDate

LEMMA WorkflowBegins ==
  ASSUME BoardInv, NEW r \in TaskRequests,
         Board!WorkflowCount(r) \/ \E columns \in SUBSET Optional : Board!WorkflowBegin(r, columns)
  PROVE  BoardInv'
<1>1. UNCHANGED <<board, enabled, boardTeam, boardUsers, task, members, held, settled, raced>>
      /\ settled \in [Tasks -> SUBSET (Core \cup Optional)]
  BY BoardTypes DEF BoardInv, Board!WorkflowCount, Board!WorkflowBegin, Board!history
<1>2. ASSUME NEW columns \in SUBSET Optional, Board!WorkflowBegin(r, columns)
      PROVE  BoardInv'
  <2> DEFINE q == [Board!Idle EXCEPT !.pc = "count", !.columns = columns]
  <2>1. q \in BoardReq /\ q.pc = "count"
    BY BoardConstants DEF BoardReq, BoardPc
  <2>2. taskReq' = [taskReq EXCEPT ![r] = q]
    BY <1>2 DEF Board!WorkflowBegin
  <2> HIDE DEF q
  <2> QED BY <1>1, <2>1, <2>2, OnlyRequest DEF Entitled, UpToDate
<1>3. CASE Board!WorkflowCount(r) /\ ~Board!NoneInDisabled(taskReq[r].columns)
  BY <1>1, <1>3, BoardFinish DEF Board!WorkflowCount
<1>4. CASE Board!WorkflowCount(r) /\ Board!NoneInDisabled(taskReq[r].columns)
  <2> DEFINE q == [taskReq[r] EXCEPT !.pc = "workflow"]
  <2>1. taskReq \in [TaskRequests -> BoardReq]
    BY BoardTypes DEF BoardInv
  <2>2. q \in BoardReq /\ q.pc = "workflow" /\ q.columns = taskReq[r].columns
    BY <2>1 DEF BoardReq, BoardPc
  <2>3. taskReq' = [taskReq EXCEPT ![r] = q]
    BY <1>4, <2>1 DEF Board!WorkflowCount
  <2> HIDE DEF q
  <2> QED BY <1>1, <1>4, <2>2, <2>3, OnlyRequest DEF Entitled, UpToDate
<1> QED BY <1>2, <1>3, <1>4

(* A write makes what others have read out of date, and nothing else of    *)
(* them.                                                                   *)
LEMMA Overtaken ==
  ASSUME Board!TypeOK, NEW r \in TaskRequests, NEW q \in BoardReq, NEW pcs,
         Board!Overtake(r, q, pcs)
  PROVE  /\ taskReq' \in [TaskRequests -> BoardReq] /\ taskReq'[r] = q
         /\ \A o \in TaskRequests \ {r} :
              /\ taskReq'[o].pc = taskReq[o].pc /\ taskReq'[o].who = taskReq[o].who
              /\ taskReq'[o].task = taskReq[o].task /\ taskReq'[o].from = taskReq[o].from
              /\ taskReq'[o].columns = taskReq[o].columns /\ taskReq'[o].body = taskReq[o].body
              /\ taskReq'[o].late <=> (taskReq[o].late \/ taskReq[o].pc \in pcs)
         /\ raced' \in BOOLEAN
         /\ raced' <=> (raced \/ taskReq[r].late)
<1>1. /\ \A o \in TaskRequests : taskReq'[o] =
              IF o = r THEN q
              ELSE [taskReq[o] EXCEPT !.late = taskReq[o].late \/ taskReq[o].pc \in pcs]
      /\ raced' = (raced \/ taskReq[r].late) /\ raced \in BOOLEAN
      /\ taskReq \in [TaskRequests -> BoardReq]
      /\ taskReq' = [o \in TaskRequests |-> taskReq'[o]]
  BY BoardTypes DEF Board!Overtake
<1>2. ASSUME NEW o \in TaskRequests \ {r}
      PROVE  /\ taskReq'[o] \in BoardReq
             /\ taskReq'[o].pc = taskReq[o].pc /\ taskReq'[o].who = taskReq[o].who
             /\ taskReq'[o].task = taskReq[o].task /\ taskReq'[o].from = taskReq[o].from
             /\ taskReq'[o].columns = taskReq[o].columns /\ taskReq'[o].body = taskReq[o].body
             /\ taskReq'[o].late <=> (taskReq[o].late \/ taskReq[o].pc \in pcs)
  <2> DEFINE late == taskReq[o].late \/ taskReq[o].pc \in pcs
  <2>1. late \in BOOLEAN
    OBVIOUS
  <2>2. taskReq'[o] = [taskReq[o] EXCEPT !.late = late] /\ taskReq[o] \in BoardReq
    BY <1>1
  <2>3. late <=> (taskReq[o].late \/ taskReq[o].pc \in pcs)
    OBVIOUS
  <2> HIDE DEF late
  <2>4. taskReq'[o].late = late
    BY <2>2 DEF BoardReq
  <2>5. /\ taskReq'[o] \in BoardReq
        /\ taskReq'[o].pc = taskReq[o].pc /\ taskReq'[o].who = taskReq[o].who
        /\ taskReq'[o].task = taskReq[o].task /\ taskReq'[o].from = taskReq[o].from
        /\ taskReq'[o].columns = taskReq[o].columns /\ taskReq'[o].body = taskReq[o].body
    BY <2>1, <2>2 DEF BoardReq
  <2> QED BY <2>3, <2>4, <2>5
<1>3. taskReq'[r] = q
  BY <1>1
<1>4. taskReq' \in [TaskRequests -> BoardReq]
  BY <1>1, <1>2, <1>3
<1>5. raced' \in BOOLEAN /\ (raced' <=> (raced \/ taskReq[r].late))
  BY <1>1
<1> QED BY <1>2, <1>3, <1>4, <1>5

(* A row is written: for somebody of the team, and in a column that is     *)
(* there unless the writer was overtaken.                                  *)
LEMMA TaskWritten ==
  ASSUME BoardInv, NEW r \in TaskRequests, NEW q \in BoardReq, q.pc \in {"idle", "announce"},
         NEW t \in Tasks, NEW row \in TaskRow, Board!WriteTask(r, q, t, row),
         UNCHANGED <<board, enabled, boardTeam, boardUsers, members>>,
         settled' \in [Tasks -> SUBSET (Core \cup Optional)],
         Member(row.assignedTo), raced \/ taskReq[r].late \/ Board!OnBoard(row.status),
         \A o \in TaskRequests \ {r} : taskReq[o].pc = "create" => taskReq[o].task # t
  PROVE  BoardInv'
<1> USE DEF BoardInv
<1>1. /\ task' = [task EXCEPT ![t] = row] /\ Board!Overtake(r, q, {"workflow"})
      /\ held' = [held EXCEPT ![t] = held[t] \cup {row.assignedTo}]
  BY DEF Board!WriteTask
<1>2. /\ taskReq' \in [TaskRequests -> BoardReq] /\ taskReq'[r] = q
      /\ \A o \in TaskRequests \ {r} :
           /\ taskReq'[o].pc = taskReq[o].pc /\ taskReq'[o].who = taskReq[o].who
           /\ taskReq'[o].task = taskReq[o].task /\ taskReq'[o].from = taskReq[o].from
           /\ taskReq'[o].columns = taskReq[o].columns /\ taskReq'[o].body = taskReq[o].body
           /\ taskReq'[o].late <=> (taskReq[o].late \/ taskReq[o].pc \in {"workflow"})
      /\ raced' \in BOOLEAN
      /\ raced' <=> (raced \/ taskReq[r].late)
  BY <1>1, Overtaken
<1>3. /\ task' \in [Tasks -> TaskRow] /\ held' \in [Tasks -> SUBSET People]
      /\ task'[t] = row /\ row.assignedTo \in held'[t]
      /\ \A x \in Tasks \ {t} : task'[x] = task[x] /\ held'[x] = held[x]
      /\ \A x \in Tasks : held[x] \subseteq held'[x]
  BY <1>1, BoardTypes DEF TaskRow
<1>4. Board!TypeOK'
  BY <1>2, <1>3, BoardTypes, BoardTyped
<1>5. ASSUME NEW o \in TaskRequests PROVE Entitled(taskReq[o])'
  <2>1. CASE o = r
    BY <1>2, <2>1 DEF Entitled
  <2>2. CASE o # r
    <3>1. Entitled(taskReq[o]) /\ taskReq[o].task \in Tasks
      BY BoardTypes DEF HoldersInv, BoardReq
    <3> QED BY <1>2, <1>3, <2>2, <3>1 DEF Entitled, Member
  <2> QED BY <2>1, <2>2
<1>6. \A o, x \in TaskRequests :
        taskReq'[o].pc = "create" /\ taskReq'[x].pc = "create" /\ taskReq'[o].task = taskReq'[x].task
          => o = x
  BY <1>2 DEF HoldersInv
<1>7. HoldersInv'
  BY <1>3, <1>5, <1>6 DEF HoldersInv, Member
<1>8. ColumnsInv'
  <2>1. CASE raced \/ taskReq[r].late
    BY <1>2, <2>1 DEF ColumnsInv
  <2>2. CASE ~raced /\ ~taskReq[r].late
    <3>1. \A x \in Tasks : task'[x].kept => Board!OnBoard(task[x].status)'
      BY <1>3, <2>2 DEF ColumnsInv, Board!OnBoard
    <3>2. ASSUME NEW o \in TaskRequests PROVE taskReq'[o].late \/ UpToDate(taskReq[o])'
      <4>1. CASE o = r
        BY <1>2, <4>1 DEF UpToDate
      <4>2. CASE o # r
        <5>1. CASE taskReq[o].pc = "workflow"
          BY <1>2, <4>2, <5>1
        <5>2. CASE taskReq[o].pc # "workflow" /\ taskReq[o].late
          BY <1>2, <4>2, <5>2
        <5>3. CASE taskReq[o].pc # "workflow" /\ ~taskReq[o].late
          <6>1. UpToDate(taskReq[o])
            BY <2>2, <5>3 DEF ColumnsInv
          <6> QED BY <1>2, <4>2, <5>3, <6>1 DEF UpToDate, Board!OnBoard
        <5> QED BY <5>1, <5>2, <5>3
      <4> QED BY <4>1, <4>2
    <3> QED BY <3>1, <3>2 DEF ColumnsInv, Board!OnBoard
  <2> QED BY <2>1, <2>2
<1> QED BY <1>4, <1>7, <1>8

LEMMA PatchedRow ==
  ASSUME NEW row \in TaskRow, NEW body \in Board!Fields
  PROVE  /\ Board!Patched(row, body) \in TaskRow
         /\ Board!Patched(row, body).kept = row.kept
         /\ Board!Patched(row, body).status = IF body.status = Same THEN row.status ELSE body.status
         /\ Board!Patched(row, body).assignedTo =
              IF body.assignedTo = Same THEN row.assignedTo ELSE body.assignedTo
<1> DEFINE status == IF body.status = Same THEN row.status ELSE body.status
           who == IF body.assignedTo = Same THEN row.assignedTo ELSE body.assignedTo
<1>1. status \in Core \cup Optional /\ who \in People
  BY BoardConstants DEF Board!Fields, TaskRow
<1>2. Board!Patched(row, body) = [row EXCEPT !.status = status, !.assignedTo = who]
  BY DEF Board!Patched
<1> HIDE DEF status, who
<1>3. /\ Board!Patched(row, body) \in TaskRow
      /\ Board!Patched(row, body).kept = row.kept
      /\ Board!Patched(row, body).status = status /\ Board!Patched(row, body).assignedTo = who
  BY <1>1, <1>2 DEF TaskRow
<1> QED BY <1>3 DEF status, who

LEMMA CreateWritten ==
  ASSUME BoardInv, NEW r \in TaskRequests, Board!CreateWrite(r)
  PROVE  BoardInv'
<1> DEFINE q == taskReq[r]
           new == [Board!NoTask EXCEPT !.kept = TRUE, !.assignedTo = q.who]
           row == Board!Patched(new, q.body)
           stored == board = "kept" /\ q.who \in boardUsers
<1>1. /\ q \in BoardReq /\ q.pc = "create" /\ q.who \in People /\ q.task \in Tasks
      /\ q.body \in Board!Fields /\ Entitled(q)
      /\ UNCHANGED <<board, enabled, boardTeam, boardUsers, members>>
  BY BoardTypes DEF Board!CreateWrite, BoardInv, HoldersInv, BoardReq
<1>2. CASE ~stored
  BY <1>2, BoardFinish, BoardTypes DEF BoardInv, Board!CreateWrite
<1>3. CASE stored
  <2>1. Board!WriteTask(r, Board!Idle, q.task, row) /\ Board!Settle({[q EXCEPT !.from = row.status]})
    BY <1>3 DEF Board!CreateWrite
  <2>2. new \in TaskRow /\ new.assignedTo = q.who /\ new.status = "todo"
    BY <1>1, BoardConstants DEF TaskRow
  <2> HIDE DEF new
  <2>3. row \in TaskRow /\ row.status = (IF q.body.status = Same THEN "todo" ELSE q.body.status)
        /\ row.assignedTo = (IF q.body.assignedTo = Same THEN q.who ELSE q.body.assignedTo)
    BY <1>1, <2>2, PatchedRow
  <2> HIDE DEF row
  <2>4. {[q EXCEPT !.from = row.status]} \subseteq BoardReq
    BY <1>1, <2>3 DEF BoardReq, TaskRow
  <2>5. settled' \in [Tasks -> SUBSET (Core \cup Optional)]
    BY <2>1, <2>4, Settled DEF BoardInv
  <2>6. Member(row.assignedTo)
    BY <1>1, <2>3 DEF Entitled
  <2>7. raced \/ q.late \/ Board!OnBoard(row.status)
    BY <1>1, <2>3, BoardConstants DEF BoardInv, ColumnsInv, UpToDate, Board!OnBoard
  <2>8. \A o \in TaskRequests \ {r} : taskReq[o].pc = "create" => taskReq[o].task # q.task
    BY <1>1 DEF BoardInv, HoldersInv
  <2> QED BY <1>1, <2>1, <2>3, <2>5, <2>6, <2>7, <2>8, TaskWritten, BoardConstants
<1> QED BY <1>2, <1>3

(* The update of a row by id, and what it says of who moves tasks.         *)
LEMMA UpdateWritten ==
  ASSUME BoardInv, NEW r \in TaskRequests, Board!UpdateWrite(r)
  PROVE  /\ BoardInv'
         /\ taskReq[r].task \in Tasks /\ taskReq[r].pc = "update" /\ taskReq'[r].pc # "update"
         /\ \A x \in Tasks \ {taskReq[r].task} : task'[x] = task[x]
         /\ task'[taskReq[r].task].status # task[taskReq[r].task].status =>
              \/ taskReq[r].who \in held[taskReq[r].task]
              \/ taskReq[r].from = task'[taskReq[r].task].status
<1> DEFINE q == taskReq[r]
           now == Board!Patched(task[q.task], q.body)
           next == IF Board!WorthTelling(q.from, now.status)
                   THEN [Board!Idle EXCEPT !.pc = "announce", !.who = q.who, !.task = q.task,
                                           !.from = now.status]
                   ELSE Board!Idle
<1>1. /\ q \in BoardReq /\ q.pc = "update" /\ q.who \in People /\ q.task \in Tasks
      /\ q.body \in Board!Fields /\ Entitled(q) /\ task[q.task].kept /\ task[q.task] \in TaskRow
      /\ UNCHANGED <<board, enabled, boardTeam, boardUsers, members, settled>>
  BY BoardTypes DEF Board!UpdateWrite, BoardInv, HoldersInv, BoardReq
<1>2. Board!WriteTask(r, next, q.task, now)
  BY DEF Board!UpdateWrite
<1>3. /\ now \in TaskRow /\ now.kept = task[q.task].kept
      /\ now.status = (IF q.body.status = Same THEN task[q.task].status ELSE q.body.status)
      /\ now.assignedTo = (IF q.body.assignedTo = Same THEN task[q.task].assignedTo
                           ELSE q.body.assignedTo)
  BY <1>1, PatchedRow
<1> HIDE DEF now
<1>4. next \in BoardReq /\ next.pc \in {"idle", "announce"}
  <2>1. now.status \in Core \cup Optional
    BY <1>3 DEF TaskRow
  <2>2. ASSUME NEW x, x = [Board!Idle EXCEPT !.pc = "announce", !.who = q.who, !.task = q.task,
                                             !.from = now.status]
        PROVE  x \in BoardReq /\ x.pc = "announce"
    BY <1>1, <2>1, <2>2, BoardConstants DEF BoardReq, BoardPc
  <2> QED BY <2>2, BoardConstants
<1> HIDE DEF next
<1>5. Member(now.assignedTo)
  BY <1>1, <1>3 DEF Entitled, BoardInv, HoldersInv
<1>6. raced \/ q.late \/ Board!OnBoard(now.status)
  BY <1>1, <1>3 DEF BoardInv, ColumnsInv, UpToDate
<1>7. \A o \in TaskRequests \ {r} : taskReq[o].pc = "create" => taskReq[o].task # q.task
  BY <1>1 DEF BoardInv, HoldersInv, Entitled
<1>8. BoardInv'
  BY <1>1, <1>2, <1>3, <1>4, <1>5, <1>6, <1>7, TaskWritten, BoardTypes DEF BoardInv
<1>9. /\ task' = [task EXCEPT ![q.task] = now] /\ Board!Overtake(r, next, {"workflow"})
  BY <1>2 DEF Board!WriteTask
<1>10. taskReq'[r] = next
  BY <1>4, <1>9, Overtaken DEF BoardInv
<1>11. /\ \A x \in Tasks \ {q.task} : task'[x] = task[x]
       /\ task'[q.task] = now
  BY <1>1, <1>9, BoardTypes DEF BoardInv
<1>12. now.status # task[q.task].status => q.who \in held[q.task] \/ q.from = now.status
  BY <1>1, <1>3 DEF Entitled
<1> QED BY <1>1, <1>4, <1>8, <1>10, <1>11, <1>12

LEMMA WorkflowWritten ==
  ASSUME BoardInv, NEW r \in TaskRequests, Board!WorkflowWrite(r)
  PROVE  BoardInv'
<1> USE DEF BoardInv
<1>1. /\ taskReq[r].pc = "workflow" /\ taskReq[r].columns \in SUBSET Optional
      /\ UNCHANGED <<board, boardTeam, boardUsers, task, members, held, settled>>
  BY BoardTypes DEF Board!WorkflowWrite, BoardReq
<1>2. CASE board # "kept"
  BY <1>1, <1>2, BoardFinish, BoardTypes DEF Board!WorkflowWrite
<1>3. CASE board = "kept"
  <2>1. /\ enabled' = taskReq[r].columns
        /\ Board!Overtake(r, Board!Idle, {"create", "update"})
    BY <1>3 DEF Board!WorkflowWrite
  <2>2. /\ taskReq' \in [TaskRequests -> BoardReq] /\ taskReq'[r] = Board!Idle
        /\ \A o \in TaskRequests \ {r} :
             /\ taskReq'[o].pc = taskReq[o].pc /\ taskReq'[o].who = taskReq[o].who
             /\ taskReq'[o].task = taskReq[o].task /\ taskReq'[o].from = taskReq[o].from
             /\ taskReq'[o].columns = taskReq[o].columns /\ taskReq'[o].body = taskReq[o].body
             /\ taskReq'[o].late <=> (taskReq[o].late \/ taskReq[o].pc \in {"create", "update"})
        /\ raced' \in BOOLEAN
        /\ raced' <=> (raced \/ taskReq[r].late)
    BY <2>1, Overtaken, BoardConstants
  <2>3. Board!TypeOK'
    BY <1>1, <2>1, <2>2, BoardTypes, BoardTyped
  <2>4. ASSUME NEW o \in TaskRequests PROVE Entitled(taskReq[o])'
    <3>1. CASE o = r
      BY <2>2, <3>1, BoardConstants DEF Entitled
    <3>2. CASE o # r
      BY <1>1, <2>2, <3>2 DEF HoldersInv, Entitled, Member
    <3> QED BY <3>1, <3>2
  <2>5. \A o, x \in TaskRequests :
          taskReq'[o].pc = "create" /\ taskReq'[x].pc = "create" /\ taskReq'[o].task = taskReq'[x].task
            => o = x
    BY <2>2, BoardConstants DEF HoldersInv
  <2>6. HoldersInv'
    BY <1>1, <2>4, <2>5 DEF HoldersInv, Member
  <2>7. ColumnsInv'
    <3>1. CASE raced \/ taskReq[r].late
      BY <2>2, <3>1 DEF ColumnsInv
    <3>2. CASE ~raced /\ ~taskReq[r].late
      <4>1. Board!NoneInDisabled(taskReq[r].columns)
        BY <1>1, <3>2 DEF ColumnsInv, UpToDate
      <4>2. \A x \in Tasks : task'[x].kept => Board!OnBoard(task[x].status)'
        BY <1>1, <2>1, <4>1 DEF Board!OnBoard, Board!NoneInDisabled
      <4>3. ASSUME NEW o \in TaskRequests PROVE taskReq'[o].late \/ UpToDate(taskReq[o])'
        <5>1. CASE o = r
          BY <2>2, <5>1, BoardConstants DEF UpToDate
        <5>2. CASE o # r /\ (taskReq[o].late \/ taskReq[o].pc \in {"create", "update"})
          BY <2>2, <5>2
        <5>3. CASE o # r /\ ~taskReq[o].late /\ taskReq[o].pc \notin {"create", "update"}
          <6>1. UpToDate(taskReq[o])
            BY <3>2, <5>3 DEF ColumnsInv
          <6> QED BY <1>1, <2>2, <5>3, <6>1 DEF UpToDate, Board!NoneInDisabled
        <5> QED BY <5>1, <5>2, <5>3
      <4> QED BY <4>2, <4>3 DEF ColumnsInv
    <3> QED BY <3>1, <3>2
  <2> QED BY <2>3, <2>6, <2>7
<1> QED BY <1>2, <1>3

LEMMA RequestEnds ==
  ASSUME BoardInv, NEW r \in TaskRequests, Board!Announce(r) \/ Board!WriteMisses(r)
  PROVE  BoardInv'
<1>1. CASE Board!Announce(r)
  <2>1. {taskReq[r]} \subseteq BoardReq
    BY BoardTypes DEF BoardInv
  <2>2. settled' \in [Tasks -> SUBSET (Core \cup Optional)]
    BY <1>1, <2>1, Settled DEF Board!Announce, BoardInv
  <2> QED BY <1>1, <2>2, BoardFinish DEF Board!Announce
<1>2. CASE Board!WriteMisses(r)
  BY <1>2, BoardFinish, BoardTypes DEF Board!WriteMisses, Board!history, BoardInv
<1> QED BY <1>1, <1>2

(* Steps that leave the requests alone, or forget them all: rows go, or    *)
(* come into the owner's hands.                                            *)
LEMMA BoardFalls ==
  ASSUME BoardInv, board' \in {"kept", "gone"}, enabled' = enabled,
         boardUsers' \subseteq People, boardTeam' \subseteq members', members \subseteq members',
         members' \subseteq People, raced' = raced,
         task' \in [Tasks -> TaskRow], held' \in [Tasks -> SUBSET People],
         settled' \in [Tasks -> SUBSET (Core \cup Optional)],
         taskReq' \in [TaskRequests -> BoardReq],
         \A r \in TaskRequests : taskReq'[r] = taskReq[r] \/ taskReq'[r] = Board!Idle,
         \A t \in Tasks :
           /\ held[t] \subseteq held'[t] /\ (held[t] = {} => held'[t] = {})
           /\ task'[t].kept => task[t].kept /\ task'[t].status = task[t].status
           /\ task'[t].kept => \/ task'[t].assignedTo = task[t].assignedTo
                               \/ task'[t].assignedTo = Owner /\ Owner \in held'[t]
  PROVE  BoardInv'
<1> USE DEF BoardInv
<1>1. Board!TypeOK'
  BY BoardTypes, BoardTyped
<1>2. ASSUME NEW o \in TaskRequests PROVE Entitled(taskReq[o])'
  <2>1. CASE taskReq'[o] = Board!Idle
    BY <2>1, BoardConstants DEF Entitled
  <2>2. CASE taskReq'[o] = taskReq[o]
    <3>1. Entitled(taskReq[o]) /\ taskReq[o].task \in Tasks
      BY BoardTypes DEF HoldersInv, BoardReq
    <3> QED BY <2>2, <3>1 DEF Entitled, Member
  <2> QED BY <2>1, <2>2
<1>3. \A o, x \in TaskRequests :
        taskReq'[o].pc = "create" /\ taskReq'[x].pc = "create" /\ taskReq'[o].task = taskReq'[x].task
          => o = x
  BY BoardConstants DEF HoldersInv
<1>4. \A t \in Tasks : task'[t].kept => task'[t].assignedTo \in held'[t] /\ Member(task[t].assignedTo)'
  BY DEF HoldersInv, Member
<1>5. HoldersInv'
  BY <1>2, <1>3, <1>4 DEF HoldersInv
<1>6. ColumnsInv'
  <2>1. CASE raced
    BY <2>1 DEF ColumnsInv
  <2>2. CASE ~raced
    <3>1. \A x \in Tasks : task'[x].kept => Board!OnBoard(task[x].status)'
      BY <2>2 DEF ColumnsInv, Board!OnBoard
    <3>2. ASSUME NEW o \in TaskRequests PROVE taskReq'[o].late \/ UpToDate(taskReq[o])'
      <4>1. CASE taskReq'[o] = Board!Idle
        BY <4>1, BoardConstants DEF UpToDate
      <4>2. CASE taskReq'[o] = taskReq[o]
        BY <2>2, <4>2 DEF ColumnsInv, UpToDate, Board!OnBoard, Board!NoneInDisabled
      <4> QED BY <4>1, <4>2
    <3> QED BY <3>1, <3>2 DEF ColumnsInv
  <2> QED BY <2>1, <2>2
<1> QED BY <1>1, <1>5, <1>6

LEMMA TaskDeleted ==
  ASSUME BoardInv, NEW r \in TaskRequests, Board!DeleteWrite(r)
  PROVE  BoardInv' /\ task'[taskReq[r].task].kept = FALSE /\ taskReq[r].task \in Tasks
         /\ \A t \in Tasks \ {taskReq[r].task} : task'[t] = task[t]
<1> DEFINE t == taskReq[r].task
<1>1. /\ task \in [Tasks -> TaskRow] /\ t \in Tasks
      /\ taskReq' = [taskReq EXCEPT ![r] = Board!Idle]
      /\ UNCHANGED <<board, enabled, boardTeam, boardUsers, members, held, settled, raced>>
  BY BoardTypes DEF BoardInv, BoardReq, Board!DeleteWrite, Board!Finish, Board!history
<1>2. task' = [task EXCEPT ![t] = [task[t] EXCEPT !.kept = FALSE]]
  BY <1>1 DEF Board!DeleteWrite
<1> HIDE DEF t
<1>3. [task[t] EXCEPT !.kept = FALSE] \in TaskRow /\ [task[t] EXCEPT !.kept = FALSE].kept = FALSE
  BY <1>1 DEF TaskRow
<1>4. /\ task' \in [Tasks -> TaskRow] /\ task'[t].kept = FALSE
      /\ \A x \in Tasks \ {t} : task'[x] = task[x]
  BY <1>1, <1>2, <1>3
<1>5. /\ taskReq' \in [TaskRequests -> BoardReq]
      /\ \A o \in TaskRequests : taskReq'[o] = taskReq[o] \/ taskReq'[o] = Board!Idle
  BY <1>1, BoardTypes, BoardConstants DEF BoardInv
<1>6. BoardInv'
  BY <1>1, <1>4, <1>5, BoardFalls, BoardTypes DEF BoardInv, HoldersInv
<1> QED BY <1>1, <1>4, <1>6 DEF t

LEMMA BoardJoined ==
  ASSUME BoardInv, NEW u \in People, Board!Join(u)
  PROVE  BoardInv'
<1>1. /\ members' = members \cup {u} /\ boardTeam' = boardTeam \cup {u}
      /\ UNCHANGED <<board, enabled, boardUsers, task, taskReq, held, settled, raced>>
  BY DEF Board!Join
<1> QED BY <1>1, BoardFalls, BoardTypes DEF BoardInv, HoldersInv

LEMMA BoardAccountGone ==
  ASSUME BoardInv, NEW u \in People, Board!DeleteAccount(u)
  PROVE  BoardInv' /\ \A t \in Tasks : task'[t].status = task[t].status
<1>1. /\ boardUsers' = boardUsers \ {u} /\ boardTeam' = boardTeam \ {u}
      /\ UNCHANGED <<board, enabled, taskReq, members, settled, raced>>
  BY DEF Board!DeleteAccount
<1>2. /\ task \in [Tasks -> TaskRow] /\ held \in [Tasks -> SUBSET People]
      /\ task' = [t \in Tasks |-> task'[t]] /\ held' = [t \in Tasks |-> held'[t]]
  BY BoardTypes DEF BoardInv, Board!DeleteAccount
<1>3. ASSUME NEW t \in Tasks
      PROVE  /\ task'[t] \in TaskRow /\ held'[t] \in SUBSET People
             /\ task'[t].kept = task[t].kept /\ task'[t].status = task[t].status
             /\ held[t] \subseteq held'[t] /\ (held[t] = {} => held'[t] = {})
             /\ task'[t].kept => \/ task'[t].assignedTo = task[t].assignedTo
                                 \/ task'[t].assignedTo = Owner /\ Owner \in held'[t]
  <2> DEFINE who == IF task[t].assignedTo = u /\ task[t].kept THEN Owner ELSE task[t].assignedTo
  <2>1. task'[t] = [task[t] EXCEPT !.assignedTo = who]
    BY DEF Board!DeleteAccount
  <2>2. held'[t] = IF task[t].kept /\ task[t].assignedTo = u THEN held[t] \cup {Owner} ELSE held[t]
    BY DEF Board!DeleteAccount
  <2>3. task[t] \in TaskRow /\ who \in People /\ Owner \in People
    BY <1>2, BoardConstants DEF TaskRow
  <2>4. task[t].kept => held[t] # {}
    BY DEF BoardInv, HoldersInv
  <2>5. /\ task'[t] \in TaskRow /\ task'[t].kept = task[t].kept
        /\ task'[t].status = task[t].status /\ task'[t].assignedTo = who
    <3> HIDE DEF who
    <3> QED BY <2>1, <2>3 DEF TaskRow
  <2>6. held'[t] \in SUBSET People /\ held[t] \subseteq held'[t] /\ (held[t] = {} => held'[t] = {})
    BY <1>2, <2>2, <2>3, <2>4
  <2>7. task'[t].kept => \/ task'[t].assignedTo = task[t].assignedTo
                         \/ task'[t].assignedTo = Owner /\ Owner \in held'[t]
    BY <2>2, <2>5
  <2> QED BY <2>5, <2>6, <2>7
<1>4. task' \in [Tasks -> TaskRow] /\ held' \in [Tasks -> SUBSET People]
  BY <1>2, <1>3
<1>5. BoardInv'
  BY <1>1, <1>3, <1>4, BoardFalls, BoardTypes DEF BoardInv, HoldersInv
<1> QED BY <1>3, <1>5

LEMMA BoardGone ==
  ASSUME BoardInv, Board!DeleteProject
  PROVE  BoardInv' /\ \A t \in Tasks : task'[t].kept = FALSE
<1>1. /\ board' = "gone"
      /\ UNCHANGED <<enabled, boardTeam, boardUsers, taskReq, members, held, settled, raced>>
  BY DEF Board!DeleteProject, Board!history
<1>2. /\ task \in [Tasks -> TaskRow] /\ task' = [t \in Tasks |-> [task[t] EXCEPT !.kept = FALSE]]
  BY BoardTypes DEF BoardInv, Board!DeleteProject
<1>3. task' \in [Tasks -> TaskRow] /\ \A t \in Tasks : task'[t].kept = FALSE
  BY <1>2 DEF TaskRow
<1> QED BY <1>1, <1>3, BoardFalls, BoardTypes DEF BoardInv, HoldersInv

LEMMA BoardRestarts ==
  ASSUME BoardInv, Board!Restart
  PROVE  BoardInv' /\ task' = task
<1>1. /\ taskReq' = [r \in TaskRequests |-> Board!Idle]
      /\ Board!Settle({taskReq[r] : r \in {x \in TaskRequests : taskReq[x].pc = "announce"}})
      /\ UNCHANGED <<board, enabled, boardTeam, boardUsers, task, members, held, raced>>
  BY DEF Board!Restart
<1>2. {taskReq[r] : r \in {x \in TaskRequests : taskReq[x].pc = "announce"}} \subseteq BoardReq
  BY BoardTypes DEF BoardInv
<1>3. settled' \in [Tasks -> SUBSET (Core \cup Optional)]
  BY <1>1, <1>2, Settled DEF BoardInv
<1>4. taskReq' \in [TaskRequests -> BoardReq]
      /\ \A r \in TaskRequests : taskReq'[r] = Board!Idle
  BY <1>1, BoardConstants
<1> QED BY <1>1, <1>3, <1>4, BoardFalls, BoardTypes DEF BoardInv, HoldersInv

(* Whoever moves a task held it, or puts it back.                          *)
Mover(t) ==
  task[t].kept /\ task'[t].kept /\ task'[t].status # task[t].status =>
    \E r \in TaskRequests :
      /\ taskReq[r].pc = "update" /\ taskReq[r].task = t /\ taskReq'[r].pc # "update"
      /\ taskReq[r].who \in held[t] \/ taskReq[r].from = task'[t].status

LEMMA CreateMoves ==
  ASSUME BoardInv, NEW r \in TaskRequests, Board!CreateWrite(r), NEW t \in Tasks
  PROVE  Mover(t)
<1>1. taskReq[r].pc = "create" /\ taskReq[r].task \in Tasks /\ held[taskReq[r].task] = {}
  BY BoardTypes DEF Board!CreateWrite, BoardInv, HoldersInv, Entitled, BoardReq
<1>2. ~task[taskReq[r].task].kept
  BY <1>1 DEF BoardInv, HoldersInv
<1>3. t # taskReq[r].task => task'[t] = task[t]
  BY <1>1, BoardTypes DEF Board!CreateWrite, Board!WriteTask, BoardInv
<1> QED BY <1>2, <1>3 DEF Mover

LEMMA BoardMoves ==
  ASSUME BoardInv, [Board!Next]_boardVars
  PROVE  BoardInv' /\ \A t \in Tasks : Mover(t)
<1>1. ASSUME NEW r \in TaskRequests, Board!CreateWrite(r) PROVE BoardInv' /\ \A t \in Tasks : Mover(t)
  BY <1>1, CreateWritten, CreateMoves
<1>2. ASSUME NEW r \in TaskRequests, Board!UpdateWrite(r) PROVE BoardInv' /\ \A t \in Tasks : Mover(t)
  BY <1>2, UpdateWritten DEF Mover
<1>3. ASSUME NEW r \in TaskRequests, Board!Announce(r) \/ Board!WriteMisses(r)
      PROVE  BoardInv' /\ \A t \in Tasks : Mover(t)
  BY <1>3, RequestEnds DEF Mover, Board!Announce, Board!WriteMisses
<1>4. ASSUME NEW r \in TaskRequests, Board!DeleteWrite(r) PROVE BoardInv' /\ \A t \in Tasks : Mover(t)
  BY <1>4, TaskDeleted DEF Mover
<1>5. ASSUME NEW r \in TaskRequests,
             Board!WorkflowCount(r) \/ \E columns \in SUBSET Optional : Board!WorkflowBegin(r, columns)
      PROVE  BoardInv' /\ \A t \in Tasks : Mover(t)
  BY <1>5, WorkflowBegins DEF Mover, Board!WorkflowCount, Board!WorkflowBegin
<1>6. ASSUME NEW r \in TaskRequests, Board!WorkflowWrite(r) PROVE BoardInv' /\ \A t \in Tasks : Mover(t)
  BY <1>6, WorkflowWritten DEF Mover, Board!WorkflowWrite
<1>7. ASSUME NEW r \in TaskRequests, NEW u \in People, NEW t \in Tasks, NEW body \in TaskBodies,
             Board!CreateBegin(r, u, t, body) \/ Board!UpdateBegin(r, u, t, body)
      PROVE  BoardInv' /\ \A x \in Tasks : Mover(x)
  <2>1. task' = task
    BY <1>7 DEF Board!CreateBegin, Board!UpdateBegin, Board!Begin
  <2> QED BY <1>7, <2>1, CreateBegins, UpdateBegins DEF Mover
<1>8. ASSUME NEW r \in TaskRequests, NEW u \in People, NEW t \in Tasks, Board!DeleteBegin(r, u, t)
      PROVE  BoardInv' /\ \A x \in Tasks : Mover(x)
  <2>1. task' = task
    BY <1>8 DEF Board!DeleteBegin, Board!Begin
  <2> QED BY <1>8, <2>1, DeleteBegins DEF Mover
<1>9. ASSUME NEW u \in People, Board!Join(u) \/ Board!DeleteAccount(u)
      PROVE  BoardInv' /\ \A t \in Tasks : Mover(t)
  BY <1>9, BoardJoined, BoardAccountGone DEF Mover, Board!Join
<1>10. ASSUME Board!DeleteProject \/ Board!Restart PROVE BoardInv' /\ \A t \in Tasks : Mover(t)
  BY <1>10, BoardGone, BoardRestarts DEF Mover
<1>11. ASSUME UNCHANGED boardVars PROVE BoardInv' /\ \A t \in Tasks : Mover(t)
  BY <1>11 DEF boardVars, Mover, BoardInv, Board!TypeOK, HoldersInv, ColumnsInv, Entitled, UpToDate,
     Member, Board!OnBoard, Board!NoneInDisabled
<1> QED BY <1>1, <1>2, <1>3, <1>4, <1>5, <1>6, <1>7, <1>8, <1>9, <1>10, <1>11
        DEF Board!Next, Board!Step

LEMMA BoardHolds == ProjectsSpec => []BoardInv
<1>1. ProjectsInit => BoardInv
  BY BoardStarts DEF ProjectsInit
<1>2. BoardInv /\ [ProjectsNext]_<<part, vars, boardVars, codeVars>> => BoardInv'
  BY BoardMoves DEF ProjectsNext
<1> QED BY <1>1, <1>2, PTL DEF ProjectsSpec

(* What the board knows of arrivals: those in announced columns, and those *)
(* an update has read, which will not count the column as a new one.       *)
Known(t, s) == Board!ArrivalIsKnown(t, s)

ToldInv ==
  /\ \A t \in Tasks, s \in Announced : task[t].kept /\ task[t].status = s => Known(t, s)
  /\ \A r \in TaskRequests : taskReq[r].pc = "update" /\ taskReq[r].from \in Announced
                             => Known(taskReq[r].task, taskReq[r].from)

GoesOnAlike(r) ==
  /\ taskReq'[r].pc = taskReq[r].pc /\ taskReq'[r].task = taskReq[r].task
  /\ taskReq'[r].from = taskReq[r].from

(* A request that was to tell has told, and an update has just read.       *)
TellsOrReads(r) ==
  /\ taskReq[r].pc = "announce" => taskReq[r].from \in settled'[taskReq[r].task]
  /\ taskReq'[r].pc = "update" =>
       LET t == taskReq'[r].task IN
       t \in Tasks /\ task[t].kept /\ taskReq'[r].from = task[t].status

(* What is known stays known, and the rest is known by then.               *)
LEMMA TellingStays ==
  ASSUME ToldInv,
         \A t \in Tasks : settled[t] \subseteq settled'[t],
         \A r \in TaskRequests : taskReq[r].task \in Tasks,
         \A r \in TaskRequests : GoesOnAlike(r) \/ TellsOrReads(r),
         \A t \in Tasks, s \in Announced : task'[t].kept /\ task'[t].status = s =>
           (task[t].kept /\ task[t].status = s) \/ Known(t, s) \/ Known(t, s)'
  PROVE  ToldInv'
<1>1. ASSUME NEW t \in Tasks, NEW s \in Announced, Known(t, s) PROVE Known(t, s)'
  <2>1. CASE s \in settled[t]
    BY <2>1 DEF Known, Board!ArrivalIsKnown
  <2>2. CASE \E r \in TaskRequests :
               taskReq[r].pc = "announce" /\ taskReq[r].task = t /\ taskReq[r].from = s
    BY <2>2 DEF Known, Board!ArrivalIsKnown, GoesOnAlike, TellsOrReads
  <2> QED BY <1>1, <2>1, <2>2 DEF Known, Board!ArrivalIsKnown
<1>2. ASSUME NEW t \in Tasks, NEW s \in Announced, task'[t].kept, task'[t].status = s
      PROVE  Known(t, s)'
  <2>1. Known(t, s) \/ Known(t, s)'
    BY <1>2 DEF ToldInv
  <2> QED BY <1>1, <2>1
<1>3. ASSUME NEW r \in TaskRequests, taskReq'[r].pc = "update", taskReq'[r].from \in Announced
      PROVE  Known(taskReq[r].task, taskReq[r].from)'
  <2>1. PICK t \in Tasks, s \in Announced :
          t = taskReq'[r].task /\ s = taskReq'[r].from /\ Known(t, s)
    <3>1. CASE GoesOnAlike(r)
      BY <1>3, <3>1 DEF ToldInv, GoesOnAlike
    <3>2. CASE TellsOrReads(r)
      BY <1>3, <3>2 DEF ToldInv, TellsOrReads
    <3> QED BY <3>1, <3>2
  <2>2. Known(t, s)'
    BY <1>1, <2>1
  <2> QED BY <2>1, <2>2 DEF Known, Board!ArrivalIsKnown
<1> QED BY <1>2, <1>3 DEF ToldInv

(* One request becomes q, no row changes and nothing else is told.         *)
LEMMA OneTells ==
  ASSUME BoardInv, ToldInv, NEW r \in TaskRequests, NEW q, taskReq' = [taskReq EXCEPT ![r] = q],
         \A t \in Tasks : task'[t].kept => task[t].kept /\ task'[t].status = task[t].status,
         settled' = settled \/ Board!Settle({taskReq[r]}),
         taskReq[r].pc = "announce" => Board!Settle({taskReq[r]}),
         q.pc = "update" => q.task \in Tasks /\ task[q.task].kept /\ q.from = task[q.task].status
  PROVE  ToldInv'
<1>1. /\ taskReq'[r] = q /\ \A o \in TaskRequests \ {r} : taskReq'[o] = taskReq[o]
      /\ \A o \in TaskRequests : taskReq[o].task \in Tasks
      /\ settled = [t \in Tasks |-> settled[t]]
  BY BoardTypes DEF BoardInv, BoardReq
<1>2. \A t \in Tasks : settled[t] \subseteq settled'[t]
  BY <1>1 DEF Board!Settle
<1>3. Board!Settle({taskReq[r]}) => taskReq[r].from \in settled'[taskReq[r].task]
  BY <1>1 DEF Board!Settle
<1>4. GoesOnAlike(r) \/ TellsOrReads(r)
  BY <1>1, <1>3 DEF TellsOrReads
<1>5. \A o \in TaskRequests \ {r} : GoesOnAlike(o)
  BY <1>1 DEF GoesOnAlike
<1> QED BY <1>1, <1>2, <1>4, <1>5, TellingStays

LEMMA BeginsToTell ==
  ASSUME BoardInv, ToldInv, NEW r \in TaskRequests, NEW u \in People, NEW t \in Tasks,
         NEW body \in Board!Fields, NEW pc \in {"create", "update", "delete"},
         pc = "update" => task[t].kept,
         Board!Begin(r, u, t, body, pc)
  PROVE  ToldInv'
<1>1. PICK q \in BoardReq :
        /\ taskReq' = [taskReq EXCEPT ![r] = q]
        /\ q.pc = pc /\ q.who = u /\ q.task = t /\ q.body = body /\ q.from = task[t].status
        /\ UNCHANGED <<board, enabled, boardTeam, boardUsers, task, members, held, settled, raced>>
  BY Begun DEF BoardPc
<1>2. taskReq[r].pc = "idle"
  BY DEF Board!Begin
<1> QED BY <1>1, <1>2, OneTells

(* The creation of a task, which nobody is told of: its arrival is settled *)
(* with its row.                                                           *)
LEMMA CreationTells ==
  ASSUME BoardInv, ToldInv, NEW r \in TaskRequests, Board!CreateWrite(r)
  PROVE  ToldInv'
<1> DEFINE q == taskReq[r]
           stored == board = "kept" /\ q.who \in boardUsers
<1>1. /\ q.pc = "create" /\ q.task \in Tasks /\ Board!Idle.pc = "idle"
      /\ \A o \in TaskRequests : taskReq[o].task \in Tasks
      /\ task = [t \in Tasks |-> task[t]] /\ settled = [t \in Tasks |-> settled[t]]
      /\ Board!Idle \in BoardReq /\ Board!TypeOK
  BY BoardTypes, BoardConstants DEF Board!CreateWrite, BoardInv, BoardReq
<1>2. CASE ~stored
  BY <1>1, <1>2, OneTells DEF Board!CreateWrite, Board!Finish
<1>3. CASE stored
  <2>1. PICK row :
          /\ Board!WriteTask(r, Board!Idle, q.task, row)
          /\ Board!Settle({[q EXCEPT !.from = row.status]})
    BY <1>3 DEF Board!CreateWrite
  <2>2. PICK x : x = [q EXCEPT !.from = row.status]
    OBVIOUS
  <2>3. x.task = q.task /\ x.from = row.status
    BY <2>2, BoardTypes DEF BoardInv, BoardReq
  <2>4. /\ \A t \in Tasks : settled[t] \subseteq settled'[t]
        /\ row.status \in settled'[q.task]
    BY <1>1, <2>1, <2>2, <2>3 DEF Board!Settle
  <2>5. task' = [task EXCEPT ![q.task] = row] /\ Board!Overtake(r, Board!Idle, {"workflow"})
    BY <2>1 DEF Board!WriteTask
  <2>6. task'[q.task] = row /\ \A t \in Tasks \ {q.task} : task'[t] = task[t]
    BY <1>1, <2>5
  <2>7. /\ \A o \in TaskRequests \ {r} : GoesOnAlike(o)
        /\ TellsOrReads(r)
    BY <1>1, <2>5, Overtaken DEF GoesOnAlike, TellsOrReads
  <2>8. ASSUME NEW t \in Tasks, NEW s \in Announced, task'[t].kept, task'[t].status = s
        PROVE  (task[t].kept /\ task[t].status = s) \/ Known(t, s)'
    BY <2>4, <2>6, <2>8 DEF Known, Board!ArrivalIsKnown
  <2> QED BY <1>1, <2>4, <2>7, <2>8, TellingStays
<1> QED BY <1>2, <1>3

(* An update that moved the task tells, unless the column is the one it    *)
(* had read, whose arrival is known.                                       *)
LEMMA UpdateTells ==
  ASSUME BoardInv, ToldInv, NEW r \in TaskRequests, Board!UpdateWrite(r)
  PROVE  ToldInv'
<1> DEFINE q == taskReq[r]
<1>1. /\ q.pc = "update" /\ q.task \in Tasks /\ q \in BoardReq /\ q.who \in People
      /\ Board!Idle.pc = "idle" /\ Board!Idle \in BoardReq
      /\ \A o \in TaskRequests : taskReq[o].task \in Tasks
      /\ task \in [Tasks -> TaskRow] /\ q.body \in Board!Fields
      /\ settled' = settled /\ Board!TypeOK
  BY BoardTypes, BoardConstants DEF Board!UpdateWrite, BoardInv, BoardReq
<1>2. PICK now : now = Board!Patched(task[q.task], q.body)
  OBVIOUS
<1>3. now.status \in Core \cup Optional
  BY <1>1, <1>2, PatchedRow DEF TaskRow
<1>4. PICK telling : telling = [Board!Idle EXCEPT !.pc = "announce", !.who = q.who,
                                                  !.task = q.task, !.from = now.status]
  OBVIOUS
<1>5. telling \in BoardReq /\ telling.pc = "announce" /\ telling.task = q.task
      /\ telling.from = now.status
  BY <1>1, <1>3, <1>4 DEF BoardReq, BoardPc
<1>6. PICK next \in BoardReq :
        /\ Board!WriteTask(r, next, q.task, now)
        /\ next = IF Board!WorthTelling(q.from, now.status) THEN telling ELSE Board!Idle
  BY <1>1, <1>2, <1>4, <1>5 DEF Board!UpdateWrite
<1>7. task' = [task EXCEPT ![q.task] = now] /\ Board!Overtake(r, next, {"workflow"})
  BY <1>6 DEF Board!WriteTask
<1>8. task'[q.task] = now /\ \A t \in Tasks \ {q.task} : task'[t] = task[t]
  BY <1>1, <1>7
<1>9. taskReq'[r] = next /\ \A o \in TaskRequests \ {r} : GoesOnAlike(o)
  BY <1>1, <1>7, Overtaken DEF GoesOnAlike
<1>10. TellsOrReads(r)
  BY <1>1, <1>5, <1>6, <1>9 DEF TellsOrReads
<1>11. ASSUME now.status \in Announced
       PROVE  Known(q.task, now.status) \/ \E o \in TaskRequests :
                taskReq'[o].pc = "announce" /\ taskReq'[o].task = q.task /\ taskReq'[o].from = now.status
  <2>1. CASE q.from = now.status
    BY <1>1, <1>11, <2>1 DEF ToldInv
  <2>2. CASE q.from # now.status
    BY <1>5, <1>6, <1>9, <1>11, <2>2 DEF Board!WorthTelling
  <2> QED BY <2>1, <2>2
<1>12. ASSUME NEW t \in Tasks, NEW s \in Announced, task'[t].kept, task'[t].status = s
       PROVE  (task[t].kept /\ task[t].status = s) \/ Known(t, s) \/ Known(t, s)'
  BY <1>8, <1>11, <1>12 DEF Known, Board!ArrivalIsKnown
<1> QED BY <1>1, <1>9, <1>10, <1>12, TellingStays

(* The workflow: requests change, and what they have read is late.         *)
LEMMA WorkflowTells ==
  ASSUME BoardInv, ToldInv, NEW r \in TaskRequests,
         \/ \E columns \in SUBSET Optional : Board!WorkflowBegin(r, columns)
         \/ Board!WorkflowCount(r) \/ Board!WorkflowWrite(r)
  PROVE  ToldInv'
<1>1. /\ UNCHANGED <<task, settled>> /\ taskReq[r].pc \in {"idle", "count", "workflow"}
      /\ Board!Idle.pc = "idle" /\ Board!Idle \in BoardReq /\ taskReq \in [TaskRequests -> BoardReq]
      /\ \A o \in TaskRequests : taskReq[o].task \in Tasks
  BY BoardTypes, BoardConstants DEF Board!WorkflowBegin, Board!WorkflowCount, Board!WorkflowWrite,
     Board!history, BoardInv, BoardReq
<1>2. CASE Board!WorkflowWrite(r) /\ board = "kept"
  <2>1. Board!Overtake(r, Board!Idle, {"create", "update"})
    BY <1>2 DEF Board!WorkflowWrite
  <2>2. taskReq'[r] = Board!Idle /\ \A o \in TaskRequests \ {r} : GoesOnAlike(o)
    BY <1>1, <2>1, Overtaken DEF GoesOnAlike, BoardInv
  <2>3. TellsOrReads(r)
    BY <1>1, <2>2 DEF TellsOrReads
  <2> QED BY <1>1, <2>2, <2>3, TellingStays
<1>3. CASE ~(Board!WorkflowWrite(r) /\ board = "kept")
  <2>1. PICK q : taskReq' = [taskReq EXCEPT ![r] = q] /\ q.pc # "update"
    <3>1. CASE \E columns \in SUBSET Optional : Board!WorkflowBegin(r, columns)
      <4>1. PICK columns \in SUBSET Optional : Board!WorkflowBegin(r, columns)
        BY <3>1
      <4>2. [Board!Idle EXCEPT !.pc = "count", !.columns = columns].pc = "count"
        BY <1>1 DEF BoardReq
      <4> QED BY <4>1, <4>2 DEF Board!WorkflowBegin
    <3>2. CASE Board!WorkflowCount(r) \/ Board!WorkflowWrite(r)
      <4>1. [taskReq[r] EXCEPT !.pc = "workflow"].pc = "workflow"
        BY <1>1 DEF BoardReq
      <4> QED BY <1>1, <1>3, <3>2, <4>1
              DEF Board!WorkflowCount, Board!WorkflowWrite, Board!Finish
    <3> QED BY <3>1, <3>2
  <2> QED BY <1>1, <2>1, OneTells
<1> QED BY <1>2, <1>3

LEMMA RestartTells ==
  ASSUME BoardInv, ToldInv, Board!Restart
  PROVE  ToldInv'
<1>1. /\ task' = task /\ \A r \in TaskRequests : taskReq'[r] = Board!Idle
      /\ Board!Idle.pc = "idle" /\ settled = [t \in Tasks |-> settled[t]]
      /\ \A o \in TaskRequests : taskReq[o].task \in Tasks
  BY BoardTypes, BoardConstants DEF Board!Restart, BoardInv, BoardReq
<1>2. \A t \in Tasks : settled[t] \subseteq settled'[t]
  BY <1>1 DEF Board!Restart, Board!Settle
<1>3. ASSUME NEW r \in TaskRequests, taskReq[r].pc = "announce"
      PROVE  taskReq[r].from \in settled'[taskReq[r].task]
  BY <1>1, <1>3 DEF Board!Restart, Board!Settle
<1>4. \A r \in TaskRequests : TellsOrReads(r)
  BY <1>1, <1>3 DEF TellsOrReads
<1> QED BY <1>1, <1>2, <1>4, TellingStays

LEMMA ToldStays == BoardInv /\ ToldInv /\ [Board!Next]_boardVars => ToldInv'
<1> SUFFICES ASSUME BoardInv, ToldInv, [Board!Next]_boardVars PROVE ToldInv'
  OBVIOUS
<1>0. TaskBodies \subseteq Board!Fields /\ Board!Idle.pc = "idle"
      /\ Board!Idle.body \in Board!Fields
  BY BoardConstants DEF BoardReq
<1>1. ASSUME NEW r \in TaskRequests, NEW u \in People, NEW t \in Tasks, NEW body \in TaskBodies,
             Board!CreateBegin(r, u, t, body) \/ Board!UpdateBegin(r, u, t, body)
      PROVE  ToldInv'
  BY <1>0, <1>1, BeginsToTell DEF Board!CreateBegin, Board!UpdateBegin
<1>2. ASSUME NEW r \in TaskRequests, NEW u \in People, NEW t \in Tasks, Board!DeleteBegin(r, u, t)
      PROVE  ToldInv'
  BY <1>0, <1>2, BeginsToTell DEF Board!DeleteBegin
<1>3. ASSUME NEW r \in TaskRequests, Board!Announce(r) PROVE ToldInv'
  BY <1>0, <1>3, OneTells DEF Board!Announce, Board!Finish
<1>4. ASSUME NEW r \in TaskRequests, Board!WriteMisses(r) PROVE ToldInv'
  <2>1. /\ taskReq' = [taskReq EXCEPT ![r] = Board!Idle] /\ UNCHANGED <<task, settled>>
        /\ taskReq[r].pc # "announce"
    BY <1>4 DEF Board!WriteMisses, Board!Finish, Board!history
  <2> QED BY <1>0, <2>1, OneTells
<1>5. ASSUME NEW r \in TaskRequests, Board!DeleteWrite(r) PROVE ToldInv'
  <2>1. /\ taskReq' = [taskReq EXCEPT ![r] = Board!Idle] /\ settled' = settled
        /\ taskReq[r].pc # "announce"
    BY <1>5 DEF Board!DeleteWrite, Board!Finish, Board!history
  <2>2. \A t \in Tasks : task'[t].kept => task[t].kept /\ task'[t].status = task[t].status
    BY <1>5, TaskDeleted
  <2> QED BY <1>0, <2>1, <2>2, OneTells
<1>6. ASSUME UNCHANGED <<taskReq, settled>>,
             \A t \in Tasks : task'[t].kept => task[t].kept /\ task'[t].status = task[t].status
      PROVE  ToldInv'
  BY <1>6, TellingStays, BoardTypes DEF GoesOnAlike, BoardInv, BoardReq
<1>7. ASSUME NEW u \in People, Board!Join(u) \/ Board!DeleteAccount(u) PROVE ToldInv'
  <2>1. \A t \in Tasks : task'[t].kept => task[t].kept /\ task'[t].status = task[t].status
    <3>1. CASE Board!Join(u)
      BY <3>1 DEF Board!Join
    <3>2. CASE Board!DeleteAccount(u)
      <4>1. ASSUME NEW t \in Tasks
            PROVE  \E w : task'[t] = [task[t] EXCEPT !.assignedTo = w]
        BY <3>2 DEF Board!DeleteAccount
      <4>2. \A t \in Tasks : task[t] \in TaskRow
        BY BoardTypes DEF BoardInv
      <4> QED BY <4>1, <4>2 DEF TaskRow
    <3> QED BY <1>7, <3>1, <3>2
  <2> QED BY <1>6, <1>7, <2>1 DEF Board!Join, Board!DeleteAccount
<1>8. CASE Board!DeleteProject
  BY <1>6, <1>8, BoardGone DEF Board!DeleteProject, Board!history
<1>9. CASE UNCHANGED boardVars
  BY <1>6, <1>9 DEF boardVars
<1> QED BY <1>1, <1>2, <1>3, <1>4, <1>5, <1>7, <1>8, <1>9, CreationTells, UpdateTells,
           WorkflowTells, RestartTells DEF Board!Next, Board!Step

(* No arrival in an announced column is left untold: the room has heard of *)
(* it, or a request is about to tell, whichever of two overlapping moves   *)
(* takes itself for the one that moved the task.  With the fairness of the *)
(* handler this is why arrivals are announced (ArrivalsAreAnnounced).      *)
THEOREM NoArrivalIsLost == ProjectsSpec => []ArrivalsAreInHand
<1>1. ProjectsInit => BoardInv /\ ToldInv
  <2>1. Board!Init => ToldInv
    BY BoardConstants DEF Board!Init, ToldInv
  <2> QED BY <2>1, BoardStarts DEF ProjectsInit
<1>2. BoardInv /\ ToldInv /\ [ProjectsNext]_<<part, vars, boardVars, codeVars>>
        => BoardInv' /\ ToldInv'
  BY BoardMoves, ToldStays DEF ProjectsNext
<1>3. ToldInv => ArrivalsAreInHand
  BY DEF ToldInv, Known, ArrivalsAreInHand, Board!ArrivalsAreInHand
<1> QED BY <1>1, <1>2, <1>3, PTL DEF ProjectsSpec

(* A column is closed only over no task, and no task enters a closed one,  *)
(* unless a write overtook another.                                        *)
THEOREM ColumnsStayEnabled == ProjectsSpec => []ColumnsAreEnabled
<1>1. BoardInv => ColumnsAreEnabled
  BY DEF BoardInv, ColumnsInv, ColumnsAreEnabled, Board!ColumnsAreEnabled
<1> QED BY <1>1, BoardHolds, PTL

(* Nobody is given a task who was never on the team.                       *)
THEOREM AssigneesBelong == ProjectsSpec => []AssigneesWereMembers
<1>1. BoardInv => AssigneesWereMembers
  BY DEF BoardInv, HoldersInv, Member, AssigneesWereMembers, Board!AssigneesWereMembers
<1> QED BY <1>1, BoardHolds, PTL

(* A task is moved by somebody who held it once, or put back where it was  *)
(* read.                                                                   *)
THEOREM OnlyHoldersMove == ProjectsSpec => MoversHeldTheTask
<1>1. BoardInv /\ [ProjectsNext]_<<part, vars, boardVars, codeVars>> => [\A t \in Tasks : Mover(t)]_boardVars
  BY BoardMoves DEF ProjectsNext
<1>2. Board!vars = boardVars
  BY DEF Board!vars, boardVars
<1> QED BY <1>1, <1>2, BoardHolds, PTL
        DEF ProjectsSpec, MoversHeldTheTask, Board!MoversHeldTheTask, Mover, Board!vars, boardVars

(* The team keeps its invariant while the other parts move, and all three  *)
(* parts have their types.                                                 *)
THEOREM PartsAreTypeCorrect == ProjectsSpec => []TypesOK
<1>1. ProjectsInit => IInv
  BY InitIInv DEF ProjectsInit
<1>2. IInv /\ [ProjectsNext]_<<part, vars, boardVars, codeVars>> => IInv'
  BY NextKeepsIInv DEF ProjectsNext
<1>3. IInv /\ BoardInv /\ CodesInv => TypesOK
  BY DEF IInv, BoardInv, CodesInv, TypesOK
<1> QED BY <1>1, <1>2, <1>3, BoardHolds, CodesHold, PTL DEF ProjectsSpec
==============================================================================
