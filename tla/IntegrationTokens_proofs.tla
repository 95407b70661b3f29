------------------------ MODULE IntegrationTokens_proofs ------------------------
(***************************************************************************)
(* Proofs about MCTimers.  Of IntegrationTokens, for any users, sweeps,    *)
(* lookups and callbacks: types, the pairing of a row's two tokens,        *)
(* deleted accounts and revocation.  Of AgentStatus, for any agents and    *)
(* lifetime: the timer is set in time, and takes all that is overdue.      *)
(*                                                                         *)
(* The pairing is not inductive: what a refresh wrote came out of the row  *)
(* as it was when the refresh read it, and what a callback stores came out *)
(* of one grant.  ReadsAreInOrder and GrantsArePaired carry that over the  *)
(* steps in between.                                                       *)
(***************************************************************************)
EXTENDS MCTimers, WellFoundedInduction, TLAPS

(* The rows a refresh holds: those it is still to refresh and, once it has *)
(* chosen one, that one.                                                   *)
HeldIn(state) ==
  state.todo \cup (IF state.pc \in {"ask", "got", "fail"} THEN {state.read} ELSE {})

InOrder(read) == read.seen = "active" /\ read.refresh \in {NoRefresh, read.access}

ReadsAreInOrder == \A r \in Refreshers : \A read \in HeldIn(refresher[r]) : InOrder(read)

GrantsArePaired ==
  \A c \in Callbacks :
    callback[c].pc = "store" => callback[c].refresh \in {NoRefresh, callback[c].access}

IInv == TypeOK /\ TokensArePaired /\ DeletedKeepNoToken /\ ReadsAreInOrder /\ GrantsArePaired

----------------------------------------------------------------------------
(* The states of a refresh, one by one. *)
LEMMA RefresherFields ==
  ASSUME NEW s \in RefresherState
  PROVE  /\ s.pc \in {"idle", "next", "ask", "got", "fail"}
         /\ s.todo \in SUBSET Read
         /\ s.pc \in {"ask", "got", "fail"} => s.read \in Read
         /\ s.pc = "got" => s.new \in 0..MaxPairs
BY DEF RefresherState

LEMMA CallbackFields ==
  ASSUME NEW s \in CallbackState
  PROVE  /\ s.pc = "store" => s.user \in Users /\ s.access \in Pairs /\ s.refresh \in 0..MaxPairs
BY DEF CallbackState

LEMMA InitIInv == Init => IInv
<1> SUFFICES ASSUME Init PROVE IInv
  OBVIOUS
<1>1. NoRow \in Row
  BY BoundAssumption DEF NoRow, Row, Statuses, Ages, NoRefresh
<1>2. NoWork \in RefresherState /\ NoCallback \in CallbackState
  BY DEF NoWork, RefresherState, NoCallback, CallbackState
<1>3. TypeOK
  BY <1>1, <1>2, BoundAssumption DEF Init, TypeOK
<1>4. TokensArePaired /\ DeletedKeepNoToken
  BY DEF Init, TokensArePaired, DeletedKeepNoToken, NoRow
<1>5. ReadsAreInOrder /\ GrantsArePaired
  BY DEF Init, ReadsAreInOrder, GrantsArePaired, HeldIn, NoWork, NoCallback
<1> QED BY <1>3, <1>4, <1>5 DEF IInv

(* What a step must show for the rows, the accounts and the provider. *)
RowsInOrder ==
  /\ row' \in [Users -> Row] /\ live' \subseteq Users
  /\ TokensArePaired' /\ DeletedKeepNoToken'
ProviderInOrder ==
  /\ issued' \in 0..MaxPairs /\ valid' \subseteq 1..issued' /\ crashes' \in 0..MaxCrashes

LEMMA ProviderUnchanged ==
  ASSUME IInv, UNCHANGED <<issued, valid, crashes>>
  PROVE  ProviderInOrder
BY DEF IInv, TypeOK, ProviderInOrder

LEMMA RowsUnchanged ==
  ASSUME IInv, UNCHANGED <<row, live>>
  PROVE  RowsInOrder
BY DEF IInv, TypeOK, RowsInOrder, TokensArePaired, DeletedKeepNoToken

(* A step of refresh r: its new state is of the type and holds only rows   *)
(* in order.                                                               *)
LEMMA RefresherStep ==
  ASSUME IInv, RowsInOrder, ProviderInOrder, NEW r \in Refreshers, NEW new \in RefresherState,
         \A read \in HeldIn(new) : InOrder(read),
         refresher' = [refresher EXCEPT ![r] = new], callback' = callback
  PROVE  IInv'
<1>1. refresher \in [Refreshers -> RefresherState]
  BY DEF IInv, TypeOK
<1>2. refresher' \in [Refreshers -> RefresherState]
  BY <1>1
<1>3. \A s \in Refreshers : refresher'[s] = IF s = r THEN new ELSE refresher[s]
  BY <1>1
<1>4. ReadsAreInOrder'
  BY <1>3 DEF IInv, ReadsAreInOrder
<1>5. TypeOK' /\ GrantsArePaired'
  BY <1>2 DEF IInv, TypeOK, GrantsArePaired, RowsInOrder, ProviderInOrder
<1> QED BY <1>4, <1>5 DEF IInv, RowsInOrder

(* A step that no refresh notices. *)
LEMMA RefreshersUnchanged ==
  ASSUME IInv, RowsInOrder, ProviderInOrder, refresher' = refresher,
         callback' \in [Callbacks -> CallbackState], GrantsArePaired'
  PROVE  IInv'
<1>1. TypeOK' /\ ReadsAreInOrder'
  BY DEF IInv, TypeOK, ReadsAreInOrder, RowsInOrder, ProviderInOrder
<1> QED BY <1>1 DEF IInv, RowsInOrder

LEMMA CallbacksUnchanged ==
  ASSUME IInv, callback' = callback
  PROVE  callback' \in [Callbacks -> CallbackState] /\ GrantsArePaired'
BY DEF IInv, TypeOK, GrantsArePaired

(* One row changes, to one that is paired; where its account is gone it is *)
(* gone as well.                                                           *)
LEMMA OneRow ==
  ASSUME IInv, NEW u \in Users, NEW new \in Row, row' = [row EXCEPT ![u] = new], live' = live,
         new.refresh \in {NoRefresh, new.access},
         u \in live \/ new.status = "absent"
  PROVE  RowsInOrder
<1>1. row \in [Users -> Row] /\ live \subseteq Users
  BY DEF IInv, TypeOK
<1>2. \A v \in Users : row'[v] = IF v = u THEN new ELSE row[v]
  BY <1>1
<1>3. TokensArePaired'
  BY <1>2 DEF IInv, TokensArePaired
<1>4. DeletedKeepNoToken'
  BY <1>2 DEF IInv, DeletedKeepNoToken
<1> QED BY <1>1, <1>3, <1>4 DEF RowsInOrder

(* A row that is there has an account. *)
LEMMA RowsHaveAccounts ==
  ASSUME IInv, NEW u \in Users, row[u].status # "absent"
  PROVE  u \in live
BY DEF IInv, DeletedKeepNoToken

LEMMA ReadOfInOrder ==
  ASSUME IInv, NEW u \in Users, row[u].status = "active"
  PROVE  ReadOf(u) \in Read /\ InOrder(ReadOf(u))
<1>1. row[u] \in Row
  BY DEF IInv, TypeOK
<1> QED BY <1>1 DEF IInv, TokensArePaired, ReadOf, Read, Row, InOrder

----------------------------------------------------------------------------
LEMMA CallbackKeepsIInv ==
  ASSUME IInv, NEW c \in Callbacks,
         CallbackStore(c) \/ \E u \in Users : CallbackExchange(c, u)
  PROVE  IInv'
<1>1. callback \in [Callbacks -> CallbackState]
  BY DEF IInv, TypeOK
<1>2. CASE CallbackStore(c)
  <2> DEFINE u == callback[c].user
  <2>1. callback[c].pc = "store" /\ callback[c] \in CallbackState
    BY <1>1, <1>2 DEF CallbackStore
  <2>2. u \in Users /\ StoredRow(c) \in Row
    BY <2>1, CallbackFields DEF StoredRow, Row, Statuses, Ages, Pairs
  <2>3. StoredRow(c).refresh \in {NoRefresh, StoredRow(c).access}
    BY <2>1 DEF IInv, GrantsArePaired, StoredRow
  <2>4. ASSUME u \in live PROVE RowsInOrder
    <3>1. row' = [row EXCEPT ![u] = StoredRow(c)] /\ live' = live
      BY <1>2, <2>4 DEF CallbackStore
    <3> QED BY <2>2, <2>3, <2>4, <3>1, OneRow
  <2>5. ASSUME u \notin live PROVE RowsInOrder
    BY <1>2, <2>5, RowsUnchanged DEF CallbackStore
  <2>6. RowsInOrder
    BY <2>4, <2>5
  <2>7. callback' = [callback EXCEPT ![c] = NoCallback]
    BY <1>2 DEF CallbackStore
  <2>8. NoCallback \in CallbackState /\ NoCallback.pc # "store"
    BY DEF NoCallback, CallbackState
  <2>9. callback' \in [Callbacks -> CallbackState] /\ GrantsArePaired'
    BY <1>1, <2>7, <2>8 DEF IInv, GrantsArePaired
  <2> QED BY <1>2, <2>6, <2>9, ProviderUnchanged, RefreshersUnchanged DEF CallbackStore
<1>3. ASSUME NEW u \in Users, CallbackExchange(c, u) PROVE IInv'
  <2>1. issued \in 0..MaxPairs /\ issued < MaxPairs /\ MaxPairs \in Nat
    BY <1>3, BoundAssumption DEF CallbackExchange, IInv, TypeOK
  <2>2. issued + 1 \in Pairs /\ issued + 1 \in 0..MaxPairs
    BY <2>1 DEF Pairs
  <2>3. PICK offline \in BOOLEAN :
          /\ callback' = [callback EXCEPT ![c] =
               [pc |-> "store", user |-> u, access |-> issued + 1,
                refresh |-> IF offline THEN issued + 1 ELSE NoRefresh]]
          /\ valid' = IF offline THEN valid \cup {issued + 1} ELSE valid
    BY <1>3 DEF CallbackExchange
  <2> DEFINE refresh == IF offline THEN issued + 1 ELSE NoRefresh
             new == [pc |-> "store", user |-> u, access |-> issued + 1, refresh |-> refresh]
  <2>4. refresh \in 0..MaxPairs /\ refresh \in {NoRefresh, issued + 1}
    BY <2>1, <2>2 DEF NoRefresh
  <2>5. new \in CallbackState /\ new.refresh \in {NoRefresh, new.access}
    BY <2>2, <2>4 DEF CallbackState
  <2>6. callback' = [callback EXCEPT ![c] = new]
    BY <2>3
  <2> HIDE DEF new
  <2>7. callback' \in [Callbacks -> CallbackState] /\ GrantsArePaired'
    BY <1>1, <2>5, <2>6 DEF IInv, GrantsArePaired
  <2>8. valid' \subseteq 1..(issued + 1)
    BY <2>1, <2>3 DEF IInv, TypeOK
  <2>9. ProviderInOrder
    BY <1>3, <2>2, <2>8 DEF CallbackExchange, ProviderInOrder, IInv, TypeOK
  <2> QED BY <1>3, <2>7, <2>9, RowsUnchanged, RefreshersUnchanged DEF CallbackExchange
<1> QED BY <1>2, <1>3

LEMMA UserKeepsIInv ==
  ASSUME IInv, NEW u \in Users, Revoke(u) \/ AccountDeleted(u) \/ Age(u)
  PROVE  IInv'
<1>1. row \in [Users -> Row] /\ row[u] \in Row
  BY DEF IInv, TypeOK
<1>2. CASE Revoke(u)
  <2> DEFINE new == [row[u] EXCEPT !.status = "revoked"]
  <2>1. new \in Row /\ new.refresh \in {NoRefresh, new.access}
    BY <1>1 DEF Row, Statuses, IInv, TokensArePaired
  <2>2. row' = [row EXCEPT ![u] = new] /\ u \in live
    BY <1>2 DEF Revoke
  <2> HIDE DEF new
  <2>3. RowsInOrder
    BY <1>2, <2>1, <2>2, OneRow DEF Revoke
  <2> QED BY <1>2, <2>3, ProviderUnchanged, CallbacksUnchanged, RefreshersUnchanged DEF Revoke
<1>3. CASE AccountDeleted(u)
  <2>1. NoRow \in Row /\ NoRow.status = "absent" /\ NoRow.refresh = NoRefresh
    BY BoundAssumption DEF NoRow, Row, Statuses, Ages, NoRefresh
  <2>2. \A v \in Users : row'[v] = IF v = u THEN NoRow ELSE row[v]
    BY <1>1, <1>3 DEF AccountDeleted
  <2>3. TokensArePaired' /\ DeletedKeepNoToken'
    BY <1>3, <2>1, <2>2 DEF AccountDeleted, IInv, TokensArePaired, DeletedKeepNoToken
  <2>4. RowsInOrder
    BY <1>1, <1>3, <2>1, <2>3 DEF AccountDeleted, RowsInOrder, IInv, TypeOK
  <2> QED BY <1>3, <2>4, ProviderUnchanged, CallbacksUnchanged, RefreshersUnchanged
          DEF AccountDeleted
<1>4. CASE Age(u)
  <2> DEFINE age == IF row[u].age = "fresh" THEN "expiring" ELSE "expired"
             new == [row[u] EXCEPT !.age = age]
  <2>1. new \in Row /\ new.refresh \in {NoRefresh, new.access}
    BY <1>1 DEF Row, Ages, IInv, TokensArePaired
  <2>2. row' = [row EXCEPT ![u] = new] /\ u \in live
    BY <1>1, <1>4, RowsHaveAccounts DEF Age
  <2> HIDE DEF new
  <2>3. RowsInOrder
    BY <1>4, <2>1, <2>2, OneRow DEF Age
  <2> QED BY <1>4, <2>3, ProviderUnchanged, CallbacksUnchanged, RefreshersUnchanged DEF Age
<1> QED BY <1>2, <1>3, <1>4

(* Where a refresh begins: it reads active rows only. *)
LEMMA BeginKeepsIInv ==
  ASSUME IInv, NEW r \in Refreshers, SweepBegin(r) \/ \E u \in Users : LookupExpired(r, u)
  PROVE  IInv'
<1>1. PICK S \in SUBSET Users :
        /\ \A u \in S : row[u].status = "active"
        /\ refresher' = [refresher EXCEPT ![r] =
             [pc |-> "next", todo |-> {ReadOf(u) : u \in S}]]
  <2>1. CASE SweepBegin(r)
    BY <2>1 DEF SweepBegin, Due
  <2>2. ASSUME NEW u \in Users, LookupExpired(r, u)
        PROVE  /\ \A v \in {u} : row[v].status = "active"
               /\ refresher' = [refresher EXCEPT ![r] =
                    [pc |-> "next", todo |-> {ReadOf(v) : v \in {u}}]]
    <3>1. {ReadOf(v) : v \in {u}} = {ReadOf(u)}
      OBVIOUS
    <3> QED BY <2>2, <3>1 DEF LookupExpired
  <2> QED BY <2>1, <2>2
<1> DEFINE todo == {ReadOf(u) : u \in S}
           new == [pc |-> "next", todo |-> todo]
<1>2. \A read \in todo : read \in Read /\ InOrder(read)
  BY <1>1, ReadOfInOrder
<1>3. UNCHANGED <<row, live, callback, issued, valid, crashes>>
  BY DEF SweepBegin, LookupExpired
<1> HIDE DEF todo
<1>4. new \in RefresherState
  BY <1>2 DEF RefresherState
<1>5. \A read \in HeldIn(new) : InOrder(read)
  BY <1>2 DEF HeldIn
<1>6. refresher' = [refresher EXCEPT ![r] = new]
  BY <1>1 DEF todo
<1> HIDE DEF new
<1> QED BY <1>3, <1>4, <1>5, <1>6, RowsUnchanged, ProviderUnchanged, RefresherStep

(* The row a refresh updates: the user's, if it is still there. *)
LEMMA UpdateInOrder ==
  ASSUME IInv, NEW u \in Users, NEW new \in Row, new.refresh \in {NoRefresh, new.access},
         row' = (IF Updatable(row[u]) THEN [row EXCEPT ![u] = new] ELSE row), live' = live
  PROVE  RowsInOrder
<1>1. ASSUME Updatable(row[u]) PROVE RowsInOrder
  <2>1. u \in live
    BY <1>1, RowsHaveAccounts DEF Updatable
  <2>2. row' = [row EXCEPT ![u] = new]
    BY <1>1
  <2> QED BY <2>1, <2>2, OneRow
<1>2. ASSUME ~Updatable(row[u]) PROVE RowsInOrder
  BY <1>2, RowsUnchanged
<1> QED BY <1>1, <1>2

(* After a refresh, r goes on with what it still has to do. *)
LEMMA MoveOnStep ==
  ASSUME IInv, RowsInOrder, ProviderInOrder, NEW r \in Refreshers, MoveOn(r),
         callback' = callback
  PROVE  IInv'
<1> DEFINE pc == IF refresher[r].todo = {} THEN "idle" ELSE "next"
           new == [pc |-> pc, todo |-> refresher[r].todo]
<1>1. refresher[r] \in RefresherState
  BY DEF IInv, TypeOK
<1>2. refresher[r].todo \in SUBSET Read /\ pc \in {"idle", "next"}
  BY <1>1, RefresherFields
<1>3. new \in RefresherState
  BY <1>2 DEF RefresherState
<1>4. HeldIn(new) \subseteq HeldIn(refresher[r])
  BY <1>2 DEF HeldIn
<1>5. \A read \in HeldIn(new) : InOrder(read)
  BY <1>4 DEF IInv, ReadsAreInOrder
<1>6. refresher' = [refresher EXCEPT ![r] = new]
  BY DEF MoveOn
<1> HIDE DEF new
<1> QED BY <1>3, <1>5, <1>6, RefresherStep

LEMMA RefreshNextKeepsIInv ==
  ASSUME IInv, NEW r \in Refreshers, RefreshNext(r)
  PROVE  IInv'
<1>1. refresher[r] \in RefresherState
  BY DEF IInv, TypeOK
<1>2. refresher[r].todo \in SUBSET Read
  BY <1>1, RefresherFields
<1>3. PICK read \in refresher[r].todo :
        refresher' = [refresher EXCEPT ![r] =
          [pc |-> IF read.refresh = NoRefresh THEN "fail" ELSE "ask",
           todo |-> refresher[r].todo \ {read}, read |-> read]]
  BY DEF RefreshNext
<1> DEFINE pc == IF read.refresh = NoRefresh THEN "fail" ELSE "ask"
           new == [pc |-> pc, todo |-> refresher[r].todo \ {read}, read |-> read]
<1>4. new \in RefresherState
  BY <1>2, <1>3 DEF RefresherState
<1>5. HeldIn(new) \subseteq HeldIn(refresher[r])
  BY <1>3 DEF HeldIn
<1>6. \A held \in HeldIn(new) : InOrder(held)
  BY <1>5 DEF IInv, ReadsAreInOrder
<1>7. refresher' = [refresher EXCEPT ![r] = new]
  BY <1>3
<1> HIDE DEF new
<1> QED BY <1>4, <1>6, <1>7, RowsUnchanged, ProviderUnchanged, RefresherStep DEF RefreshNext

(* The provider's answers: the token asked with gives way to a new one, or *)
(* nothing is issued.                                                      *)
Rotated(old) ==
  issued < MaxPairs /\ issued' = issued + 1 /\ valid' = (valid \ {old}) \cup {issued + 1}

LEMMA ProviderRotated ==
  ASSUME IInv, NEW old, Rotated(old), crashes' = crashes
  PROVE  ProviderInOrder /\ issued + 1 \in 0..MaxPairs
<1>1. MaxPairs \in Nat /\ issued \in 0..MaxPairs /\ valid \subseteq 1..issued
  BY BoundAssumption DEF IInv, TypeOK
<1>2. issued + 1 \in 0..MaxPairs
  BY <1>1 DEF Rotated
<1>3. 1..issued \subseteq 1..(issued + 1) /\ issued + 1 \in 1..(issued + 1)
  BY <1>1
<1>4. valid' \subseteq 1..(issued + 1)
  BY <1>1, <1>3 DEF Rotated
<1> QED BY <1>2, <1>4 DEF IInv, TypeOK, ProviderInOrder, Rotated

LEMMA ProviderKeepsIInv ==
  ASSUME IInv, NEW r \in Refreshers, ProviderRotates(r) \/ ProviderKeeps(r) \/ ProviderFails(r)
  PROVE  IInv'
<1>1. /\ refresher[r] \in RefresherState /\ refresher[r].pc = "ask"
      /\ UNCHANGED <<row, live, callback, crashes>>
  BY DEF IInv, TypeOK, ProviderRotates, ProviderKeeps, ProviderFails
<1>2. refresher[r].todo \in SUBSET Read /\ refresher[r].read \in Read
  BY <1>1, RefresherFields
<1>3. RowsInOrder
  BY <1>1, RowsUnchanged
<1>4. ProviderInOrder
  <2>1. ASSUME UNCHANGED <<issued, valid>> PROVE ProviderInOrder
    BY <1>1, <2>1, ProviderUnchanged
  <2>2. ASSUME Rotated(refresher[r].read.refresh) PROVE ProviderInOrder
    BY <1>1, <2>2, ProviderRotated
  <2> QED BY <2>1, <2>2 DEF ProviderRotates, ProviderKeeps, ProviderFails, Rotated
<1>5. ASSUME NEW token \in 0..MaxPairs,
             refresher' = [refresher EXCEPT ![r] =
               [pc |-> "got", todo |-> refresher[r].todo, read |-> refresher[r].read,
                new |-> token]]
      PROVE  IInv'
  <2> DEFINE new == [pc |-> "got", todo |-> refresher[r].todo, read |-> refresher[r].read,
                     new |-> token]
  <2>1. new \in RefresherState
    BY <1>2 DEF RefresherState
  <2>2. HeldIn(new) = HeldIn(refresher[r])
    BY <1>1 DEF HeldIn
  <2>3. \A held \in HeldIn(new) : InOrder(held)
    BY <2>2 DEF IInv, ReadsAreInOrder
  <2>4. refresher' = [refresher EXCEPT ![r] = new]
    BY <1>5
  <2> HIDE DEF new
  <2> QED BY <1>1, <1>3, <1>4, <2>1, <2>3, <2>4, RefresherStep
<1>6. CASE ProviderRotates(r)
  <2>1. issued + 1 \in 0..MaxPairs
    BY <1>1, <1>6, ProviderRotated DEF ProviderRotates, Rotated
  <2> QED BY <1>5, <1>6, <2>1 DEF ProviderRotates
<1>7. CASE ProviderKeeps(r)
  <2>1. 0 \in 0..MaxPairs
    BY BoundAssumption
  <2> QED BY <1>5, <1>7, <2>1 DEF ProviderKeeps
<1>8. CASE ProviderFails(r)
  <2> DEFINE new == Answered(r, "fail")
  <2>1. new \in RefresherState
    BY <1>2 DEF RefresherState, Answered
  <2>2. HeldIn(new) = HeldIn(refresher[r])
    BY <1>1 DEF HeldIn, Answered
  <2>3. \A held \in HeldIn(new) : InOrder(held)
    BY <2>2 DEF IInv, ReadsAreInOrder
  <2>4. refresher' = [refresher EXCEPT ![r] = new]
    BY <1>8 DEF ProviderFails
  <2> HIDE DEF new
  <2> QED BY <1>1, <1>3, <1>4, <2>1, <2>3, <2>4, RefresherStep
<1> QED BY <1>6, <1>7, <1>8

(* The write of a refresh pairs what it read with itself, or puts a whole  *)
(* new pair in its place.                                                  *)
LEMMA WriteKeepsIInv ==
  ASSUME IInv, NEW r \in Refreshers, RefreshWrite(r) \/ MarkError(r)
  PROVE  IInv'
<1> DEFINE read == refresher[r].read
           u == read.user
<1>1. /\ refresher[r] \in RefresherState /\ refresher[r].pc \in {"got", "fail"}
      /\ UNCHANGED <<live, callback, issued, valid, crashes>> /\ MoveOn(r)
  BY DEF IInv, TypeOK, RefreshWrite, MarkError
<1>2. read \in Read /\ read \in HeldIn(refresher[r])
  BY <1>1, RefresherFields DEF HeldIn
<1>3. InOrder(read) /\ u \in Users
  BY <1>2 DEF IInv, ReadsAreInOrder, Read
<1>4. row[u] \in Row /\ row[u].refresh \in {NoRefresh, row[u].access}
  BY <1>3 DEF IInv, TypeOK, TokensArePaired
<1>5. RowsInOrder
  <2>1. ASSUME RefreshWrite(r) PROVE RowsInOrder
    <3> DEFINE token == refresher[r].new
               new == RefreshedRow(row[u], read, token)
    <3>1. token \in 0..MaxPairs
      BY <1>1, <2>1, RefresherFields DEF RefreshWrite
    <3>2. read.access \in 0..MaxPairs /\ read.refresh \in 0..MaxPairs
      BY <1>2 DEF Read
    <3>3. new \in Row
      BY <1>4, <3>1, <3>2 DEF RefreshedRow, Row, Statuses, Ages
    <3>4. new.refresh \in {NoRefresh, new.access}
      BY <1>3, <1>4 DEF RefreshedRow, InOrder, Row
    <3>5. row' = IF Updatable(row[u]) THEN [row EXCEPT ![u] = new] ELSE row
      BY <2>1 DEF RefreshWrite
    <3> HIDE DEF new
    <3> QED BY <1>1, <1>3, <3>3, <3>4, <3>5, UpdateInOrder
  <2>2. ASSUME MarkError(r) PROVE RowsInOrder
    <3> DEFINE new == [row[u] EXCEPT !.status = "error"]
    <3>1. new \in Row /\ new.refresh \in {NoRefresh, new.access}
      BY <1>4 DEF Row, Statuses
    <3>2. row' = IF Updatable(row[u]) THEN [row EXCEPT ![u] = new] ELSE row
      BY <2>2 DEF MarkError
    <3> HIDE DEF new
    <3> QED BY <1>1, <1>3, <3>1, <3>2, UpdateInOrder
  <2> QED BY <2>1, <2>2
<1> QED BY <1>1, <1>5, ProviderUnchanged, MoveOnStep

(* A stop forgets the refreshes and the callbacks. *)
LEMMA CrashKeepsIInv ==
  ASSUME IInv, Crash
  PROVE  IInv'
<1>1. NoWork \in RefresherState /\ NoCallback \in CallbackState
  BY DEF NoWork, RefresherState, NoCallback, CallbackState
<1>2. crashes' \in 0..MaxCrashes
  BY BoundAssumption DEF Crash, IInv, TypeOK
<1>3. TypeOK'
  BY <1>1, <1>2 DEF Crash, IInv, TypeOK
<1>4. TokensArePaired' /\ DeletedKeepNoToken'
  BY DEF Crash, IInv, TokensArePaired, DeletedKeepNoToken
<1>5. ReadsAreInOrder' /\ GrantsArePaired'
  BY DEF Crash, ReadsAreInOrder, GrantsArePaired, HeldIn, NoWork, NoCallback
<1> QED BY <1>3, <1>4, <1>5 DEF IInv

----------------------------------------------------------------------------
LEMMA NextKeepsIInv == IInv /\ [Next]_vars => IInv'
<1> SUFFICES ASSUME IInv, [Next]_vars PROVE IInv'
  OBVIOUS
<1>1. CASE \E c \in Callbacks : CallbackStore(c) \/ \E u \in Users : CallbackExchange(c, u)
  BY <1>1, CallbackKeepsIInv
<1>2. CASE \E u \in Users : Revoke(u) \/ AccountDeleted(u) \/ Age(u)
  BY <1>2, UserKeepsIInv
<1>3. CASE \/ \E s \in Sweeps : SweepBegin(s)
           \/ \E l \in Lookups, u \in Users : LookupExpired(l, u)
  BY <1>3, BeginKeepsIInv DEF Refreshers
<1>4. ASSUME NEW r \in Refreshers, RefreshStep(r) PROVE IInv'
  BY <1>4, RefreshNextKeepsIInv, ProviderKeepsIInv, WriteKeepsIInv DEF RefreshStep
<1>5. CASE Crash
  BY <1>5, CrashKeepsIInv
<1>6. CASE UNCHANGED vars
  BY <1>6 DEF vars, IInv, TypeOK, TokensArePaired, DeletedKeepNoToken, ReadsAreInOrder,
              GrantsArePaired
<1> QED BY <1>1, <1>2, <1>3, <1>4, <1>5, <1>6 DEF Next

THEOREM Invariance == Spec => []IInv
<1> QED BY InitIInv, NextKeepsIInv, PTL DEF Spec

(* The rows, the refreshes and the callbacks in flight stay of their       *)
(* types; the provider hands out no more tokens than are counted.          *)
THEOREM TypeCorrect == Spec => []TypeOK
<1>1. IInv => TypeOK
  BY DEF IInv
<1> QED BY <1>1, Invariance, PTL

(* However refreshes, reconnections and revocations of one row overlap,    *)
(* its access token and its refresh token are of one grant.                *)
THEOREM TokensStayPaired == Spec => []TokensArePaired
<1>1. IInv => TokensArePaired
  BY DEF IInv
<1> QED BY <1>1, Invariance, PTL

(* No refresh and no callback brings back the row of a deleted account.    *)
THEOREM DeletedStayWithoutToken == Spec => []DeletedKeepNoToken
<1>1. IInv => DeletedKeepNoToken
  BY DEF IInv
<1> QED BY <1>1, Invariance, PTL

(* A revoked row that no callback and no earlier read of it is under way   *)
(* for stays revoked.                                                      *)
LEMMA StepsKeepRevocation ==
  ASSUME IInv, [Next]_vars, NEW u \in Users, row[u].status = "revoked", ~HeldActive(u)
  PROVE  row'[u].status \in {"revoked", "absent"}
<1>1. row \in [Users -> Row]
  BY DEF IInv, TypeOK
<1>2. ASSUME NEW c \in Callbacks, CallbackStore(c) PROVE row'[u].status = "revoked"
  <2>1. callback[c].user # u
    BY <1>2 DEF CallbackStore, HeldActive
  <2> QED BY <1>1, <1>2, <2>1 DEF CallbackStore
<1>3. ASSUME NEW v \in Users, Revoke(v) \/ AccountDeleted(v) \/ Age(v)
      PROVE  row'[u].status \in {"revoked", "absent"}
  <2>1. CASE u = v
    BY <1>1, <1>3, <2>1 DEF Revoke, AccountDeleted, Age, NoRow, Row
  <2>2. CASE u # v
    BY <1>1, <1>3, <2>2 DEF Revoke, AccountDeleted, Age
  <2> QED BY <2>1, <2>2
<1>4. ASSUME NEW r \in Refreshers, RefreshWrite(r) \/ MarkError(r)
      PROVE  row'[u].status = "revoked"
  <2>1. refresher[r].pc \in {"got", "fail"}
    BY <1>4 DEF RefreshWrite, MarkError
  <2>2. InOrder(refresher[r].read)
    BY <2>1 DEF IInv, ReadsAreInOrder, HeldIn
  <2>3. refresher[r].read.user # u
    BY <2>1, <2>2 DEF HeldActive, InOrder
  <2> QED BY <1>1, <1>4, <2>3 DEF RefreshWrite, MarkError
<1>5. CASE row' = row
  BY <1>5
<1>6. \/ \E c \in Callbacks : CallbackStore(c)
      \/ \E v \in Users : Revoke(v) \/ AccountDeleted(v) \/ Age(v)
      \/ \E r \in Refreshers : RefreshWrite(r) \/ MarkError(r)
      \/ row' = row
  BY DEF Next, vars, CallbackExchange, SweepBegin, LookupExpired, RefreshStep, RefreshNext,
         ProviderRotates, ProviderKeeps, ProviderFails, Crash
<1> QED BY <1>2, <1>3, <1>4, <1>5, <1>6

(* Revoking lasts, for any number of sweeps, lookups and callbacks: only a *)
(* new connection, or a refresh that read the row while it was active,     *)
(* changes a revoked row.                                                  *)
THEOREM RevocationIsFinal == Spec => RevocationLasts
<1>1. IInv /\ [Next]_vars =>
        [\A u \in Users : row[u].status = "revoked" /\ ~HeldActive(u)
           => row'[u].status \in {"revoked", "absent"}]_vars
  BY StepsKeepRevocation
<1> QED BY <1>1, Invariance, PTL DEF Spec, RevocationLasts

-----------------------------------------------------------------------------
(* The timer of the participant list (AgentStatus).                        *)

(* What is shown as live is the last event of the agent, and one that no   *)
(* details outlast says "working".                                         *)
ShownIsLive ==
  \A a \in Agents : shown[a].from = "live" =>
    /\ shown[a].what = liveStatus[a]
    /\ ~Status!Details(loaded[a]) => liveStatus[a].status = "working"

DueBy(a) == timer < Status!Never /\ timer <= liveStatus[a].expiresAt

(* Once the effect has run, the timer fires no later than the first expiry *)
(* of those on the screen that it has not missed, and of those that would  *)
(* be shown if the list were drawn now.                                    *)
TimerIsSet ==
  ~unarmed =>
    /\ \A a \in Agents \ missed :
         shown[a].from = "live" /\ ~Status!Details(loaded[a]) => DueBy(a)
    /\ \A a \in Status!Pending(liveStatus, loaded, now) : DueBy(a)

StatusInv == Status!TypeOK /\ ShownIsLive /\ TimerIsSet

LEMMA Earliest ==
  ASSUME NEW S \in SUBSET Nat, S # {}
  PROVE  \E m \in S : \A x \in S : m <= x
<1>1. PICK m \in S : \A x \in S : ~(<<x, m>> \in OpToRel(<, Nat))
  BY WFMin, NatLessThanWellFounded, Zenon
<1>2. \A x \in S : ~(x < m)
  BY <1>1, Zenon DEF OpToRel
<1> QED BY <1>2

LEMMA StatusConstants ==
  /\ Agents # {} /\ Ttl \in Nat /\ MaxNow \in Nat /\ MaxReports \in Nat
  /\ Status!Never \in Nat /\ \A n \in 0..MaxNow + Ttl : n < Status!Never
  /\ Status!None \in Status!Status
  /\ Status!Idle \in [agent : Agents, event : Status!Status]
  /\ Status!NotLoading \in [Agents -> Status!Status]
<1>1. Agents # {} /\ Ttl \in Nat /\ MaxNow \in Nat /\ MaxReports \in Nat
  BY StatusAssumption DEF Status!Configured
<1>2. Status!Never \in Nat /\ \A n \in 0..MaxNow + Ttl : n < Status!Never
  BY <1>1 DEF Status!Never
<1>3. Status!None \in Status!Status
  BY <1>1 DEF Status!None, Status!Status
<1>4. [Status!None EXCEPT !.status = "offline"] \in Status!Status
  BY <1>1 DEF Status!None, Status!Status
<1>5. Status!Idle \in [agent : Agents, event : Status!Status]
  BY <1>1, <1>3 DEF Status!Idle
<1>6. Status!NotLoading \in [Agents -> Status!Status]
  BY <1>4 DEF Status!NotLoading
<1> QED BY <1>1, <1>2, <1>3, <1>5, <1>6

LEMMA StatusFields ==
  ASSUME NEW s \in Status!Status
  PROVE  /\ s.status \in {"none", "working", "offline"}
         /\ s.updatedAt \in 0..MaxNow /\ s.expiresAt \in 0..MaxNow + Ttl
BY DEF Status!Status

(* What the effect sets the timer to is due by every expiry still ahead. *)
LEMMA EffectIsInTime ==
  ASSUME Status!TypeOK
  PROVE  /\ Status!Earliest \in 0..Status!Never
         /\ \A a \in Status!Pending(liveStatus, loaded, now) :
              /\ Status!Earliest < Status!Never
              /\ Status!Earliest <= liveStatus[a].expiresAt
<1> DEFINE due == {liveStatus[a].expiresAt : a \in Status!Pending(liveStatus, loaded, now)}
<1>1. Status!Earliest =
        IF due = {} THEN Status!Never ELSE CHOOSE t \in due : \A x \in due : t <= x
  BY DEF Status!Earliest
<1>2. due \subseteq 0..MaxNow + Ttl
  BY StatusFields DEF Status!Pending, Status!TypeOK
<1>3. \A a \in Status!Pending(liveStatus, loaded, now) : liveStatus[a].expiresAt \in due
  OBVIOUS
<1> HIDE DEF due
<1>4. /\ Status!Earliest \in 0..Status!Never
      /\ \A n \in due : Status!Earliest < Status!Never /\ Status!Earliest <= n
  <2>1. CASE due = {}
    BY <1>1, <2>1, StatusConstants
  <2>2. CASE due # {}
    <3>1. due \in SUBSET Nat
      BY <1>2, StatusConstants
    <3>2. Status!Earliest \in due /\ \A n \in due : Status!Earliest <= n
      BY <1>1, <2>2, <3>1, Earliest
    <3> QED BY <1>2, <3>2, StatusConstants
  <2> QED BY <2>1, <2>2
<1> QED BY <1>3, <1>4

(* Rendering the list establishes all that is known of it. *)
LEMMA Rendering ==
  ASSUME StatusInv,
         NEW events \in [Agents -> Status!Status], NEW details \in [Agents -> Status!Status],
         NEW left \in 0..Status!Never, Status!Render(events, details, left)
  PROVE  /\ liveStatus' = events /\ loaded' = details /\ missed' = {}
         /\ shown' \in [Agents -> [from : {"live", "loaded"}, what : Status!Status]]
         /\ timer' \in 0..Status!Never
         /\ timer' = IF unarmed THEN Status!Earliest ELSE left
         /\ \A a \in Agents : shown'[a].from = "live" =>
              /\ shown'[a].what = events[a]
              /\ ~Status!Details(details[a]) =>
                   /\ a \in Status!Pending(events, details, now)
                   /\ events[a].status = "working" /\ events[a].expiresAt > now
         /\ ShownIsLive'
<1>1. /\ liveStatus' = events /\ loaded' = details /\ missed' = {}
      /\ shown' = [a \in Agents |-> Status!Resolved(events[a], details[a], now)]
      /\ timer' = IF unarmed THEN Status!Earliest ELSE left
  BY DEF Status!Render
<1>2. ASSUME NEW a \in Agents
      PROVE  Status!Resolved(events[a], details[a], now)
               \in [from : {"live", "loaded"}, what : Status!Status]
  BY DEF Status!Resolved
<1>3. timer' \in 0..Status!Never
  BY <1>1, EffectIsInTime DEF StatusInv
<1>4. ASSUME NEW a \in Agents, shown'[a].from = "live", ~Status!Details(details[a])
      PROVE  /\ a \in Status!Pending(events, details, now)
             /\ events[a].status = "working" /\ events[a].expiresAt > now
  <2>1. Status!Applies(events[a], details[a], now)
    BY <1>1, <1>4 DEF Status!Resolved
  <2>2. a \in Status!Pending(events, details, now) /\ events[a].expiresAt > now
    BY <1>4, <2>1 DEF Status!Applies, Status!Pending
  <2>3. events[a].status \in {"none", "working", "offline"}
    BY StatusFields
  <2>4. events[a].status # "none" /\ events[a].status # "offline"
    BY <1>4, <2>1 DEF Status!Applies, Status!Details
  <2> QED BY <2>2, <2>3, <2>4
<1>5. ASSUME NEW a \in Agents, shown'[a].from = "live"
      PROVE  shown'[a].what = events[a]
  BY <1>1, <1>5 DEF Status!Resolved
<1>6. ShownIsLive'
  BY <1>1, <1>4, <1>5 DEF ShownIsLive, Status!Details
<1> QED BY <1>1, <1>2, <1>3, <1>4, <1>5, <1>6

LEMMA StatusStart == Status!Init => StatusInv
<1> SUFFICES ASSUME Status!Init PROVE StatusInv
  OBVIOUS
<1>1. Status!TypeOK
  <2>1. /\ now = 0 /\ reported = 0 /\ timer = Status!Never
        /\ connected = TRUE /\ unarmed = FALSE /\ missed = {}
    BY DEF Status!Init
  <2>2. /\ store \in [Agents -> Status!Status] /\ liveStatus \in [Agents -> Status!Status]
        /\ loaded \in [Agents -> Status!Status] /\ fetched \in [Agents -> Status!Status]
        /\ rep \in [Reports -> [agent : Agents, event : Status!Status]]
        /\ shown \in [Agents -> [from : {"live", "loaded"}, what : Status!Status]]
    BY StatusConstants DEF Status!Init
  <2>3. 0 \in 0..MaxNow /\ 0 \in 0..MaxReports /\ Status!Never \in 0..Status!Never
    BY StatusConstants
  <2> QED BY <2>1, <2>2, <2>3 DEF Status!TypeOK
<1>2. \A a \in Agents : shown[a].from # "live" /\ liveStatus[a].status = "none"
  BY DEF Status!Init, Status!None
<1>3. ShownIsLive /\ TimerIsSet
  BY <1>2 DEF ShownIsLive, TimerIsSet, Status!Pending, Status!Details
<1> QED BY <1>1, <1>3 DEF StatusInv

(* What the rest of a step may write. *)
ServerTyped ==
  /\ connected \in BOOLEAN /\ reported \in 0..MaxReports
  /\ store \in [Agents -> Status!Status] /\ fetched \in [Agents -> Status!Status]
  /\ rep \in [Reports -> [agent : Agents, event : Status!Status]]

(* A step that draws the list, of which the effect has not run. *)
LEMMA DrawsList ==
  ASSUME StatusInv, ServerTyped', now' = now,
         NEW events \in [Agents -> Status!Status], NEW details \in [Agents -> Status!Status],
         NEW left \in 0..Status!Never, Status!Render(events, details, left), unarmed' = TRUE
  PROVE  StatusInv'
<1>1. /\ liveStatus' = events /\ loaded' = details /\ missed' = {}
      /\ shown' \in [Agents -> [from : {"live", "loaded"}, what : Status!Status]]
      /\ timer' \in 0..Status!Never /\ ShownIsLive'
  BY Rendering
<1>2. now' \in 0..MaxNow
  BY DEF StatusInv, Status!TypeOK
<1>3. Status!TypeOK'
  BY <1>1, <1>2 DEF Status!TypeOK, ServerTyped
<1>4. TimerIsSet'
  BY DEF TimerIsSet
<1> QED BY <1>1, <1>3, <1>4 DEF StatusInv

(* The same, with the timer as it was. *)
LEMMA DrawsAnew ==
  ASSUME StatusInv, ServerTyped', now' = now,
         NEW events \in [Agents -> Status!Status], NEW details \in [Agents -> Status!Status],
         Status!Draw(events, details)
  PROVE  StatusInv'
<1>1. timer \in 0..Status!Never
  BY DEF StatusInv, Status!TypeOK
<1> QED BY <1>1, DrawsList DEF Status!Draw

(* A step that leaves the browser alone; time may pass. *)
LEMMA KeepsList ==
  ASSUME StatusInv, ServerTyped', UNCHANGED <<liveStatus, loaded, shown, timer, unarmed, missed>>,
         now' \in 0..MaxNow, now <= now'
  PROVE  StatusInv'
<1>1. Status!TypeOK'
  BY DEF StatusInv, Status!TypeOK, ServerTyped
<1>2. ShownIsLive'
  BY DEF StatusInv, ShownIsLive, Status!Details
<1>3. Status!Pending(liveStatus, loaded, now)' \subseteq Status!Pending(liveStatus, loaded, now)
  <2>1. \A a \in Agents : liveStatus[a].expiresAt \in Nat
    BY StatusFields, StatusConstants DEF StatusInv, Status!TypeOK
  <2>2. now \in Nat /\ now' \in Nat
    BY StatusConstants DEF StatusInv, Status!TypeOK
  <2> QED BY <2>1, <2>2 DEF Status!Pending, Status!Details
<1>4. TimerIsSet'
  <2>1. \A a : DueBy(a)' <=> DueBy(a)
    BY DEF DueBy, Status!Never
  <2> QED BY <1>3, <2>1 DEF StatusInv, TimerIsSet, Status!Details
<1> QED BY <1>1, <1>2, <1>4 DEF StatusInv

(* The effect: what is on the screen is missed or still ahead. *)
LEMMA ArmKeepsStatus ==
  ASSUME StatusInv, Status!Arm
  PROVE  StatusInv'
<1>1. /\ UNCHANGED <<now, store, rep, connected, fetched, liveStatus, loaded, shown, reported>>
      /\ timer' = Status!Earliest /\ unarmed' = FALSE
      /\ missed' = {a \in Agents : Status!Overdue(a)}
  BY DEF Status!Arm
<1>2. /\ Status!Earliest \in 0..Status!Never
      /\ \A a \in Status!Pending(liveStatus, loaded, now) :
           Status!Earliest < Status!Never /\ Status!Earliest <= liveStatus[a].expiresAt
  BY EffectIsInTime DEF StatusInv
<1>3. Status!TypeOK'
  BY <1>1, <1>2 DEF StatusInv, Status!TypeOK
<1>4. ShownIsLive'
  BY <1>1 DEF StatusInv, ShownIsLive, Status!Details
<1>5. \A a \in Status!Pending(liveStatus, loaded, now) : DueBy(a)'
  BY <1>1, <1>2 DEF DueBy, Status!Never
<1>6. ASSUME NEW a \in Agents \ missed', shown[a].from = "live", ~Status!Details(loaded[a])
      PROVE  a \in Status!Pending(liveStatus, loaded, now)
  <2>1. shown[a].what = liveStatus[a] /\ liveStatus[a].status = "working"
    BY <1>6 DEF StatusInv, ShownIsLive
  <2>2. ~(liveStatus[a].expiresAt <= now)
    BY <1>1, <1>6, <2>1 DEF Status!Overdue, Status!Lapsed
  <2>3. liveStatus[a].expiresAt \in Nat /\ now \in Nat
    BY StatusFields, StatusConstants DEF StatusInv, Status!TypeOK
  <2> QED BY <1>6, <2>1, <2>2, <2>3 DEF Status!Pending, Status!Details
<1>7. TimerIsSet'
  BY <1>1, <1>5, <1>6 DEF TimerIsSet, Status!Pending, Status!Details
<1> QED BY <1>3, <1>4, <1>7 DEF StatusInv

(* A drawing on which the effect does not depend: the timer in use, or the *)
(* one that the effect before it has just set, serves what it shows.       *)
LEMMA RedrawKeepsStatus ==
  ASSUME StatusInv, Status!Redraw
  PROVE  StatusInv'
<1>1. /\ Status!Render(liveStatus, loaded, timer) /\ unarmed' = FALSE
      /\ UNCHANGED <<now, store, rep, connected, fetched, reported>>
  BY DEF Status!Redraw
<1>2. /\ liveStatus \in [Agents -> Status!Status] /\ loaded \in [Agents -> Status!Status]
      /\ timer \in 0..Status!Never
  BY DEF StatusInv, Status!TypeOK
<1>3. /\ liveStatus' = liveStatus /\ loaded' = loaded /\ missed' = {}
      /\ shown' \in [Agents -> [from : {"live", "loaded"}, what : Status!Status]]
      /\ timer' \in 0..Status!Never
      /\ timer' = IF unarmed THEN Status!Earliest ELSE timer
      /\ \A a \in Agents : shown'[a].from = "live" /\ ~Status!Details(loaded[a]) =>
           a \in Status!Pending(liveStatus, loaded, now)
      /\ ShownIsLive'
  BY <1>1, <1>2, Rendering
<1>4. Status!TypeOK'
  BY <1>1, <1>3 DEF StatusInv, Status!TypeOK
<1>5. ASSUME NEW a \in Status!Pending(liveStatus, loaded, now) PROVE DueBy(a)'
  <2>1. CASE unarmed
    BY <1>3, <2>1, EffectIsInTime DEF StatusInv, DueBy, Status!Never
  <2>2. CASE ~unarmed
    BY <1>3, <2>2 DEF StatusInv, TimerIsSet, DueBy, Status!Never
  <2> QED BY <2>1, <2>2
<1>6. TimerIsSet'
  BY <1>1, <1>3, <1>5 DEF TimerIsSet, Status!Pending, Status!Details
<1> QED BY <1>3, <1>4, <1>6 DEF StatusInv

(* What the steps of the server and of the socket write. *)
LEMMA ReportKeepsStatus ==
  ASSUME StatusInv, NEW r \in Reports, NEW a \in Agents, NEW s \in {"working", "offline"},
         NEW ttl \in 1..Ttl, Status!Report(r, a, s, ttl)
  PROVE  StatusInv'
<1> DEFINE event == [status |-> s, updatedAt |-> now,
                     expiresAt |-> IF s = "offline" THEN now ELSE now + ttl]
<1>1. now \in 0..MaxNow /\ store \in [Agents -> Status!Status]
      /\ rep \in [Reports -> [agent : Agents, event : Status!Status]]
      /\ connected \in BOOLEAN /\ fetched \in [Agents -> Status!Status]
      /\ reported \in 0..MaxReports
  BY DEF StatusInv, Status!TypeOK
<1>2. event \in Status!Status
  BY <1>1, StatusConstants DEF Status!Status
<1>3. /\ store' = [store EXCEPT ![a] = IF s = "offline" THEN Status!None ELSE event]
      /\ rep' = [rep EXCEPT ![r] = [agent |-> a, event |-> event]]
      /\ now' = now /\ connected' = connected /\ fetched' = fetched
      /\ reported < MaxReports /\ reported' = reported + 1
      /\ UNCHANGED <<liveStatus, loaded, shown, timer, unarmed, missed>>
  BY DEF Status!Report, Status!browser
<1> HIDE DEF event
<1>4. store' \in [Agents -> Status!Status]
  BY <1>1, <1>2, <1>3, StatusConstants
<1>5. rep' \in [Reports -> [agent : Agents, event : Status!Status]]
  BY <1>1, <1>2, <1>3
<1>6. ServerTyped' /\ now <= now'
  BY <1>1, <1>3, <1>4, <1>5, StatusConstants DEF ServerTyped
<1> QED BY <1>1, <1>3, <1>6, KeepsList

LEMMA ServerIsTyped ==
  ASSUME StatusInv
  PROVE  /\ ServerTyped /\ now \in 0..MaxNow /\ now \in Nat
         /\ liveStatus \in [Agents -> Status!Status] /\ loaded \in [Agents -> Status!Status]
         /\ [a \in Agents |-> Status!None] \in [Agents -> Status!Status]
         /\ timer \in 0..Status!Never /\ Status!Never \in 0..Status!Never
BY StatusConstants DEF StatusInv, Status!TypeOK, ServerTyped

LEMMA EmitKeepsStatus ==
  ASSUME StatusInv, NEW r \in Reports, Status!Emit(r) \/ Status!EmitFails(r)
  PROVE  StatusInv'
<1>1. /\ rep' = [rep EXCEPT ![r] = Status!Idle]
      /\ now' = now /\ store' = store /\ connected' = connected /\ fetched' = fetched
      /\ reported' = reported
  BY DEF Status!Emit, Status!EmitFails
<1>2. rep' \in [Reports -> [agent : Agents, event : Status!Status]]
  BY <1>1, ServerIsTyped, StatusConstants DEF ServerTyped
<1>3. ServerTyped' /\ now' \in 0..MaxNow /\ now <= now'
  BY <1>1, <1>2, ServerIsTyped DEF ServerTyped
<1>4. CASE UNCHANGED Status!browser
  BY <1>3, <1>4, KeepsList DEF Status!browser
<1>5. CASE Status!Draw([liveStatus EXCEPT ![rep[r].agent] = rep[r].event], loaded)
  <2>1. [liveStatus EXCEPT ![rep[r].agent] = rep[r].event] \in [Agents -> Status!Status]
    BY ServerIsTyped DEF ServerTyped
  <2> QED BY <1>1, <1>3, <1>5, <2>1, ServerIsTyped, DrawsAnew
<1> QED BY <1>4, <1>5 DEF Status!Emit, Status!EmitFails

LEMMA LoadKeepsStatus ==
  ASSUME StatusInv, Status!Load \/ Status!LoadArrives \/ Status!LoadFails
  PROVE  StatusInv'
<1>1. /\ now' = now /\ store' = store /\ rep' = rep /\ connected' = connected
      /\ reported' = reported
  BY DEF Status!Load, Status!LoadArrives, Status!LoadFails
<1>2. fetched' \in [Agents -> Status!Status]
  <2>1. CASE Status!Load
    BY <2>1, ServerIsTyped, StatusConstants DEF Status!Load, ServerTyped
  <2>2. CASE Status!LoadArrives \/ Status!LoadFails
    BY <2>2, StatusConstants DEF Status!LoadArrives, Status!LoadFails
  <2> QED BY <2>1, <2>2
<1>3. ServerTyped' /\ now' \in 0..MaxNow /\ now <= now'
  BY <1>1, <1>2, ServerIsTyped DEF ServerTyped
<1>4. CASE Status!Draw(liveStatus, fetched)
  BY <1>1, <1>3, <1>4, ServerIsTyped, DrawsAnew DEF ServerTyped
<1>5. CASE UNCHANGED Status!browser
  BY <1>3, <1>5, KeepsList DEF Status!browser
<1> QED BY <1>4, <1>5 DEF Status!Load, Status!LoadArrives, Status!LoadFails

LEMMA SocketKeepsStatus ==
  ASSUME StatusInv, Status!Disconnect \/ Status!Connect \/ Status!Tick \/ Status!Restart
  PROVE  StatusInv'
<1>1. CASE Status!Disconnect
  <2>1. ServerTyped' /\ now' = now
    BY <1>1, ServerIsTyped DEF Status!Disconnect, ServerTyped
  <2> QED BY <1>1, <2>1, ServerIsTyped, DrawsAnew DEF Status!Disconnect
<1>2. CASE Status!Connect
  <2>1. ServerTyped' /\ now' = now /\ now <= now'
    BY <1>2, ServerIsTyped DEF Status!Connect, ServerTyped
  <2> QED BY <1>2, <2>1, ServerIsTyped, KeepsList DEF Status!Connect, Status!browser
<1>3. CASE Status!Tick
  <2>1. now' \in 0..MaxNow /\ now <= now'
    BY <1>3, ServerIsTyped, StatusConstants DEF Status!Tick
  <2>2. ServerTyped'
    BY <1>3, ServerIsTyped DEF Status!Tick, ServerTyped
  <2> QED BY <1>3, <2>1, <2>2, KeepsList DEF Status!Tick, Status!browser
<1>4. CASE Status!Restart
  <2>1. rep' \in [Reports -> [agent : Agents, event : Status!Status]]
    BY <1>4, StatusConstants DEF Status!Restart
  <2>2. ServerTyped' /\ now' = now
    BY <1>4, <2>1, ServerIsTyped DEF Status!Restart, ServerTyped
  <2> QED BY <1>4, <2>2, ServerIsTyped, DrawsAnew DEF Status!Restart
<1> QED BY <1>1, <1>2, <1>3, <1>4

LEMMA TimerKeepsStatus ==
  ASSUME StatusInv, Status!TimerFires
  PROVE  StatusInv'
<1>1. /\ Status!Render(liveStatus, loaded, Status!Never) /\ unarmed' = TRUE
      /\ UNCHANGED <<now, store, rep, connected, fetched, reported>>
  BY DEF Status!TimerFires
<1>2. ServerTyped'
  BY <1>1, ServerIsTyped DEF ServerTyped
<1> QED BY <1>1, <1>2, ServerIsTyped, DrawsList

LEMMA StatusStep == StatusInv /\ [Status!Next]_statusVars => StatusInv'
<1> SUFFICES ASSUME StatusInv, [Status!Next]_statusVars PROVE StatusInv'
  OBVIOUS
<1>1. CASE \E r \in Reports, a \in Agents, s \in {"working", "offline"}, ttl \in 1..Ttl :
             Status!Report(r, a, s, ttl)
  BY <1>1, ReportKeepsStatus
<1>2. CASE \E r \in Reports : Status!Emit(r) \/ Status!EmitFails(r)
  BY <1>2, EmitKeepsStatus
<1>3. CASE Status!Load \/ Status!LoadArrives \/ Status!LoadFails
  BY <1>3, LoadKeepsStatus
<1>4. CASE Status!Disconnect \/ Status!Connect \/ Status!Tick \/ Status!Restart
  BY <1>4, SocketKeepsStatus
<1>5. CASE Status!TimerFires \/ Status!Arm \/ Status!Redraw
  BY <1>5, TimerKeepsStatus, ArmKeepsStatus, RedrawKeepsStatus
<1>6. CASE UNCHANGED statusVars
  <2>1. /\ UNCHANGED <<liveStatus, loaded, shown, timer, unarmed, missed>>
        /\ UNCHANGED <<now, connected, store, fetched, rep, reported>>
    BY <1>6 DEF statusVars
  <2>2. ServerTyped' /\ now <= now'
    BY <2>1, ServerIsTyped DEF ServerTyped
  <2> QED BY <2>1, <2>2, ServerIsTyped, KeepsList
<1> QED BY <1>1, <1>2, <1>3, <1>4, <1>5, <1>6 DEF Status!Next

LEMMA StatusHolds == TimersSpec => []StatusInv
<1>1. TimersInit => StatusInv
  BY StatusStart DEF TimersInit
<1>2. StatusInv /\ [TimersNext]_<<part, vars, statusVars>> => StatusInv'
  <2> SUFFICES ASSUME StatusInv, [TimersNext]_<<part, vars, statusVars>> PROVE StatusInv'
    OBVIOUS
  <2>1. [Status!Next]_statusVars
    BY DEF TimersNext
  <2> QED BY <2>1, StatusStep
<1> QED BY <1>1, <1>2, PTL DEF TimersSpec

(* The types of both parts of the composition. *)
THEOREM TimersTypeCorrect == TimersSpec => []TypesOK
<1>1. TimersInit => IInv
  BY InitIInv DEF TimersInit
<1>2. IInv /\ [TimersNext]_<<part, vars, statusVars>> => IInv'
  <2> SUFFICES ASSUME IInv, [TimersNext]_<<part, vars, statusVars>> PROVE IInv'
    OBVIOUS
  <2>1. [Next]_vars
    BY DEF TimersNext
  <2> QED BY <2>1, NextKeepsIInv
<1>3. IInv /\ StatusInv => TypesOK
  BY DEF IInv, StatusInv, TypesOK
<1> QED BY <1>1, <1>2, <1>3, StatusHolds, PTL DEF TimersSpec

(* For any agents, reports and times to live: once the effect of a drawing *)
(* has run, the timer is due by the time a status lapses on the screen     *)
(* that no details outlast, whatever events, loads, disconnections and     *)
(* firings came before, unless it lapsed before the effect ran.            *)
THEOREM TimerComesInTime == TimersSpec => []TimerIsInTime
<1>1. StatusInv => TimerIsInTime
  <2> SUFFICES ASSUME StatusInv, NEW a \in Agents,
                      Status!Overdue(a), ~unarmed, a \notin missed
               PROVE  timer < Status!Never /\ timer <= now
    BY DEF TimerIsInTime, Status!TimerIsInTime
  <2>1. shown[a].from = "live" /\ shown[a].what.expiresAt <= now /\ ~Status!Details(loaded[a])
    BY DEF Status!Overdue, Status!Lapsed
  <2>2. timer < Status!Never /\ timer <= liveStatus[a].expiresAt /\ shown[a].what = liveStatus[a]
    BY <2>1 DEF StatusInv, ShownIsLive, TimerIsSet, DueBy
  <2>3. timer \in Nat /\ now \in Nat /\ liveStatus[a].expiresAt \in Nat
    BY StatusConstants, StatusFields DEF StatusInv, Status!TypeOK
  <2> QED BY <2>1, <2>2, <2>3
<1> QED BY <1>1, StatusHolds, PTL

(* One firing takes every such status off the screen, not only the first   *)
(* and one that was missed too, and has the effect set the next timer.     *)
THEOREM FiringTakesAll == TimersSpec => FiringClears
<1>1. StatusInv /\ [TimersNext]_<<part, vars, statusVars>> =>
        [Status!TimerFires => unarmed' /\ \A a \in Agents : ~Status!Overdue(a)']_Status!vars
  <2> SUFFICES ASSUME StatusInv, Status!TimerFires
               PROVE  unarmed' /\ \A a \in Agents : ~Status!Overdue(a)'
    OBVIOUS
  <2>1. /\ now' = now /\ unarmed' = TRUE
        /\ Status!Render(liveStatus, loaded, Status!Never)
    BY DEF Status!TimerFires
  <2> SUFFICES ASSUME NEW a \in Agents PROVE ~Status!Overdue(a)'
    BY <2>1
  <2>2. /\ loaded' = loaded
        /\ shown'[a].from = "live" =>
             /\ shown'[a].what = liveStatus[a]
             /\ ~Status!Details(loaded[a]) => liveStatus[a].expiresAt > now
    BY <2>1, ServerIsTyped, Rendering
  <2>3. liveStatus[a].expiresAt \in Nat /\ now \in Nat
    BY ServerIsTyped, StatusFields, StatusConstants
  <2>4. ASSUME Status!Overdue(a)' PROVE FALSE
    <3>1. /\ shown'[a].from = "live" /\ shown'[a].what.expiresAt <= now
          /\ ~Status!Details(loaded[a])
      BY <2>1, <2>2, <2>4 DEF Status!Overdue, Status!Lapsed, Status!Details
    <3> QED BY <2>2, <2>3, <3>1
  <2> QED BY <2>4
<1> QED BY <1>1, StatusHolds, PTL DEF TimersSpec, FiringClears, Status!FiringClears

=============================================================================
