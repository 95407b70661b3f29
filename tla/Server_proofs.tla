------------------------------ MODULE Server_proofs ------------------------------
(***************************************************************************)
(* Proofs about what MCServer puts together: the mention quota, which it   *)
(* extends, for every number of senders and calls and every limit; the     *)
(* approvals, to which the theorems of Approvals_proofs are carried over;  *)
(* the memory entries; and the gate of the agent route.                    *)
(*                                                                         *)
(* What makes the limiter trustworthy in spite of its lost updates is one  *)
(* fact about every copy of the store, on disk or in a call's hands: it    *)
(* never counts more for a user today than was charged, and never shows a  *)
(* count past the threshold to a user whose warning of today was not sent, *)
(* is not due and was not cut off.  A call that has just counted to the    *)
(* threshold is excepted for its own user until its write has ended.       *)
(***************************************************************************)
EXTENDS MCServer, FiniteSetTheorems, TLAPS

RecordHonest(u, r, d, count, told) ==
  r # NoRecord =>
    /\ r.date <= d
    /\ r.date = d => /\ r.count <= count[u]
                     /\ r.count >= WarningThreshold => u \in told

(* A store that is honest about day d, when users were charged "count" and *)
(* the warnings of those in "told" are spoken for.                         *)
Honest(limits, d, count, told) ==
  \A u \in Users : RecordHonest(u, limits[u], d, count, told)

(* Sent, cut off by a stop, or still to be sent. *)
Told == warned \cup unwarned \cup {u \in Users : WarningDue(u)}

(* The user whom a call that is saving has counted to the threshold: the   *)
(* end of its write is what makes the warning due.                         *)
Reached(k) ==
  IF k.pc \in {"save", "write"} /\ Warns(k.limits[k.user].count) THEN {k.user} ELSE {}

StoresHonest ==
  /\ file.state = "whole" => Honest(file.limits, day, charged, Told)
  /\ \A c \in Calls : call[c].pc \in {"loaded", "save", "write"} =>
       Honest(call[c].limits, day, charged, Told \cup Reached(call[c]))
  /\ \A u \in Leavers : removal[u].pc \in {"save", "write"} =>
       Honest(removal[u].limits, day, charged, Told)

Inv == TypeOK /\ StoresHonest

(* What a step may do to the history without making an honest store a liar. *)
HistoryGrows ==
  \/ day' = day /\ Told \subseteq Told' /\ \A u \in Users : charged[u] <= charged'[u]
  \/ day' > day

----------------------------------------------------------------------------
LEMMA Numbers ==
  /\ DailyLimit \in Nat /\ WarningThreshold \in Nat /\ MaxCharges \in Nat
  /\ 1 <= WarningThreshold /\ WarningThreshold <= DailyLimit /\ DailyLimit <= MaxCharges
BY LimitAssumption, BoundAssumption

LEMMA EmptyHonest == Empty \in Limits /\ Honest(Empty, day, charged, Told)
<1>1. Empty \in Limits BY DEF Empty, Limits
<1>2. \A u \in Users : Empty[u] = NoRecord BY DEF Empty
<1>3. QED BY <1>1, <1>2 DEF Honest, RecordHonest

(* A file that parses holds a typed store; the other kinds hold nothing.   *)
LEMMA FileShape ==
  ASSUME TypeOK, file.state = "whole"
  PROVE  file.limits \in Limits
BY DEF TypeOK, File

LEMMA LoadedHonest ==
  ASSUME Inv
  PROVE  Loaded(file) \in Limits /\ Honest(Loaded(file), day, charged, Told)
BY EmptyHonest, FileShape DEF Inv, StoresHonest, Loaded

LEMMA CallShape ==
  ASSUME TypeOK, NEW c \in Calls
  PROVE  /\ call[c].pc \in {"idle", "called", "loaded", "save", "write", "warn"}
         /\ call[c].pc # "idle" => call[c].user \in Users
         /\ call[c].pc \in {"loaded", "save", "write"} =>
              /\ call[c] \in [pc: {"loaded", "save", "write"}, user: Users, limits: Limits]
              /\ call[c].limits \in Limits
         /\ call[c].pc = "warn" => call[c].date \in Days
<1>1. call[c] \in CallState BY DEF TypeOK
<1>2. QED BY <1>1 DEF CallState, IdleState

LEMMA RemovalShape ==
  ASSUME TypeOK, NEW u \in Leavers
  PROVE  removal[u].pc \in {"save", "write"} =>
           removal[u] \in Saving /\ removal[u].limits \in Limits
<1>1. removal[u] \in RemovalState BY DEF TypeOK
<1>2. QED BY <1>1 DEF RemovalState, IdleState, Saving

(* Histories only grow during a day, and a record of an earlier day says   *)
(* nothing about the new one: honest stores stay honest.                   *)
LEMMA HonestStays ==
  ASSUME TypeOK, TypeOK', HistoryGrows, NEW own,
         NEW limits \in Limits, Honest(limits, day, charged, Told \cup own)
  PROVE  Honest(limits, day', charged', Told' \cup own)
<1> SUFFICES ASSUME NEW u \in Users, limits[u] # NoRecord
             PROVE  /\ limits[u].date <= day'
                    /\ limits[u].date = day' =>
                         /\ limits[u].count <= charged'[u]
                         /\ limits[u].count >= WarningThreshold => u \in Told' \cup own
  BY DEF Honest, RecordHonest
<1>1. limits[u] \in Record BY DEF Limits
<1>2. limits[u].date \in Int /\ limits[u].count \in Int
  BY <1>1, LimitAssumption, BoundAssumption DEF Record, Days
<1>3. day \in Int /\ day' \in Int /\ charged[u] \in Int /\ charged'[u] \in Int
  BY BoundAssumption DEF TypeOK, Days
<1>4. /\ limits[u].date <= day
      /\ limits[u].date = day =>
           /\ limits[u].count <= charged[u]
           /\ limits[u].count >= WarningThreshold => u \in Told \cup own
  BY DEF Honest, RecordHonest
<1>5. CASE day' > day BY <1>2, <1>3, <1>4, <1>5
<1>6. CASE day' = day /\ Told \subseteq Told' /\ charged[u] <= charged'[u]
  <2>1. limits[u].count <= charged[u] => limits[u].count <= charged'[u]
    BY <1>2, <1>3, <1>6
  <2>2. u \in Told \cup own => u \in Told' \cup own BY <1>6
  <2>3. QED BY <2>1, <2>2, <1>4, <1>6
<1>7. QED BY <1>5, <1>6 DEF HistoryGrows

LEMMA HonestKept ==
  ASSUME TypeOK, TypeOK', HistoryGrows,
         NEW limits \in Limits, Honest(limits, day, charged, Told)
  PROVE  Honest(limits, day', charged', Told')
<1>1. Told \cup {} = Told /\ Told' \cup {} = Told' OBVIOUS
<1>2. Honest(limits, day, charged, Told \cup {}) BY <1>1
<1>3. Honest(limits, day', charged', Told' \cup {}) BY <1>2, HonestStays
<1>4. QED BY <1>1, <1>3

(* What an admitted mention counts: one more than an honest record of      *)
(* today showed, or one.                                                   *)
LEMMA TodayCount ==
  ASSUME TypeOK, NEW u \in Users, NEW r \in Record \cup {NoRecord}, NEW told,
         RecordHonest(u, r, day, charged, told)
  PROVE  LET t == Today(r, day)
         IN  /\ t \in Record /\ t.date = day
             /\ t.count <= charged[u]
             /\ t.count >= WarningThreshold => u \in told
<1>1. day \in Days /\ charged[u] \in Nat BY BoundAssumption DEF TypeOK
<1>2. CASE r = NoRecord \/ r.date # day
  <2>1. Today(r, day) = [date |-> day, count |-> 0] BY <1>2 DEF Today
  <2>2. QED BY <2>1, <1>1, Numbers DEF Record
<1>3. CASE r # NoRecord /\ r.date = day
  BY <1>1, <1>3 DEF Today, RecordHonest
<1>4. QED BY <1>2, <1>3

(* What a call that has read the store holds is honest without exception.  *)
LEMMA LoadedStore ==
  ASSUME Inv, NEW c \in Calls, call[c].pc = "loaded"
  PROVE  Honest(call[c].limits, day, charged, Told)
<1>1. Honest(call[c].limits, day, charged, Told \cup Reached(call[c])) BY DEF Inv, StoresHonest
<1>2. Told \cup Reached(call[c]) = Told BY DEF Reached
<1>3. QED BY <1>1, <1>2

(* The step that charges a mention, apart from the rest of the state.      *)
LEMMA AdmittedRecord ==
  ASSUME Inv, NEW c \in Calls, ConsumeAdmits(c)
  PROVE  LET u == call[c].user
             r == Today(call[c].limits[u], day)
         IN  /\ u \in Users
             /\ [r EXCEPT !.count = r.count + 1] \in Record
             /\ charged'[u] \in 0..MaxCharges
             /\ \A v \in Users : charged[v] <= charged'[v] /\ charged'[v] \in 0..MaxCharges
             /\ r.count + 1 <= charged'[u]
             /\ r.count + 1 >= WarningThreshold => u \in Told \/ Warns(r.count + 1)
<1> DEFINE u == call[c].user
           r == Today(call[c].limits[u], day)
<1>1. u \in Users /\ call[c].limits \in Limits /\ Honest(call[c].limits, day, charged, Told)
  BY CallShape, LoadedStore DEF Inv, ConsumeAdmits
<1>2. /\ r \in Record /\ r.date = day /\ r.count <= charged[u]
      /\ r.count >= WarningThreshold => u \in Told
  BY <1>1, TodayCount DEF Inv, Honest, Limits
<1>3. r.count \in Nat /\ r.count < DailyLimit
  <2>1. Admits(r.count) BY DEF ConsumeAdmits
  <2>2. r.count \in 0..DailyLimit BY <1>2 DEF Record
  <2> HIDE DEF u, r
  <2>3. QED BY <2>1, <2>2, Numbers DEF Admits
<1>4. charged' = [charged EXCEPT ![u] = IF @ < MaxCharges THEN @ + 1 ELSE @]
  BY DEF ConsumeAdmits
<1>5. charged \in [Users -> 0..MaxCharges]
  BY DEF Inv, TypeOK
<1> HIDE DEF u, r
<1>6. [r EXCEPT !.count = r.count + 1] \in Record
  <2>1. r.count + 1 \in 0..DailyLimit BY <1>3, Numbers
  <2>2. QED BY <2>1, <1>2 DEF Record
<1>7. \A v \in Users : charged[v] <= charged'[v] /\ charged'[v] \in 0..MaxCharges
  <2> TAKE v \in Users
  <2>1. charged[v] \in 0..MaxCharges /\ MaxCharges \in Nat
    BY <1>5, Numbers
  <2>2. charged'[v] = charged[v] \/ (charged[v] < MaxCharges /\ charged'[v] = charged[v] + 1)
    BY <1>1, <1>4, <1>5
  <2>3. QED BY <2>1, <2>2
<1>8. r.count + 1 <= charged'[u]
  <2>1. charged'[u] = IF charged[u] < MaxCharges THEN charged[u] + 1 ELSE charged[u]
    BY <1>1, <1>4, <1>5
  <2>2. charged[u] \in 0..MaxCharges BY <1>1, <1>5
  <2>3. QED BY <2>1, <2>2, <1>2, <1>3, Numbers
<1>9. r.count + 1 >= WarningThreshold => u \in Told \/ Warns(r.count + 1)
  <2>1. r.count + 1 >= WarningThreshold =>
          r.count >= WarningThreshold \/ r.count + 1 = WarningThreshold
    BY <1>3, Numbers
  <2>2. QED BY <2>1, <1>2 DEF Warns
<1>10. QED BY <1>1, <1>6, <1>7, <1>8, <1>9 DEF u, r

(* Every store in the next state is one of this state or one that is shown *)
(* to be honest: what remains to be proved of a step.                      *)
LEMMA StoresCarryOver ==
  ASSUME Inv, TypeOK', HistoryGrows,
         file' = file \/ file'.state # "whole"
           \/ Honest(file'.limits, day', charged', Told'),
         \A c \in Calls : \/ call'[c] = call[c]
                          \/ call'[c].pc \notin {"loaded", "save", "write"}
                          \/ Honest(call'[c].limits, day', charged', Told' \cup Reached(call'[c])),
         \A u \in Leavers : \/ removal'[u] = removal[u]
                            \/ removal'[u].pc \notin {"save", "write"}
                            \/ Honest(removal'[u].limits, day', charged', Told')
  PROVE  StoresHonest'
<1>1. file'.state = "whole" => Honest(file'.limits, day', charged', Told')
  <2>1. CASE file' = file /\ file.state = "whole"
    BY <2>1, HonestKept, FileShape DEF Inv, StoresHonest
  <2>2. QED BY <2>1
<1>2. ASSUME NEW c \in Calls, call'[c].pc \in {"loaded", "save", "write"}
      PROVE  Honest(call'[c].limits, day', charged', Told' \cup Reached(call'[c]))
  <2>1. CASE call'[c] = call[c]
    <3>1. /\ call[c].limits \in Limits
          /\ Honest(call[c].limits, day, charged, Told \cup Reached(call[c]))
      BY <1>2, <2>1, CallShape DEF Inv, StoresHonest
    <3>2. Honest(call[c].limits, day', charged', Told' \cup Reached(call[c]))
      BY <3>1, HonestStays DEF Inv
    <3>3. QED BY <2>1, <3>2
  <2>2. QED BY <1>2, <2>1
<1>3. ASSUME NEW u \in Leavers, removal'[u].pc \in {"save", "write"}
      PROVE  Honest(removal'[u].limits, day', charged', Told')
  <2>1. CASE removal'[u] = removal[u]
    BY <1>3, <2>1, HonestKept, RemovalShape DEF Inv, StoresHonest
  <2>2. QED BY <1>3, <2>1
<1>4. QED BY <1>1, <1>2, <1>3 DEF StoresHonest

(* Calls with a warning to send are still there unless it was sent or cut  *)
(* off: what a step must show of the day's history.                        *)
LEMMA QuietHistory ==
  ASSUME TypeOK, UNCHANGED <<day, charged, warned, unwarned>>,
         \A c \in Calls : call'[c] = call[c] \/ call[c].pc # "warn"
  PROVE  HistoryGrows /\ Told \subseteq Told'
<1>1. \A u \in Users : charged[u] <= charged'[u]
  BY BoundAssumption DEF TypeOK
<1>2. ASSUME NEW u \in Users, WarningDue(u) PROVE WarningDue(u)'
  <2>1. PICK c \in Calls : call[c].pc = "warn" /\ call[c].user = u /\ call[c].date = day
    BY <1>2 DEF WarningDue
  <2>2. QED BY <2>1 DEF WarningDue
<1>3. Told \subseteq Told' BY <1>2 DEF Told
<1>4. QED BY <1>1, <1>3 DEF HistoryGrows

(* Writing a store to the file leaves that store or something unreadable.  *)
LEMMA WrittenShape ==
  ASSUME NEW limits \in Limits, NEW f \in Written(file, limits)
  PROVE  f \in File /\ (f.state # "whole" \/ f.limits = limits)
BY DEF Written, File

(* Giving one user an honest record, or none, keeps a store honest.        *)
LEMMA ReplacedHonest ==
  ASSUME NEW limits \in Limits, NEW u \in Users, NEW r, NEW d, NEW count, NEW told,
         Honest(limits, d, count, told), RecordHonest(u, r, d, count, told)
  PROVE  Honest([limits EXCEPT ![u] = r], d, count, told)
<1> DEFINE new == [limits EXCEPT ![u] = r]
<1>1. \A v \in Users : new[v] = IF v = u THEN r ELSE limits[v] BY DEF Limits
<1>2. ASSUME NEW v \in Users PROVE RecordHonest(v, new[v], d, count, told)
  <2> HIDE DEF new
  <2>1. CASE v = u BY <1>1, <2>1
  <2>2. CASE v # u
    <3>1. new[v] = limits[v] BY <1>1, <2>2
    <3>2. QED BY <3>1 DEF Honest
  <2>3. QED BY <2>1, <2>2
<1>3. QED BY <1>2 DEF Honest

----------------------------------------------------------------------------
LEMMA ConsumeBeginStep ==
  ASSUME Inv, NEW c \in Calls, NEW u \in Users, ConsumeBegin(c, u)
  PROVE  Inv'
<1>1. [pc |-> "called", user |-> u] \in CallState BY DEF CallState
<1>2. call' \in [Calls -> CallState] BY <1>1 DEF Inv, TypeOK, ConsumeBegin
<1>3. TypeOK' BY <1>2 DEF Inv, TypeOK, ConsumeBegin
<1>4. \A d \in Calls : call'[d] = call[d] \/ call'[d].pc = "called"
  BY DEF Inv, TypeOK, ConsumeBegin
<1>5. UNCHANGED <<file, removal, day, charged, warned, unwarned>> BY DEF ConsumeBegin
<1>6. HistoryGrows
  <2>1. call[c].pc # "warn" BY DEF ConsumeBegin, Idle
  <2>2. \A d \in Calls : d # c => call'[d] = call[d] BY DEF Inv, TypeOK, ConsumeBegin
  <2>3. QED BY <1>5, <2>1, <2>2, QuietHistory DEF Inv
<1>7. StoresHonest'
  BY <1>3, <1>4, <1>5, <1>6, StoresCarryOver
<1>8. QED BY <1>3, <1>7 DEF Inv

LEMMA ConsumeLoadStep ==
  ASSUME Inv, NEW c \in Calls, ConsumeLoad(c)
  PROVE  Inv'
<1> DEFINE new == [pc |-> "loaded", user |-> call[c].user, limits |-> Loaded(file)]
<1>1. new \in CallState
  BY CallShape, LoadedHonest DEF Inv, ConsumeLoad, CallState
<1>2. call' = [call EXCEPT ![c] = new] BY DEF ConsumeLoad
<1>3. TypeOK' BY <1>1, <1>2 DEF Inv, TypeOK, ConsumeLoad
<1>4. UNCHANGED <<file, removal, day, charged, warned, unwarned>> BY DEF ConsumeLoad
<1>5. HistoryGrows
  <2>1. call[c].pc # "warn" BY DEF ConsumeLoad
  <2>2. \A d \in Calls : d # c => call'[d] = call[d] BY <1>2 DEF Inv, TypeOK
  <2>3. QED BY <1>4, <2>1, <2>2, QuietHistory DEF Inv
<1>6. Honest(new.limits, day', charged', Told' \cup Reached(new))
  <2>1. Honest(new.limits, day', charged', Told')
    BY <1>3, <1>5, LoadedHonest, HonestKept DEF Inv
  <2>2. Told' \cup Reached(new) = Told' BY DEF Reached
  <2>3. QED BY <2>1, <2>2
<1>7. \A d \in Calls : call'[d] = call[d]
                         \/ Honest(call'[d].limits, day', charged', Told' \cup Reached(call'[d]))
  <2>1. call'[c] = new BY <1>2 DEF Inv, TypeOK
  <2>2. \A d \in Calls : d # c => call'[d] = call[d] BY <1>2 DEF Inv, TypeOK
  <2> HIDE DEF new
  <2>3. QED BY <1>6, <2>1, <2>2
<1>8. StoresHonest'
  BY <1>3, <1>4, <1>5, <1>7, StoresCarryOver
<1>9. QED BY <1>3, <1>8 DEF Inv

LEMMA ConsumeRefusesStep ==
  ASSUME Inv, NEW c \in Calls, ConsumeRefuses(c)
  PROVE  Inv'
<1>1. Idle \in CallState BY DEF Idle, CallState, IdleState
<1>2. TypeOK' BY <1>1 DEF Inv, TypeOK, ConsumeRefuses
<1>3. UNCHANGED <<file, removal, day, charged, warned, unwarned>> BY DEF ConsumeRefuses
<1>4. \A d \in Calls : call'[d] = call[d] \/ (call[d].pc = "loaded" /\ call'[d].pc = "idle")
  BY DEF Inv, TypeOK, ConsumeRefuses, Idle
<1>5. HistoryGrows BY <1>3, <1>4, QuietHistory DEF Inv
<1>6. StoresHonest'
  BY <1>2, <1>3, <1>4, <1>5, StoresCarryOver
<1>7. QED BY <1>2, <1>6 DEF Inv

LEMMA ConsumeAdmitsStep ==
  ASSUME Inv, NEW c \in Calls, ConsumeAdmits(c)
  PROVE  Inv'
<1> DEFINE u == call[c].user
           r == Today(call[c].limits[u], day)
           added == [r EXCEPT !.count = r.count + 1]
           store == [call[c].limits EXCEPT ![u] = added]
           new == [pc |-> "save", user |-> u, limits |-> store]
<1>1. /\ u \in Users /\ added \in Record
      /\ \A v \in Users : charged[v] <= charged'[v] /\ charged'[v] \in 0..MaxCharges
      /\ r.count + 1 <= charged'[u]
      /\ r.count + 1 >= WarningThreshold => u \in Told \/ Warns(r.count + 1)
  BY AdmittedRecord
<1>2. call[c].limits \in Limits /\ Honest(call[c].limits, day, charged, Told)
  BY CallShape, LoadedStore DEF Inv, ConsumeAdmits
<1>3. store \in Limits /\ new \in CallState
  BY <1>1, <1>2 DEF Limits, CallState
<1>4. call' = [call EXCEPT ![c] = new] BY DEF ConsumeAdmits
<1>5. charged' \in [Users -> 0..MaxCharges]
  BY <1>1 DEF Inv, TypeOK, ConsumeAdmits
<1>6. UNCHANGED <<file, removal, day, warned, unwarned, crashes>> BY DEF ConsumeAdmits
<1>7. TypeOK' BY <1>1, <1>3, <1>4, <1>5, <1>6 DEF Inv, TypeOK
<1>8. HistoryGrows
  <2>1. \A v \in Users : WarningDue(v) => WarningDue(v)'
    <3>1. call[c].pc # "warn" BY DEF ConsumeAdmits
    <3>2. \A d \in Calls : d # c => call'[d] = call[d] BY <1>4 DEF Inv, TypeOK
    <3> HIDE DEF new
    <3>3. QED BY <1>6, <3>1, <3>2 DEF WarningDue
  <2>2. Told \subseteq Told' BY <1>6, <2>1 DEF Told
  <2>3. QED BY <1>1, <1>6, <2>2 DEF HistoryGrows
<1>9. Honest(store, day', charged', Told' \cup Reached(new))
  <2>1. Honest(call[c].limits, day', charged', Told' \cup Reached(new))
    <3>1. Honest(call[c].limits, day', charged', Told')
      BY <1>2, <1>7, <1>8, HonestKept DEF Inv
    <3> HIDE DEF new
    <3>2. QED BY <3>1 DEF Honest, RecordHonest
  <2>2. added.date = day /\ added.count = r.count + 1
    <3>1. r \in Record /\ r.date = day
      BY <1>1, <1>2, TodayCount DEF Inv, Honest, Limits
    <3>2. QED BY <3>1 DEF Record
  <2>3. added.count >= WarningThreshold => u \in Told' \cup Reached(new)
    <3>1. Told \subseteq Told'
      <4>1. ~(day' > day) BY <1>6, BoundAssumption DEF Inv, TypeOK, Days
      <4>2. QED BY <1>8, <4>1 DEF HistoryGrows
    <3>2. new.limits[u] = added BY <1>1, <1>2 DEF Limits
    <3>3. Warns(added.count) => u \in Reached(new) BY <3>2 DEF Reached
    <3>4. QED BY <1>1, <2>2, <3>1, <3>3
  <2>4. RecordHonest(u, added, day', charged', Told' \cup Reached(new))
    <3>1. day <= day BY BoundAssumption DEF Inv, TypeOK, Days
    <3>2. QED BY <1>1, <1>6, <2>2, <2>3, <3>1 DEF RecordHonest
  <2>5. QED BY <1>1, <1>2, <2>1, <2>4, ReplacedHonest
<1>10. \A d \in Calls : call'[d] = call[d]
                          \/ Honest(call'[d].limits, day', charged', Told' \cup Reached(call'[d]))
  <2>1. call'[c] = new /\ new.limits = store BY <1>4 DEF Inv, TypeOK
  <2>2. \A d \in Calls : d # c => call'[d] = call[d] BY <1>4 DEF Inv, TypeOK
  <2> HIDE DEF new, store
  <2>3. QED BY <1>9, <2>1, <2>2
<1>11. StoresHonest' BY <1>6, <1>7, <1>8, <1>10, StoresCarryOver
<1>12. QED BY <1>7, <1>11 DEF Inv

LEMMA ConsumeTruncateStep ==
  ASSUME Inv, NEW c \in Calls, ConsumeTruncate(c)
  PROVE  Inv'
<1> DEFINE new == [call[c] EXCEPT !.pc = "write"]
<1>1. /\ call[c] \in [pc: {"loaded", "save", "write"}, user: Users, limits: Limits]
      /\ call[c].pc = "save"
  BY CallShape DEF Inv, ConsumeTruncate
<1>2. /\ new \in CallState
      /\ new.pc = "write" /\ new.limits = call[c].limits /\ new.user = call[c].user
  BY <1>1 DEF CallState
<1>3. call' = [call EXCEPT ![c] = new] BY DEF ConsumeTruncate
<1>4. file' \in File /\ file'.state = "truncated" BY DEF ConsumeTruncate, File
<1>5. UNCHANGED <<removal, day, charged, warned, unwarned, crashes>> BY DEF ConsumeTruncate
<1>6. TypeOK' BY <1>2, <1>3, <1>4, <1>5 DEF Inv, TypeOK
<1>7. call'[c] = new /\ \A d \in Calls : d # c => call'[d] = call[d]
  BY <1>3 DEF Inv, TypeOK
<1> HIDE DEF new
<1>8. HistoryGrows
  <2>1. \A d \in Calls : call'[d] = call[d] \/ call[d].pc # "warn" BY <1>1, <1>7
  <2>2. QED BY <1>5, <2>1, QuietHistory DEF Inv
<1>9. Honest(new.limits, day', charged', Told' \cup Reached(new))
  <2>1. Honest(call[c].limits, day, charged, Told \cup Reached(call[c]))
    BY <1>1 DEF Inv, StoresHonest
  <2>2. Honest(call[c].limits, day', charged', Told' \cup Reached(call[c]))
    BY <1>1, <1>6, <1>8, <2>1, HonestStays DEF Inv
  <2>3. Reached(new) = Reached(call[c]) BY <1>1, <1>2 DEF Reached
  <2>4. QED BY <1>2, <2>2, <2>3
<1>10. StoresHonest'
  BY <1>4, <1>5, <1>6, <1>7, <1>8, <1>9, StoresCarryOver
<1>11. QED BY <1>6, <1>10 DEF Inv

(* The end of a write that stored the threshold makes the warning due, so  *)
(* that the store, now anybody's to read, is honest without exception.     *)
LEMMA ConsumeWriteStep ==
  ASSUME Inv, NEW c \in Calls, ConsumeWrite(c)
  PROVE  Inv'
<1> DEFINE u == call[c].user
           record == call[c].limits[u]
           new == IF Warns(record.count) THEN [pc |-> "warn", user |-> u, date |-> record.date]
                  ELSE Idle
<1>1. /\ call[c].limits \in Limits /\ u \in Users /\ call[c].pc = "write"
      /\ Honest(call[c].limits, day, charged, Told \cup Reached(call[c]))
  BY CallShape DEF Inv, StoresHonest, ConsumeWrite
<1>2. file' \in File /\ (file'.state # "whole" \/ file'.limits = call[c].limits)
  BY <1>1, WrittenShape DEF ConsumeWrite
<1>3. record \in Record \cup {NoRecord} BY <1>1 DEF Limits
<1>4. Warns(record.count) => record \in Record
  BY <1>3, Numbers DEF Warns, NoRecord
<1>5. new \in CallState BY <1>1, <1>4 DEF Idle, CallState, IdleState, Record
<1>6. UNCHANGED <<removal, day, charged, warned, unwarned, crashes>> BY DEF ConsumeWrite
<1>7. call' = [call EXCEPT ![c] = new] BY DEF ConsumeWrite
<1>8. TypeOK' BY <1>2, <1>5, <1>6, <1>7 DEF Inv, TypeOK
<1>9. call'[c] = new /\ \A d \in Calls : d # c => call'[d] = call[d]
  BY <1>7 DEF Inv, TypeOK
<1>10. HistoryGrows /\ Told \subseteq Told'
  <2> HIDE DEF new
  <2>1. \A d \in Calls : call'[d] = call[d] \/ call[d].pc # "warn" BY <1>1, <1>9
  <2>2. QED BY <1>6, <2>1, QuietHistory DEF Inv
<1>11. \A d \in Calls : call'[d] = call[d] \/ call'[d].pc \notin {"loaded", "save", "write"}
  <2>1. new.pc \notin {"loaded", "save", "write"} BY DEF Idle
  <2> HIDE DEF new
  <2>2. QED BY <1>9, <2>1
<1>12. Warns(record.count) /\ record.date = day => u \in Told'
  <2> SUFFICES ASSUME Warns(record.count), record.date = day PROVE u \in Told' OBVIOUS
  <2>1. call'[c] = [pc |-> "warn", user |-> u, date |-> record.date] BY <1>9
  <2>2. ASSUME NEW v \in Users, v = u PROVE v \in Told'
    <3>1. WarningDue(v)' BY <1>6, <2>1, <2>2 DEF WarningDue
    <3>2. QED BY <3>1 DEF Told
  <2>3. QED BY <1>1, <2>2
<1>13. Honest(call[c].limits, day', charged', Told')
  <2>1. ASSUME NEW v \in Users PROVE RecordHonest(v, call[c].limits[v], day', charged', Told')
    <3>1. RecordHonest(v, call[c].limits[v], day, charged, Told \cup Reached(call[c]))
      BY <1>1 DEF Honest
    <3>2. v \in Reached(call[c]) => v = u /\ Warns(record.count) BY DEF Reached
    <3>3. call[c].limits[v].date = day /\ v \in Told \cup Reached(call[c]) => v \in Told'
      BY <1>10, <1>12, <3>2
    <3> HIDE DEF u, record, new
    <3>4. QED BY <1>6, <3>1, <3>3 DEF RecordHonest
  <2>2. QED BY <2>1 DEF Honest
<1>14. StoresHonest'
  BY <1>2, <1>6, <1>8, <1>10, <1>11, <1>13, StoresCarryOver
<1>15. QED BY <1>8, <1>14 DEF Inv

(* A warning that is sent, or that is about yesterday, is due no more; the *)
(* one sent today is on record.                                            *)
LEMMA ConsumeWarnsStep ==
  ASSUME Inv, NEW c \in Calls, ConsumeWarns(c)
  PROVE  Inv'
<1>1. call[c].pc = "warn" /\ call[c].user \in Users
  BY CallShape DEF Inv, ConsumeWarns
<1>2. UNCHANGED <<file, removal, day, charged, unwarned, crashes>> BY DEF ConsumeWarns
<1>3. /\ warned \subseteq warned' /\ warned' \subseteq Users
      /\ call[c].date = day => call[c].user \in warned'
  BY <1>1 DEF ConsumeWarns, Inv, TypeOK
<1>4. call' = [call EXCEPT ![c] = Idle] /\ Idle \in CallState
  BY DEF ConsumeWarns, Idle, CallState, IdleState
<1>5. TypeOK' BY <1>2, <1>3, <1>4 DEF Inv, TypeOK
<1>6. call'[c] = Idle /\ \A d \in Calls : d # c => call'[d] = call[d]
  BY <1>4 DEF Inv, TypeOK
<1>7. HistoryGrows
  <2>1. ASSUME NEW u \in Users, WarningDue(u) PROVE WarningDue(u)' \/ u \in warned'
    <3>1. PICK d \in Calls : call[d].pc = "warn" /\ call[d].user = u /\ call[d].date = day
      BY <2>1 DEF WarningDue
    <3>2. CASE d = c BY <1>3, <3>1, <3>2
    <3>3. CASE d # c BY <1>2, <1>6, <3>1, <3>3 DEF WarningDue
    <3>4. QED BY <3>2, <3>3
  <2>2. Told \subseteq Told' BY <1>2, <1>3, <2>1 DEF Told
  <2>3. \A u \in Users : charged[u] <= charged'[u]
    BY <1>2, BoundAssumption DEF Inv, TypeOK
  <2>4. QED BY <1>2, <2>2, <2>3 DEF HistoryGrows
<1>8. \A d \in Calls : call'[d] = call[d] \/ call'[d].pc = "idle" BY <1>6 DEF Idle
<1>9. StoresHonest' BY <1>2, <1>5, <1>7, <1>8, StoresCarryOver
<1>10. QED BY <1>5, <1>9 DEF Inv

----------------------------------------------------------------------------
LEMMA SameHistory ==
  ASSUME TypeOK, UNCHANGED <<call, day, charged, warned, unwarned>>
  PROVE  HistoryGrows /\ Told' = Told
<1>1. HistoryGrows BY QuietHistory
<1>2. \A u \in Users : WarningDue(u)' <=> WarningDue(u) BY DEF WarningDue
<1>3. Told' = Told BY <1>2 DEF Told
<1>4. QED BY <1>1, <1>3

LEMMA RemoveLoadStep ==
  ASSUME Inv, NEW u \in Leavers, RemoveLoad(u)
  PROVE  Inv'
<1>1. UNCHANGED <<file, call, day, charged, warned, unwarned, crashes>> BY DEF RemoveLoad
<1>2. CASE file.state = "whole" /\ file.limits[u] # NoRecord
  <2> DEFINE store == [file.limits EXCEPT ![u] = NoRecord]
             new == [pc |-> "save", limits |-> store]
  <2>1. /\ file.limits \in Limits /\ u \in Users
        /\ Honest(file.limits, day, charged, Told)
    BY <1>2, FileShape, LeaverAssumption DEF Inv, StoresHonest
  <2>2. store \in Limits /\ new \in RemovalState
    BY <2>1 DEF Limits, RemovalState, Saving
  <2>3. removal' = [removal EXCEPT ![u] = new] BY <1>2 DEF RemoveLoad
  <2>4. TypeOK' BY <1>1, <2>2, <2>3 DEF Inv, TypeOK
  <2>5. Honest(store, day', charged', Told')
    <3>1. RecordHonest(u, NoRecord, day, charged, Told) BY DEF RecordHonest
    <3>2. Honest(store, day, charged, Told) BY <2>1, <3>1, ReplacedHonest
    <3> HIDE DEF store
    <3>3. Told' = Told BY <1>1, SameHistory DEF Inv
    <3>4. QED BY <1>1, <3>2, <3>3
  <2>6. \A v \in Leavers : removal'[v] = removal[v]
                             \/ Honest(removal'[v].limits, day', charged', Told')
    <3>1. removal'[u].limits = store BY <2>3 DEF Inv, TypeOK
    <3>2. \A v \in Leavers : v # u => removal'[v] = removal[v]
      BY <2>3 DEF Inv, TypeOK
    <3>3. QED BY <2>5, <3>1, <3>2
  <2>7. StoresHonest'
    BY <1>1, <2>4, <2>6, StoresCarryOver, SameHistory DEF Inv
  <2>8. QED BY <2>4, <2>7 DEF Inv
<1>3. CASE ~(file.state = "whole" /\ file.limits[u] # NoRecord)
  <2>1. removal' = [removal EXCEPT ![u] = [pc |-> "done"]] BY <1>3 DEF RemoveLoad
  <2>2. [pc |-> "done"] \in RemovalState BY DEF RemovalState
  <2>3. TypeOK' BY <1>1, <2>1, <2>2 DEF Inv, TypeOK
  <2>4. \A v \in Leavers : removal'[v] = removal[v] \/ removal'[v].pc = "done"
    BY <2>1 DEF Inv, TypeOK
  <2>5. StoresHonest'
    BY <1>1, <2>3, <2>4, StoresCarryOver, SameHistory DEF Inv
  <2>6. QED BY <2>3, <2>5 DEF Inv
<1>4. QED BY <1>2, <1>3

LEMMA RemoveTruncateStep ==
  ASSUME Inv, NEW u \in Leavers, RemoveTruncate(u)
  PROVE  Inv'
<1> DEFINE new == [removal[u] EXCEPT !.pc = "write"]
<1>1. removal[u] \in Saving /\ removal[u].pc = "save"
  BY RemovalShape DEF Inv, RemoveTruncate
<1>2. new \in RemovalState /\ new.limits = removal[u].limits
  BY <1>1 DEF Saving, RemovalState
<1>3. removal' = [removal EXCEPT ![u] = new] BY DEF RemoveTruncate
<1>4. file' \in File /\ file'.state = "truncated" BY DEF RemoveTruncate, File
<1>5. UNCHANGED <<call, day, charged, warned, unwarned, crashes>> BY DEF RemoveTruncate
<1>6. TypeOK' BY <1>2, <1>3, <1>4, <1>5 DEF Inv, TypeOK
<1>7. \A v \in Leavers : removal'[v] = removal[v]
                           \/ Honest(removal'[v].limits, day', charged', Told')
  <2>1. Honest(new.limits, day', charged', Told')
    BY <1>1, <1>2, <1>5, SameHistory DEF Inv, StoresHonest
  <2>2. removal'[u] = new BY <1>3 DEF Inv, TypeOK
  <2>3. \A v \in Leavers : v # u => removal'[v] = removal[v]
    BY <1>3 DEF Inv, TypeOK
  <2>4. QED BY <2>1, <2>2, <2>3
<1>8. StoresHonest'
  BY <1>4, <1>5, <1>6, <1>7, StoresCarryOver, SameHistory DEF Inv
<1>9. QED BY <1>6, <1>8 DEF Inv

LEMMA RemoveWriteStep ==
  ASSUME Inv, NEW u \in Leavers, RemoveWrite(u)
  PROVE  Inv'
<1>1. /\ removal[u].limits \in Limits
      /\ Honest(removal[u].limits, day, charged, Told)
  BY RemovalShape DEF Inv, StoresHonest, RemoveWrite
<1>2. file' \in File /\ (file'.state # "whole" \/ file'.limits = removal[u].limits)
  BY <1>1, WrittenShape DEF RemoveWrite
<1>3. [pc |-> "done"] \in RemovalState BY DEF RemovalState
<1>4. UNCHANGED <<call, day, charged, warned, unwarned, crashes>> BY DEF RemoveWrite
<1>5. TypeOK' BY <1>2, <1>3, <1>4 DEF Inv, TypeOK, RemoveWrite
<1>6. \A v \in Leavers : removal'[v] = removal[v] \/ removal'[v].pc = "done"
  BY DEF Inv, TypeOK, RemoveWrite
<1>7. file'.state # "whole" \/ Honest(file'.limits, day', charged', Told')
  <2>1. Told' = Told BY <1>4, SameHistory DEF Inv
  <2>2. QED BY <1>1, <1>2, <1>4, <2>1
<1>8. StoresHonest'
  BY <1>4, <1>5, <1>6, <1>7, StoresCarryOver, SameHistory DEF Inv
<1>9. QED BY <1>5, <1>8 DEF Inv

LEMMA NextDayStep ==
  ASSUME Inv, NextDay
  PROVE  Inv'
<1>1. UNCHANGED <<file, call, removal, crashes>> /\ day' = day + 1 BY DEF NextDay
<1>2. day \in Int /\ day' > day
  BY <1>1, BoundAssumption DEF Inv, TypeOK, Days
<1>3. TypeOK'
  <2>1. day' \in Days BY <1>1, BoundAssumption DEF Inv, TypeOK, Days, NextDay
  <2>2. charged' \in [Users -> 0..MaxCharges] /\ warned' \subseteq Users /\ unwarned' \subseteq Users
    BY Numbers DEF NextDay
  <2>3. QED BY <1>1, <2>1, <2>2 DEF Inv, TypeOK
<1>4. StoresHonest' BY <1>1, <1>2, <1>3, StoresCarryOver DEF HistoryGrows
<1>5. QED BY <1>3, <1>4 DEF Inv

LEMMA CrashStep ==
  ASSUME Inv, Crash
  PROVE  Inv'
<1>1. unwarned' = unwarned \cup {u \in Users : WarningDue(u)} BY DEF Crash
<1>2. UNCHANGED <<file, day, charged, warned>> BY DEF Crash
<1>3. crashes' \in 0..MaxCrashes BY BoundAssumption DEF Inv, TypeOK, Crash
<1>4. call' \in [Calls -> CallState] /\ \A c \in Calls : call'[c].pc = "idle"
  BY DEF Crash, Idle, CallState, IdleState
<1>5. /\ removal' \in [Leavers -> RemovalState]
      /\ \A u \in Leavers : removal'[u].pc \in {"idle", "done"}
  BY DEF Crash, Idle, RemovalState, IdleState
<1>6. TypeOK' BY <1>1, <1>2, <1>3, <1>4, <1>5 DEF Inv, TypeOK
<1>7. StoresHonest'
  <2>1. \A u \in Leavers : removal'[u].pc \notin {"save", "write"} BY <1>5
  <2>2. \A c \in Calls : call'[c].pc \notin {"loaded", "save", "write"} BY <1>4
  <2>3. HistoryGrows
    <3>1. Told \subseteq Told' BY <1>1, <1>2 DEF Told
    <3>2. \A u \in Users : charged[u] <= charged'[u]
      BY <1>2, BoundAssumption DEF Inv, TypeOK
    <3>3. QED BY <1>2, <3>1, <3>2 DEF HistoryGrows
  <2>4. QED BY <1>2, <1>6, <2>1, <2>2, <2>3, StoresCarryOver
<1>8. QED BY <1>6, <1>7 DEF Inv

----------------------------------------------------------------------------
LEMMA StartsHonest == Init => Inv
<1> SUFFICES ASSUME Init PROVE Inv OBVIOUS
<1>1. file \in File /\ file.state = "missing" BY DEF Init, File
<1>2. call \in [Calls -> CallState] /\ \A c \in Calls : call[c].pc = "idle"
  BY DEF Init, Idle, CallState, IdleState
<1>3. removal \in [Leavers -> RemovalState] /\ \A u \in Leavers : removal[u].pc = "idle"
  BY DEF Init, Idle, RemovalState, IdleState
<1>4. TypeOK BY <1>1, <1>2, <1>3, BoundAssumption, Numbers DEF Init, TypeOK, Days
<1>5. StoresHonest BY <1>1, <1>2, <1>3 DEF StoresHonest
<1>6. QED BY <1>4, <1>5 DEF Inv

LEMMA StaysHonest == Inv /\ [Next]_vars => Inv'
<1> SUFFICES ASSUME Inv, [Next]_vars PROVE Inv' OBVIOUS
<1>1. CASE Next
  BY <1>1, ConsumeBeginStep, ConsumeLoadStep, ConsumeRefusesStep, ConsumeAdmitsStep,
     ConsumeTruncateStep, ConsumeWriteStep, ConsumeWarnsStep, RemoveLoadStep, RemoveTruncateStep,
     RemoveWriteStep, NextDayStep, CrashStep DEF Next
<1>2. CASE UNCHANGED vars
  <2>1. HistoryGrows BY <1>2, QuietHistory DEF vars, Inv
  <2>2. TypeOK' BY <1>2 DEF vars, Inv, TypeOK
  <2>3. StoresHonest' BY <1>2, <2>1, <2>2, StoresCarryOver DEF vars
  <2>4. QED BY <2>2, <2>3 DEF Inv
<1>3. QED BY <1>1, <1>2

(* Every copy of the quota file, on disk or in the hands of a call, is     *)
(* honest in every reachable state.                                        *)
THEOREM StoresStayHonest == Spec => []Inv
BY StartsHonest, StaysHonest, PTL DEF Spec

(* The quota file, the calls on it and the histories keep their types.     *)
THEOREM TypeCorrect == Spec => []TypeOK
<1>1. Inv => TypeOK BY DEF Inv
<1>2. QED BY <1>1, StoresStayHonest, PTL

(* Which action a refusal is: the only way from "loaded" to idle while the *)
(* process stays up.                                                       *)
LEMMA RefusalIsRefuses ==
  ASSUME Inv, [Next]_vars, NEW c \in Calls, Refused(c)
  PROVE  ConsumeRefuses(c)
<1>1. call[c].pc = "loaded" /\ call'[c].pc = "idle" /\ crashes' = crashes
  BY DEF Refused, Idle
<1>2. call \in [Calls -> CallState] /\ crashes \in Int
  BY BoundAssumption DEF Inv, TypeOK
<1>3. ASSUME UNCHANGED call PROVE FALSE BY <1>1, <1>3
<1>4. ASSUME NEW d \in Calls, d # c, NEW v, call' = [call EXCEPT ![d] = v] PROVE FALSE
  BY <1>1, <1>2, <1>4
<1>5. ASSUME NEW d \in Calls, NEW u \in Users, ConsumeBegin(d, u) PROVE FALSE
  <2>1. CASE d = c BY <1>1, <1>5, <2>1 DEF ConsumeBegin, Idle
  <2>2. CASE d # c BY <1>4, <1>5, <2>2 DEF ConsumeBegin
  <2>3. QED BY <2>1, <2>2
<1>6. ASSUME NEW d \in Calls, ConsumeLoad(d) PROVE FALSE
  <2>1. CASE d = c BY <1>1, <1>6, <2>1 DEF ConsumeLoad
  <2>2. CASE d # c BY <1>4, <1>6, <2>2 DEF ConsumeLoad
  <2>3. QED BY <2>1, <2>2
<1>7. ASSUME NEW d \in Calls, d # c, ConsumeRefuses(d) PROVE FALSE
  BY <1>4, <1>7 DEF ConsumeRefuses
<1>8. ASSUME NEW d \in Calls, ConsumeAdmits(d) PROVE FALSE
  <2>1. PICK u, v : call' = [call EXCEPT ![d] = [pc |-> "save", user |-> u, limits |-> v]]
    BY <1>8 DEF ConsumeAdmits
  <2>2. CASE d = c BY <1>1, <1>2, <2>1, <2>2
  <2>3. CASE d # c BY <1>4, <2>1, <2>3
  <2>4. QED BY <2>2, <2>3
<1>9. ASSUME NEW d \in Calls, ConsumeTruncate(d) PROVE FALSE
  <2>1. CASE d = c BY <1>1, <1>9, <2>1 DEF ConsumeTruncate
  <2>2. CASE d # c BY <1>4, <1>9, <2>2 DEF ConsumeTruncate
  <2>3. QED BY <2>1, <2>2
<1>10. ASSUME NEW d \in Calls, ConsumeWrite(d) PROVE FALSE
  <2>1. CASE d = c BY <1>1, <1>10, <2>1 DEF ConsumeWrite
  <2>2. CASE d # c BY <1>4, <1>10, <2>2 DEF ConsumeWrite
  <2>3. QED BY <2>1, <2>2
<1>11. ASSUME NEW d \in Calls, ConsumeWarns(d) PROVE FALSE
  <2>1. CASE d = c BY <1>1, <1>11, <2>1 DEF ConsumeWarns
  <2>2. CASE d # c BY <1>4, <1>11, <2>2 DEF ConsumeWarns
  <2>3. QED BY <2>1, <2>2
<1>12. ASSUME Crash PROVE FALSE BY <1>1, <1>2, <1>12 DEF Crash
<1>13. ASSUME \/ \E u \in Leavers : RemoveLoad(u) \/ RemoveTruncate(u) \/ RemoveWrite(u)
              \/ NextDay
              \/ UNCHANGED vars
       PROVE FALSE
  BY <1>3, <1>13 DEF RemoveLoad, RemoveTruncate, RemoveWrite, NextDay, vars
<1>14. QED BY <1>5, <1>6, <1>7, <1>8, <1>9, <1>10, <1>11, <1>12, <1>13 DEF Next

(* What an honest store shows to a call that turns its sender away.        *)
LEMMA RefusalJustified ==
  ASSUME Inv, NEW c \in Calls, ConsumeRefuses(c)
  PROVE  charged[call[c].user] >= DailyLimit /\ call[c].user \in Told
<1> DEFINE u == call[c].user
           t == Today(call[c].limits[u], day)
<1>1. u \in Users /\ call[c].limits \in Limits
      /\ Honest(call[c].limits, day, charged, Told)
  BY CallShape, LoadedStore DEF Inv, ConsumeRefuses
<1>2. /\ t \in Record /\ t.count <= charged[u]
      /\ t.count >= WarningThreshold => u \in Told
  BY <1>1, TodayCount DEF Inv, Honest, Limits
<1>3. ~(t.count < DailyLimit) BY DEF ConsumeRefuses, Admits
<1>4. t.count \in Int /\ charged[u] \in Int
  BY <1>1, <1>2, Numbers DEF Record, Inv, TypeOK
<1>5. QED BY <1>2, <1>3, <1>4, Numbers

(* A mention is refused only on a day on which the sender was charged the  *)
(* full limit, whatever lost updates, truncated reads and crashes did.     *)
THEOREM NobodyDeniedEarly == Spec => NeverDeniedEarly
<1>1. Inv /\ [Next]_vars =>
        [\A c \in Calls : Refused(c) => charged[call[c].user] >= DailyLimit]_vars
  BY RefusalIsRefuses, RefusalJustified
<1>2. QED BY <1>1, StoresStayHonest, PTL DEF Spec, NeverDeniedEarly

(* Whoever is refused was sent the threshold warning earlier that day,     *)
(* unless it is yet to be sent or a stop of the process cut it off.        *)
THEOREM WarningComesFirst == Spec => WarnedBeforeDenied
<1>1. Inv /\ [Next]_vars =>
        [\A c \in Calls : Refused(c) =>
           \/ call[c].user \in warned \cup unwarned
           \/ WarningDue(call[c].user)]_vars
  BY RefusalIsRefuses, RefusalJustified DEF Told
<1>2. QED BY <1>1, StoresStayHonest, PTL DEF Spec, WarnedBeforeDenied

----------------------------------------------------------------------------
(* The approvals of the composition.                                       *)

ApprovalProofs == INSTANCE Approvals_proofs WITH
  Tasks <- {t1}, ProjectOf <- [t \in {t1} |-> p1], Calls <- ProxyCalls,
  Window <- ApprovalWindow,
  request <- v1, team <- v2, joined <- v3, live <- v4, call <- v5, decide <- v6,
  decisions <- v7, executed <- v8, now <- v9

(* Both instances are the same module with the same substitution. *)
LEMMA SameApprovals ==
  /\ Approval!Init <=> ApprovalProofs!Init
  /\ Approval!Next <=> ApprovalProofs!Next
BY DEF Approval!vars, Approval!Projects, Approval!Members, Approval!TaskOrNone,
       Approval!Verdicts, Approval!BodyStatuses, Approval!Time, Approval!Key,
       Approval!Idle, Approval!NoRow, Approval!Init, Approval!Matches,
       Approval!MatchingRequests, Approval!Latest, Approval!CallAuthorized,
       Approval!GateFindsApproval, Approval!GateFindsNone, Approval!NewRequest,
       Approval!CreateRequest, Approval!RunAction, Approval!CallFails,
       Approval!CanDecide, Approval!StillPending, Approval!ValidVerdict,
       Approval!DecideRead, Approval!DecidePasses, Approval!DecideRefused,
       Approval!DecideWrite, Approval!DecideFails, Approval!JoinTeam,
       Approval!MembershipLost, Approval!AccountDeleted, Approval!Tick, Approval!Next,
       ApprovalProofs!vars, ApprovalProofs!Projects, ApprovalProofs!Members,
       ApprovalProofs!TaskOrNone, ApprovalProofs!Verdicts, ApprovalProofs!BodyStatuses,
       ApprovalProofs!Time, ApprovalProofs!Key, ApprovalProofs!Idle,
       ApprovalProofs!NoRow, ApprovalProofs!Init, ApprovalProofs!Matches,
       ApprovalProofs!MatchingRequests, ApprovalProofs!Latest,
       ApprovalProofs!CallAuthorized, ApprovalProofs!GateFindsApproval,
       ApprovalProofs!GateFindsNone, ApprovalProofs!NewRequest,
       ApprovalProofs!CreateRequest, ApprovalProofs!RunAction, ApprovalProofs!CallFails,
       ApprovalProofs!CanDecide, ApprovalProofs!StillPending,
       ApprovalProofs!ValidVerdict, ApprovalProofs!DecideRead,
       ApprovalProofs!DecidePasses, ApprovalProofs!DecideRefused,
       ApprovalProofs!DecideWrite, ApprovalProofs!DecideFails, ApprovalProofs!JoinTeam,
       ApprovalProofs!MembershipLost, ApprovalProofs!AccountDeleted,
       ApprovalProofs!Tick, ApprovalProofs!Next

LEMMA ApprovalsConfigured == ApprovalProofs!Configured
BY ApprovalAssumption DEF Approval!Configured, ApprovalProofs!Configured

InApprovals == part = "approvals"

(* A behaviour of this part is one of Approvals. *)
LEMMA ApprovalsStart == ServerInit /\ InApprovals => ApprovalProofs!Init
BY SameApprovals DEF ServerInit, InApprovals

LEMMA ApprovalsStep ==
  [ServerNext]_<<part, vars, cells>> =>
    /\ InApprovals => InApprovals' /\ [ApprovalProofs!Next]_(ApprovalProofs!vars)
    /\ ~InApprovals => ~InApprovals'
BY SameApprovals DEF ServerNext, InApprovals, cells, ApprovalProofs!vars

(* Nothing is executed at a provider that was not approved for this agent, *)
(* action and task, in time.                                               *)
THEOREM ServerExecutesApproved == ServerSpec => []ExecutedWereApproved
<1>1. ApprovalProofs!Spec => []ApprovalProofs!ExecutedWereApproved
  BY ApprovalsConfigured, ApprovalProofs!ApprovalPrecedesExecution
<1>2. ApprovalProofs!ExecutedWereApproved => ExecutedWereApproved
  BY DEF ApprovalProofs!ExecutedWereApproved, Approval!ExecutedWereApproved,
         ExecutedWereApproved
<1>3. ~InApprovals => ExecutedWereApproved
  BY DEF InApprovals, ExecutedWereApproved
<1> QED BY <1>1, <1>2, <1>3, ApprovalsStart, ApprovalsStep, PTL
        DEF ServerSpec, ApprovalProofs!Spec

(* Who is no admin decides only for projects of their own.                 *)
THEOREM ServerAuthorityIsScoped == ServerSpec => []ScopedAuthority
<1>1. ApprovalProofs!Spec => []ApprovalProofs!ScopedAuthority
  BY ApprovalsConfigured, ApprovalProofs!AuthorityFollowsTheTask
<1>2. ApprovalProofs!ScopedAuthority => ScopedAuthority
  BY DEF ApprovalProofs!ScopedAuthority, Approval!ScopedAuthority, ScopedAuthority
<1>3. ~InApprovals => ScopedAuthority
  BY DEF InApprovals, ScopedAuthority
<1> QED BY <1>1, <1>2, <1>3, ApprovalsStart, ApprovalsStep, PTL
        DEF ServerSpec, ApprovalProofs!Spec

----------------------------------------------------------------------------
(* The memory entries of the composition: v1 is the table of entries and   *)
(* v5 the requests in flight.                                              *)

(* A date in the payload is the one in the column.                         *)
DatesAgree(row) == row.validUntil # None => row.validUntil = row.expiresAt

EditState ==
  [pc: {"idle", "access", "write"}, op: {"none", "create", "patch", "archive", "delete"},
   who: Humans, entry: Entries, read: Memory!Rows, body: MemoryBodies]

(* The row a creation stores is sound, and what is under way is something. *)
Fits(q) ==
  /\ q.op = "create" => DatesAgree(q.read)
  /\ q.op = "none" => q.pc = "idle"

(* Both dates agree in every row, and in the row a creation is about to    *)
(* store.  What an edit has read does not matter: it writes both or none.  *)
MemoryInv ==
  /\ Memory!TypeOK
  /\ \A e \in Entries : DatesAgree(v1[e])
  /\ \A r \in Edits : Fits(v5[r])

LEMMA RowKinds ==
  /\ Memory!NoRow \in Memory!Rows /\ DatesAgree(Memory!NoRow)
  /\ Memory!Idle \in EditState /\ Fits(Memory!Idle) /\ Memory!Idle.op = "none"
  /\ MemoryBodies \subseteq Memory!Body /\ Memory!NoBody \in MemoryBodies
BY MemoryAssumption DEF Memory!NoRow, Memory!Rows, DatesAgree, Memory!Idle, EditState, Fits,
   Memory!Configured, Memory!NoBody

LEMMA MemoryStarts == Memory!Init => MemoryInv
BY RowKinds DEF Memory!Init, MemoryInv, Memory!TypeOK, EditState, Fits

(* The write of an edit keeps the dates in agreement.                      *)
LEMMA PatchedAgrees ==
  ASSUME NEW row \in Memory!Rows, NEW read \in Memory!Rows, NEW body \in Memory!Body,
         DatesAgree(row)
  PROVE  /\ Memory!Patched(row, read, body) \in Memory!Rows
         /\ DatesAgree(Memory!Patched(row, read, body))
<1> DEFINE date == Memory!ValidUntil(read, body)
           until == IF Memory!WritesPayload(body) THEN date ELSE row.validUntil
           expires == IF body.expires # Absent \/ (body.touches /\ date # None)
                      THEN date ELSE row.expiresAt
<1>1. date \in Dates \cup {None}
  BY DEF Memory!ValidUntil, Memory!Body, Memory!Rows
<1>2. until \in Dates \cup {None} /\ expires \in Dates \cup {None}
  BY <1>1 DEF Memory!Rows
<1>3. until # None => until = expires
  BY DEF Memory!WritesPayload, DatesAgree
<1>4. Memory!Patched(row, read, body) =
        [row EXCEPT !.validUntil = until, !.expiresAt = expires]
  BY DEF Memory!Patched
<1> HIDE DEF until, expires
<1>5. [row EXCEPT !.validUntil = until, !.expiresAt = expires] \in Memory!Rows
  BY <1>2 DEF Memory!Rows
<1>6. ASSUME NEW new, new = [row EXCEPT !.validUntil = until, !.expiresAt = expires]
      PROVE  new.validUntil = until /\ new.expiresAt = expires
  BY <1>6 DEF Memory!Rows
<1> QED BY <1>3, <1>4, <1>5, <1>6 DEF DatesAgree

LEMMA MemoryTypes ==
  ASSUME MemoryInv
  PROVE  /\ v1 \in [Entries -> Memory!Rows] /\ v5 \in [Edits -> EditState]
         /\ \A r \in Edits : v5[r].entry \in Entries /\ v5[r].read \in Memory!Rows
                             /\ v5[r].body \in Memory!Body
BY RowKinds DEF MemoryInv, Memory!TypeOK, EditState

(* One request changes, and at most one row, to one whose dates agree.     *)
LEMMA MemoryMoves ==
  ASSUME MemoryInv, NEW e \in Entries, NEW row \in Memory!Rows, DatesAgree(row),
         v1' = v1 \/ v1' = [v1 EXCEPT ![e] = row],
         v2' \in {"kept", "gone"}, v3' \subseteq Humans, v4' \subseteq Humans,
         v5' \in [Edits -> EditState],
         \A r \in Edits : v5'[r] = v5[r] \/ Fits(v5'[r])
  PROVE  MemoryInv'
<1>1. v1' \in [Entries -> Memory!Rows] /\ \A x \in Entries : DatesAgree(v1'[x])
  BY DEF MemoryInv, Memory!TypeOK
<1>2. Memory!TypeOK'
  BY <1>1 DEF MemoryInv, Memory!TypeOK, EditState
<1>3. \A r \in Edits : Fits(v5'[r])
  BY DEF MemoryInv
<1> QED BY <1>1, <1>2, <1>3 DEF MemoryInv, DatesAgree, Fits

LEMMA EditDone ==
  ASSUME MemoryInv, NEW r \in Edits, Memory!Done(r)
  PROVE  /\ v5' \in [Edits -> EditState]
         /\ \A x \in Edits : v5'[x] = v5[x] \/ Fits(v5'[x])
<1>1. v5' = [v5 EXCEPT ![r] = Memory!Idle]
  BY DEF Memory!Done
<1> QED BY <1>1, RowKinds, MemoryTypes

LEMMA CreateBeginStep ==
  ASSUME MemoryInv, NEW r \in Edits, NEW u \in Humans, NEW e \in Entries,
         NEW body \in MemoryBodies, NEW scope \in {"GLOBAL", "PROJECT"},
         NEW isDate \in BOOLEAN, Memory!CreateBegin(r, u, e, body, scope, isDate)
  PROVE  MemoryInv'
<1> DEFINE date == Memory!Expiry(body, isDate)
           read == [status |-> "kept", scope |-> scope, archived |-> FALSE, createdBy |-> u,
                    validUntil |-> date, expiresAt |-> date]
           new == [pc |-> IF scope = "GLOBAL" THEN "write" ELSE "access",
                   op |-> "create", who |-> u, entry |-> e, body |-> Memory!NoBody,
                   read |-> read]
<1>1. date \in Dates \cup {None}
  BY RowKinds DEF Memory!Expiry, Memory!Body
<1>2. v5' = [v5 EXCEPT ![r] = new] /\ UNCHANGED <<v1, v2, v3, v4>>
  BY DEF Memory!CreateBegin
<1> HIDE DEF date
<1>3. read \in Memory!Rows /\ DatesAgree(read)
  BY <1>1 DEF Memory!Rows, DatesAgree
<1> HIDE DEF read
<1>4. new \in EditState /\ Fits(new)
  BY <1>3, RowKinds DEF EditState, Fits
<1> HIDE DEF new
<1>5. /\ v5' \in [Edits -> EditState]
      /\ \A x \in Edits : v5'[x] = v5[x] \/ Fits(v5'[x])
  BY <1>2, <1>4, MemoryTypes
<1> QED BY <1>2, <1>5, RowKinds, MemoryMoves DEF MemoryInv, Memory!TypeOK

LEMMA EditBeginStep ==
  ASSUME MemoryInv, NEW r \in Edits, NEW u \in Humans, NEW e \in Entries,
         NEW body \in MemoryBodies, NEW op \in {"patch", "archive", "delete"},
         Memory!EditBegin(r, u, e, op, body)
  PROVE  MemoryInv'
<1> DEFINE new == [pc |-> IF v1[e].scope = "GLOBAL" THEN "write" ELSE "access",
                   op |-> op, who |-> u, entry |-> e, body |-> body, read |-> v1[e]]
<1>1. v5' = [v5 EXCEPT ![r] = new] /\ UNCHANGED <<v1, v2, v3, v4>>
  BY DEF Memory!EditBegin
<1>2. new \in EditState /\ Fits(new)
  BY MemoryTypes DEF EditState, Fits
<1> HIDE DEF new
<1>3. /\ v5' \in [Edits -> EditState]
      /\ \A x \in Edits : v5'[x] = v5[x] \/ Fits(v5'[x])
  BY <1>1, <1>2, MemoryTypes
<1> QED BY <1>1, <1>3, RowKinds, MemoryMoves DEF MemoryInv, Memory!TypeOK

LEMMA AccessStep ==
  ASSUME MemoryInv, NEW r \in Edits, Memory!Access(r)
  PROVE  MemoryInv'
<1>1. UNCHANGED <<v1, v2, v3, v4>>
  BY DEF Memory!Access
<1>2. CASE v5' = [v5 EXCEPT ![r].pc = "write"]
  <2>1. /\ v5' \in [Edits -> EditState]
        /\ \A x \in Edits : v5'[x].op = v5[x].op /\ v5'[x].read = v5[x].read
    BY <1>2, MemoryTypes DEF EditState
  <2>2. \A x \in Edits : Fits(v5'[x])
    BY <1>2, <2>1, MemoryTypes DEF MemoryInv, Fits, EditState, Memory!Access
  <2> QED BY <1>1, <2>1, <2>2, MemoryAssumption, RowKinds, MemoryMoves
          DEF MemoryInv, Memory!TypeOK, Memory!Configured
<1>3. CASE Memory!Done(r)
  BY <1>1, <1>3, EditDone, MemoryAssumption, RowKinds, MemoryMoves
     DEF MemoryInv, Memory!TypeOK, Memory!Configured
<1> QED BY <1>2, <1>3 DEF Memory!Access

LEMMA WriteStep ==
  ASSUME MemoryInv, NEW r \in Edits,
         Memory!Write(r) \/ \E archived \in BOOLEAN : Memory!Archive(r, archived)
  PROVE  MemoryInv'
<1> DEFINE q == v5[r]   e == q.entry
<1>1. /\ e \in Entries /\ v1[e] \in Memory!Rows /\ DatesAgree(v1[e])
      /\ q.read \in Memory!Rows /\ q.body \in Memory!Body
      /\ q.op \in {"none", "create", "patch", "archive", "delete"}
      /\ q.op = "create" => DatesAgree(q.read)
  BY MemoryTypes DEF MemoryInv, EditState, Fits
<1>2. UNCHANGED <<v2, v3, v4>> /\ Memory!Done(r) /\ q.op # "none"
  BY DEF MemoryInv, Fits, Memory!Write, Memory!Archive
<1>3. /\ Memory!Patched(v1[e], q.read, q.body) \in Memory!Rows
      /\ DatesAgree(Memory!Patched(v1[e], q.read, q.body))
  BY <1>1, PatchedAgrees
<1>4. PICK row \in Memory!Rows : /\ DatesAgree(row)
                                 /\ v1' = v1 \/ v1' = [v1 EXCEPT ![e] = row]
  <2>1. ASSUME NEW old \in Memory!Rows, DatesAgree(old), NEW archived \in BOOLEAN
        PROVE  /\ [old EXCEPT !.archived = archived] \in Memory!Rows
               /\ DatesAgree([old EXCEPT !.archived = archived])
               /\ [old EXCEPT !.status = "gone"] \in Memory!Rows
               /\ DatesAgree([old EXCEPT !.status = "gone"])
    BY <2>1 DEF Memory!Rows, DatesAgree
  <2>2. CASE Memory!Write(r)
    <3>1. CASE v1' = v1
      BY <1>1, <3>1
    <3>2. CASE v1' # v1 /\ q.op = "create"
      <4>1. v1' = [v1 EXCEPT ![e] = q.read]
        BY <2>2, <3>2 DEF Memory!Write
      <4> QED BY <1>1, <3>2, <4>1
    <3>3. CASE v1' # v1 /\ q.op = "patch"
      <4>1. v1' = [v1 EXCEPT ![e] = Memory!Patched(v1[e], q.read, q.body)]
        BY <2>2, <3>3 DEF Memory!Write
      <4> QED BY <1>3, <4>1
    <3>4. CASE v1' # v1 /\ q.op = "archive"
      <4>1. v1' = [v1 EXCEPT ![e] = [v1[e] EXCEPT !.archived = TRUE]]
        BY <2>2, <3>4 DEF Memory!Write
      <4> QED BY <1>1, <2>1, <4>1
    <3>5. CASE v1' # v1 /\ q.op = "delete"
      <4>1. v1' = [v1 EXCEPT ![e] = [v1[e] EXCEPT !.status = "gone"]]
        BY <2>2, <3>5 DEF Memory!Write
      <4> QED BY <1>1, <2>1, <4>1
    <3> QED BY <3>1, <3>2, <3>3, <3>4, <3>5, <1>1, <1>2
  <2>3. ASSUME NEW archived \in BOOLEAN, Memory!Archive(r, archived)
        PROVE  \E row \in Memory!Rows : /\ DatesAgree(row)
                                        /\ v1' = v1 \/ v1' = [v1 EXCEPT ![e] = row]
    <3>1. v1' = [v1 EXCEPT ![e] =
                   [Memory!Patched(v1[e], q.read, q.body) EXCEPT !.archived = archived]]
      BY <2>3 DEF Memory!Archive
    <3> QED BY <1>3, <2>1, <3>1
  <2> QED BY <2>2, <2>3
<1>5. v2' \in {"kept", "gone"} /\ v3' \subseteq Humans /\ v4' \subseteq Humans
  BY <1>2 DEF MemoryInv, Memory!TypeOK
<1> QED BY <1>1, <1>2, <1>4, <1>5, EditDone, MemoryMoves

LEMMA PluginWritesStep ==
  ASSUME MemoryInv, NEW e \in Entries, NEW u \in Humans, NEW date \in Dates \cup {None},
         Memory!PluginWrites(e, u, date)
  PROVE  MemoryInv'
<1> DEFINE row == [Memory!NoRow EXCEPT !.status = "kept", !.scope = "PROJECT", !.createdBy = u,
                                       !.expiresAt = date]
<1>1. row \in Memory!Rows /\ DatesAgree(row)
  BY DEF Memory!NoRow, Memory!Rows, DatesAgree
<1>2. v1' = [v1 EXCEPT ![e] = row] /\ UNCHANGED <<v2, v3, v4, v5>>
  BY DEF Memory!PluginWrites
<1> HIDE DEF row
<1> QED BY <1>1, <1>2, MemoryTypes, MemoryMoves DEF MemoryInv, Memory!TypeOK

(* A deletion changes whether rows are there and who wrote them, no dates. *)
LEMMA RowsFall ==
  ASSUME MemoryInv, Memory!DeleteProject \/ \E u \in Humans : Memory!DeleteAccount(u)
  PROVE  MemoryInv'
<1>1. /\ v2' \in {"kept", "gone"} /\ v3' \subseteq Humans /\ v4' \subseteq Humans /\ v5' = v5
  BY DEF MemoryInv, Memory!TypeOK, Memory!DeleteProject, Memory!DeleteAccount
<1>2. ASSUME NEW e \in Entries
      PROVE  /\ v1'[e] \in Memory!Rows
             /\ v1'[e].validUntil = v1[e].validUntil /\ v1'[e].expiresAt = v1[e].expiresAt
  <2>1. v1[e] \in Memory!Rows
    BY MemoryTypes
  <2>2. CASE Memory!DeleteProject
    BY <2>1, <2>2 DEF Memory!DeleteProject, Memory!Rows
  <2>3. ASSUME NEW u \in Humans, Memory!DeleteAccount(u)
        PROVE  /\ v1'[e] \in Memory!Rows
               /\ v1'[e].validUntil = v1[e].validUntil /\ v1'[e].expiresAt = v1[e].expiresAt
    BY <2>1, <2>3 DEF Memory!DeleteAccount, Memory!Rows
  <2> QED BY <2>2, <2>3
<1>3. v1' \in [Entries -> Memory!Rows]
  <2>1. DOMAIN v1' = Entries /\ v1' = [e \in Entries |-> v1'[e]]
    BY DEF Memory!DeleteProject, Memory!DeleteAccount
  <2> QED BY <1>2, <2>1
<1> QED BY <1>1, <1>2, <1>3, MemoryTypes DEF MemoryInv, Memory!TypeOK, DatesAgree, EditState, Fits

LEMMA MemoryStays == MemoryInv /\ [Memory!Next]_<<v1, v2, v3, v4, v5>> => MemoryInv'
<1> SUFFICES ASSUME MemoryInv, [Memory!Next]_<<v1, v2, v3, v4, v5>> PROVE MemoryInv'
  OBVIOUS
<1>1. CASE Memory!Restart
  <2>1. v5' \in [Edits -> EditState] /\ \A r \in Edits : Fits(v5'[r])
    BY <1>1, RowKinds DEF Memory!Restart
  <2> QED BY <1>1, <2>1 DEF Memory!Restart, MemoryInv, Memory!TypeOK, EditState, DatesAgree, Fits
<1>2. CASE UNCHANGED <<v1, v2, v3, v4, v5>> \/ \E u \in Humans : Memory!Join(u)
  BY <1>2 DEF Memory!Join, MemoryInv, Memory!TypeOK, DatesAgree, Fits
<1> QED BY <1>1, <1>2, CreateBeginStep, EditBeginStep, AccessStep, WriteStep,
           PluginWritesStep, RowsFall DEF Memory!Next

InMemory == part = "memory"

LEMMA MemoryInvHolds == ServerSpec => [](InMemory => MemoryInv)
<1>1. ServerInit => (InMemory => MemoryInv)
  BY MemoryStarts DEF ServerInit, InMemory
<1>2. (InMemory => MemoryInv) /\ [ServerNext]_<<part, vars, cells>>
        => (InMemory' => MemoryInv')
  BY MemoryStays DEF ServerNext, InMemory, cells
<1> QED BY <1>1, <1>2, PTL DEF ServerSpec

(* Readers are told the date that the queries filter by, though edits      *)
(* overtake each other.                                                    *)
THEOREM ServerDatesAgree == ServerSpec => []ValidityIsTheExpiry
<1>1. (InMemory => MemoryInv) => ValidityIsTheExpiry
  BY DEF InMemory, MemoryInv, DatesAgree, ValidityIsTheExpiry, Memory!ValidityIsTheExpiry
<1> QED BY <1>1, MemoryInvHolds, PTL

----------------------------------------------------------------------------
(* The gate of the agent route in the composition: v1 is the time, v2 the  *)
(* window, v3 the remembered texts, v5 the requests, v6 and v7 those whose *)
(* message was stored and those refused as duplicates.                     *)

(* A remembered text is too old to refuse anything, or was stored.         *)
TextWasStored(r) ==
  \/ v3[r].timestamp = -Dedup
  \/ \E m \in v6 : /\ v5[m].room = r /\ v5[m].content = v3[r].content
                   /\ v5[m].at = v3[r].timestamp

TextsInv ==
  /\ \A s \in v6 \cup v7 : v5[s].pc # "unsent"
  /\ \A s \in Gate!Sends : v5[s].pc = "stored" => s \in v6
  /\ \A r \in GateRooms : TextWasStored(r)
  /\ Gate!RefusedWereStored

(* The requests of q that are counted and were sent from a to b. *)
Between(q, a, b) == {s \in Gate!Sends : q[s].counted /\ a <= q[s].at /\ q[s].at <= b}

(* The requests q against a window opened at "start" with "count" in it:   *)
(* the counted ones of the window are "count", one of them opened it, and  *)
(* none is later; fewer than the limit lie within a minute before it; and  *)
(* so fewer than twice the limit in any minute.                            *)
RateInv(q, start, count, time) ==
  /\ start <= time
  /\ \A s \in Gate!Sends : q[s].pc = "unsent" => ~q[s].counted
  /\ \A s \in Gate!Sends : q[s].counted => q[s].at <= time /\ q[s].at < start + Window
  /\ Cardinality(Between(q, start, start + Window - 1)) = count
  /\ count > 0 => \E s \in Gate!Sends : q[s].counted /\ q[s].at = start
  /\ \A t \in Int : t > start - Window => Cardinality(Between(q, t, start - 1)) < MaxPerMinute
  /\ \A t \in Int : Cardinality(Between(q, t, t + Window - 1)) < 2 * MaxPerMinute

GateInv ==
  /\ Gate!TypeOK
  /\ TextsInv
  /\ RateInv(v5, v2.windowStart, v2.count, v1)
  /\ v2.count > 0 \/ v2.windowStart = -Window

GateReq ==
  [pc: {"unsent", "check", "store", "stored", "done"}, room: GateRooms, content: Texts,
   at: 0..MaxNow, counted: BOOLEAN]

LEMMA GateTypes ==
  ASSUME Gate!TypeOK
  PROVE  /\ v1 \in 0..MaxNow /\ v4 \subseteq GateRooms
         /\ v2 \in [count: 0..MaxPerMinute, windowStart: -Window..MaxNow]
         /\ v2.count \in 0..MaxPerMinute /\ v2.windowStart \in -Window..MaxNow
         /\ v3 \in [GateRooms -> [content: Texts, timestamp: -Dedup..MaxNow]]
         /\ v5 \in [Gate!Sends -> GateReq]
         /\ v6 \subseteq Gate!Sends /\ v7 \subseteq Gate!Sends
         /\ Gate!Sends = 1..MaxSends
BY DEF Gate!TypeOK, GateReq, Gate!Sends

(* What can be said of the requests between two times.                     *)
LEMMA BetweenCounts ==
  ASSUME NEW q, NEW a, NEW b
  PROVE  /\ IsFiniteSet(Between(q, a, b)) /\ Cardinality(Between(q, a, b)) \in Nat
         /\ Between(q, a, b) \subseteq Gate!Sends
<1>1. IsFiniteSet(Gate!Sends)
  BY GateAssumption, FS_Interval DEF Gate!Sends, Gate!Configured
<1>2. Between(q, a, b) \subseteq Gate!Sends
  BY DEF Between
<1> QED BY <1>1, <1>2, FS_Subset, FS_CardinalityType

(* Fewer than twice the limit from t on, when its minute reaches into the  *)
(* window: what lies before the window and what lies in it.                *)
LEMMA TwoParts ==
  ASSUME NEW q \in [Gate!Sends -> GateReq], NEW start \in Int, NEW t \in Int,
         t > start - Window,
         \A s \in Gate!Sends : q[s].counted => q[s].at < start + Window,
         Cardinality(Between(q, start, start + Window - 1)) <= MaxPerMinute,
         Cardinality(Between(q, t, start - 1)) < MaxPerMinute
  PROVE  Cardinality(Between(q, t, t + Window - 1)) < 2 * MaxPerMinute
<1> DEFINE before == Between(q, t, start - 1)
           within == Between(q, start, start + Window - 1)
           all == Between(q, t, t + Window - 1)
<1>1. all \subseteq before \cup within
  BY GateAssumption DEF Between, GateReq, Gate!Configured
<1>2. /\ IsFiniteSet(before) /\ IsFiniteSet(within)
      /\ Cardinality(before) \in Nat /\ Cardinality(within) \in Nat
  BY BetweenCounts
<1>3. Cardinality(all) \in Nat
  BY BetweenCounts
<1> HIDE DEF before, within, all
<1>4. /\ IsFiniteSet(before \cup within)
      /\ Cardinality(before \cup within)
           = Cardinality(before) + Cardinality(within) - Cardinality(before \cap within)
  BY <1>2, FS_Union
<1>5. Cardinality(before \cap within) \in Nat
  BY <1>2, FS_Intersection, FS_CardinalityType
<1>6. Cardinality(all) <= Cardinality(before \cup within)
  BY <1>1, <1>4, FS_Subset
<1>7. Cardinality(before) < MaxPerMinute /\ Cardinality(within) <= MaxPerMinute
  BY DEF before, within
<1>8. Cardinality(all) < 2 * MaxPerMinute
  BY <1>2, <1>3, <1>4, <1>5, <1>6, <1>7, GateAssumption DEF Gate!Configured
<1> QED BY <1>8 DEF all

(* A step that counts nobody anew, as time passes.                         *)
LEMMA RateKept ==
  ASSUME NEW q \in [Gate!Sends -> GateReq], NEW new \in [Gate!Sends -> GateReq],
         NEW start \in Int, NEW count \in Nat, NEW time \in Int, NEW later \in Int,
         RateInv(q, start, count, time), time <= later,
         \A s \in Gate!Sends : /\ new[s].counted = q[s].counted
                               /\ new[s].counted => new[s].at = q[s].at
                               /\ new[s].pc = "unsent" => q[s].pc = "unsent"
  PROVE  RateInv(new, start, count, later)
<1>1. ASSUME NEW a, NEW b PROVE Between(new, a, b) = Between(q, a, b)
  BY DEF Between
<1>2. /\ start <= later
      /\ \A s \in Gate!Sends : new[s].pc = "unsent" => ~new[s].counted
      /\ count > 0 => \E s \in Gate!Sends : new[s].counted /\ new[s].at = start
  BY DEF RateInv
<1>3. \A s \in Gate!Sends : new[s].counted => new[s].at <= later /\ new[s].at < start + Window
  BY DEF RateInv, GateReq
<1> QED BY <1>1, <1>2, <1>3 DEF RateInv

(* Nobody is counted.                                                      *)
LEMMA RateEmpty ==
  ASSUME NEW q, NEW time \in Nat, \A s \in Gate!Sends : q[s].counted = FALSE
  PROVE  RateInv(q, -Window, 0, time)
<1>1. ASSUME NEW a, NEW b PROVE Cardinality(Between(q, a, b)) = 0
  <2>1. Between(q, a, b) = {}
    BY DEF Between
  <2> QED BY <2>1, FS_EmptySet
<1> QED BY <1>1, GateAssumption DEF RateInv, Gate!Configured

(* The last window is over: the one that opened it is a minute old, so the *)
(* minute before the new one holds fewer than the limit.                   *)
LEMMA RateOpens ==
  ASSUME NEW q \in [Gate!Sends -> GateReq], NEW start \in Int, NEW count \in Nat,
         NEW time \in Int, RateInv(q, start, count, time), count <= MaxPerMinute,
         time - start >= Window
  PROVE  RateInv(q, time, 0, time)
<1>1. Between(q, time, time + Window - 1) = {}
  BY GateAssumption DEF RateInv, Between, GateReq, Gate!Configured
<1>2. Cardinality(Between(q, time, time + Window - 1)) = 0
  BY <1>1, FS_EmptySet
<1>3. ASSUME NEW t \in Int, t > time - Window
      PROVE  Cardinality(Between(q, t, time - 1)) < MaxPerMinute
  <2> DEFINE within == Between(q, start, start + Window - 1)
             rest == Between(q, t, time - 1)
  <2>1. IsFiniteSet(within) /\ Cardinality(within) = count
        /\ IsFiniteSet(rest) /\ Cardinality(rest) \in Nat
    BY BetweenCounts DEF RateInv
  <2>2. rest \subseteq within
    BY <1>3, GateAssumption DEF Between, RateInv, GateReq, Gate!Configured
  <2>3. CASE count > 0
    <3>1. PICK s \in Gate!Sends : q[s].counted /\ q[s].at = start
      BY <2>3 DEF RateInv
    <3>2. s \in within /\ s \notin rest
      BY <1>3, <3>1, GateAssumption DEF Between, Gate!Configured
    <3> HIDE DEF within, rest
    <3>3. Cardinality(rest) < Cardinality(within)
      BY <2>1, <2>2, <3>2, FS_Subset
    <3>4. Cardinality(rest) < MaxPerMinute
      BY <2>1, <3>3, GateAssumption DEF Gate!Configured
    <3> QED BY <3>4 DEF rest
  <2>4. CASE count = 0
    <3> HIDE DEF within, rest
    <3>1. Cardinality(rest) <= 0
      BY <2>1, <2>2, <2>4, FS_Subset
    <3>2. Cardinality(rest) < MaxPerMinute
      BY <2>1, <3>1, GateAssumption DEF Gate!Configured
    <3> QED BY <3>2 DEF rest
  <2> QED BY <2>3, <2>4
<1>4. \A s \in Gate!Sends : q[s].counted => q[s].at <= time /\ q[s].at < time + Window
  BY GateAssumption DEF RateInv, GateReq, Gate!Configured
<1> QED BY <1>2, <1>3, <1>4 DEF RateInv

(* One more request in the window it falls in.                             *)
LEMMA RateCounts ==
  ASSUME NEW q \in [Gate!Sends -> GateReq], NEW start \in Int, NEW count \in Nat,
         NEW time \in 0..MaxNow, NEW s \in Gate!Sends, NEW r \in GateReq,
         RateInv(q, start, count, time), q[s].pc = "unsent",
         r.counted, r.at = time, r.pc # "unsent",
         count < MaxPerMinute, time - start < Window, start = time \/ count > 0
  PROVE  RateInv([q EXCEPT ![s] = r], start, count + 1, time)
<1> DEFINE new == [q EXCEPT ![s] = r]
<1>1. /\ new \in [Gate!Sends -> GateReq] /\ new[s] = r
      /\ \A o \in Gate!Sends \ {s} : new[o] = q[o]
  OBVIOUS
<1>2. ~q[s].counted /\ start <= time /\ MaxPerMinute \in Nat /\ Window \in Nat \ {0}
  BY GateAssumption DEF RateInv, Gate!Configured
<1> HIDE DEF new
<1>3. ASSUME NEW a \in Int, NEW b \in Int, time < a \/ b < time
      PROVE  Between(new, a, b) = Between(q, a, b)
  BY <1>1, <1>2, <1>3 DEF Between
<1>4. /\ \A o \in Gate!Sends : new[o].pc = "unsent" => ~new[o].counted
      /\ \A o \in Gate!Sends : new[o].counted => new[o].at <= time /\ new[o].at < start + Window
  BY <1>1, <1>2 DEF RateInv, GateReq
<1>5. Cardinality(Between(new, start, start + Window - 1)) = count + 1
  <2> DEFINE old == Between(q, start, start + Window - 1)
  <2>1. Between(new, start, start + Window - 1) = old \cup {s} /\ s \notin old
    BY <1>1, <1>2 DEF Between
  <2>2. IsFiniteSet(old) /\ Cardinality(old) = count
    BY BetweenCounts DEF RateInv
  <2> HIDE DEF old
  <2> QED BY <2>1, <2>2, FS_AddElement
<1>6. \E o \in Gate!Sends : new[o].counted /\ new[o].at = start
  <2>1. CASE start = time
    BY <1>1, <2>1
  <2>2. CASE count > 0
    BY <1>1, <1>2, <2>2 DEF RateInv
  <2> QED BY <2>1, <2>2
<1>7. \A t \in Int : t > start - Window => Cardinality(Between(new, t, start - 1)) < MaxPerMinute
  BY <1>2, <1>3 DEF RateInv
<1>8. ASSUME NEW t \in Int
      PROVE  Cardinality(Between(new, t, t + Window - 1)) < 2 * MaxPerMinute
  <2>1. CASE t > start - Window
    BY <1>1, <1>2, <1>4, <1>5, <1>7, <2>1, TwoParts
  <2>2. CASE t <= start - Window
    <3>1. t + Window - 1 < time
      BY <1>2, <2>2
    <3> QED BY <1>2, <1>3, <3>1 DEF RateInv
  <2> QED BY <1>2, <2>1, <2>2
<1>9. RateInv(new, start, count + 1, time)
  BY <1>2, <1>4, <1>5, <1>6, <1>7, <1>8 DEF RateInv
<1> QED BY <1>9 DEF new

LEMMA GateStarts == Gate!Init => GateInv
<1> SUFFICES ASSUME Gate!Init PROVE GateInv
  OBVIOUS
<1>1. /\ Gate!NoText \in [content: Texts, timestamp: -Dedup..MaxNow]
      /\ Gate!NoText.timestamp = -Dedup
      /\ Gate!NoWindow \in [count: 0..MaxPerMinute, windowStart: -Window..MaxNow]
      /\ Gate!Unsent \in GateReq /\ Gate!Unsent.counted = FALSE /\ Gate!Unsent.pc = "unsent"
  BY GateAssumption DEF Gate!NoText, Gate!NoWindow, Gate!Unsent, GateReq, Gate!Configured
<1>2. /\ v1 = 0 /\ v2 = Gate!NoWindow /\ v3 = [r \in GateRooms |-> Gate!NoText] /\ v4 = GateRooms
      /\ v5 = [s \in Gate!Sends |-> Gate!Unsent] /\ v6 = {} /\ v7 = {}
  BY DEF Gate!Init
<1>3. Gate!TypeOK
  BY <1>1, <1>2, GateAssumption DEF Gate!TypeOK, GateReq, Gate!Configured
<1>4. TextsInv
  BY <1>1, <1>2 DEF TextsInv, TextWasStored, Gate!RefusedWereStored
<1>5. v2.count = 0 /\ v2.windowStart = -Window
  BY <1>2 DEF Gate!NoWindow
<1>6. RateInv(v5, v2.windowStart, v2.count, v1)
  <2>1. \A s \in Gate!Sends : v5[s].counted = FALSE
    BY <1>1, <1>2
  <2>2. RateInv(v5, -Window, 0, 0)
    BY <2>1, RateEmpty
  <2> QED BY <1>2, <1>5, <2>2
<1> QED BY <1>3, <1>4, <1>5, <1>6 DEF GateInv

(* Requests that were sent keep what they asked for; new texts and         *)
(* refusals are founded.                                                   *)
LEMMA TextsMove ==
  ASSUME Gate!TypeOK, TextsInv, Gate!TypeOK',
         v6 \subseteq v6',
         \A s \in v6 \cup v7 :
           /\ v5'[s].room = v5[s].room /\ v5'[s].content = v5[s].content
           /\ v5'[s].at = v5[s].at /\ v5'[s].pc # "unsent",
         \A s \in (v6' \cup v7') \ (v6 \cup v7) : v5'[s].pc # "unsent",
         \A s \in Gate!Sends : v5'[s].pc = "stored" => v5[s].pc = "stored" \/ s \in v6',
         \A r \in GateRooms : v3'[r] = v3[r] \/ TextWasStored(r)',
         \A s \in v7' \ v7 :
           \E m \in v6 : /\ v5[m].room = v5'[s].room /\ v5[m].content = v5'[s].content
                         /\ v5'[s].at - v5[m].at < Dedup
  PROVE  TextsInv'
<1>1. /\ \A s \in v6' \cup v7' : v5'[s].pc # "unsent"
      /\ \A s \in Gate!Sends : v5'[s].pc = "stored" => s \in v6'
  BY DEF TextsInv
<1>2. ASSUME NEW r \in GateRooms PROVE TextWasStored(r)'
  <2>1. CASE v3'[r] = v3[r]
    BY <2>1 DEF TextsInv, TextWasStored
  <2> QED BY <2>1
<1>3. ASSUME NEW s \in v7'
      PROVE  \E m \in v6' : /\ v5'[m].room = v5'[s].room /\ v5'[m].content = v5'[s].content
                            /\ v5'[s].at - v5'[m].at < Dedup
  <2>1. CASE s \in v7
    BY <2>1 DEF TextsInv, Gate!RefusedWereStored
  <2>2. CASE s \notin v7
    BY <2>2
  <2> QED BY <2>1, <2>2
<1> QED BY <1>1, <1>2, <1>3 DEF TextsInv, Gate!RefusedWereStored

(* A step of a request that was sent: it goes on, and its message may be   *)
(* stored, or be remembered once it is.                                    *)
LEMMA GoesOnStep ==
  ASSUME GateInv, NEW s \in Gate!Sends, NEW pc \in {"store", "stored", "done"},
         v5[s].pc # "unsent", v5' = [v5 EXCEPT ![s].pc = pc],
         v1' = v1, v2' = v2, v4' = v4, v7' = v7,
         v6' = v6 \/ v6' = v6 \cup {s}, pc = "stored" => s \in v6',
         \/ v3' = v3
         \/ /\ v5[s].pc = "stored"
            /\ v3' = [v3 EXCEPT ![v5[s].room] =
                        [content |-> v5[s].content, timestamp |-> v5[s].at]]
  PROVE  GateInv'
<1>1. Gate!TypeOK /\ TextsInv
  BY DEF GateInv
<1>2. /\ v5 \in [Gate!Sends -> GateReq] /\ v5[s] \in GateReq
      /\ v6 \subseteq Gate!Sends /\ v7 \subseteq Gate!Sends
      /\ v3 \in [GateRooms -> [content: Texts, timestamp: -Dedup..MaxNow]]
      /\ v2.count \in Nat /\ v2.windowStart \in Int /\ v1 \in Int
  BY <1>1, GateTypes, GateAssumption DEF Gate!Configured
<1>3. /\ v5' \in [Gate!Sends -> GateReq]
      /\ \A o \in Gate!Sends :
           /\ v5'[o].room = v5[o].room /\ v5'[o].content = v5[o].content
           /\ v5'[o].at = v5[o].at /\ v5'[o].counted = v5[o].counted
           /\ v5'[o].pc = IF o = s THEN pc ELSE v5[o].pc
  BY <1>2 DEF GateReq
<1>4. /\ v3' \in [GateRooms -> [content: Texts, timestamp: -Dedup..MaxNow]]
      /\ \A r \in GateRooms : v3'[r] = v3[r] \/ TextWasStored(r)'
  <2>1. CASE v3' = v3
    BY <1>2, <2>1
  <2>2. CASE v3' # v3
    <3> DEFINE text == [content |-> v5[s].content, timestamp |-> v5[s].at]
    <3>1. text \in [content: Texts, timestamp: -Dedup..MaxNow]
      BY <1>2, GateAssumption DEF GateReq, Gate!Configured
    <3>2. s \in v6'
      BY <1>1, <2>2 DEF TextsInv
    <3>3. v5[s].room \in GateRooms /\ v3' = [v3 EXCEPT ![v5[s].room] = text]
      BY <1>2, <2>2 DEF GateReq
    <3>4. text.content = v5'[s].content /\ text.timestamp = v5'[s].at
      BY <1>3
    <3> HIDE DEF text
    <3>5. ASSUME NEW r \in GateRooms PROVE v3'[r] = v3[r] \/ TextWasStored(r)'
      BY <1>2, <1>3, <3>2, <3>3, <3>4 DEF TextWasStored
    <3> QED BY <1>2, <3>1, <3>3, <3>5
  <2> QED BY <2>1, <2>2
<1>5. Gate!TypeOK'
  BY <1>1, <1>2, <1>3, <1>4 DEF Gate!TypeOK, GateReq
<1>6. TextsInv'
  BY <1>1, <1>2, <1>3, <1>4, <1>5, TextsMove DEF TextsInv
<1>7. RateInv(v5, v2.windowStart, v2.count, v1)'
  <2>1. PICK q \in [Gate!Sends -> GateReq] : q = v5'
    BY <1>3
  <2>2. \A o \in Gate!Sends : /\ q[o].counted = v5[o].counted /\ q[o].at = v5[o].at
                              /\ q[o].pc = "unsent" => v5[o].pc = "unsent"
    BY <1>3, <2>1
  <2>3. RateInv(v5, v2.windowStart, v2.count, v1) /\ v1 <= v1
    BY <1>2 DEF GateInv
  <2>4. RateInv(q, v2.windowStart, v2.count, v1)
    BY <1>2, <2>2, <2>3, RateKept
  <2> QED BY <2>1, <2>4
<1> QED BY <1>5, <1>6, <1>7 DEF GateInv

LEMMA SendStep ==
  ASSUME GateInv, NEW s \in Gate!Sends, NEW room \in GateRooms, NEW text \in Texts,
         NEW ok \in BOOLEAN, Gate!Send(s, room, text, ok)
  PROVE  GateInv'
<1> DEFINE w == Gate!NextWindow(v2)
           over == w.count >= MaxPerMinute
           refused == ~ok \/ Gate!IsDuplicate(room, text)
           r == [pc |-> IF over \/ refused THEN "done" ELSE "check",
                 room |-> room, content |-> text, at |-> v1, counted |-> ~over]
<1>1. Gate!TypeOK /\ TextsInv /\ RateInv(v5, v2.windowStart, v2.count, v1)
      /\ (v2.count > 0 \/ v2.windowStart = -Window)
  BY DEF GateInv
<1>2. /\ v1 \in 0..MaxNow /\ v2 \in [count: 0..MaxPerMinute, windowStart: -Window..MaxNow]
      /\ v2.count \in 0..MaxPerMinute /\ v2.windowStart \in -Window..MaxNow
      /\ v3 \in [GateRooms -> [content: Texts, timestamp: -Dedup..MaxNow]]
      /\ v5 \in [Gate!Sends -> GateReq] /\ v6 \subseteq Gate!Sends /\ v7 \subseteq Gate!Sends
      /\ MaxPerMinute \in Nat \ {0} /\ Window \in Nat \ {0} /\ Dedup \in Nat /\ MaxNow \in Nat
  BY <1>1, GateTypes, GateAssumption DEF Gate!Configured
<1>3. /\ v5[s].pc = "unsent" /\ v2' = IF over THEN w ELSE [w EXCEPT !.count = w.count + 1]
      /\ v5' = [v5 EXCEPT ![s] = r]
      /\ v7' = IF ~over /\ ok /\ refused THEN v7 \cup {s} ELSE v7
      /\ v1' = v1 /\ v3' = v3 /\ v4' = v4 /\ v6' = v6
  BY DEF Gate!Send
<1>4. /\ w \in [count: 0..MaxPerMinute, windowStart: -Window..MaxNow]
      /\ w.count \in 0..MaxPerMinute /\ w.windowStart \in -Window..MaxNow
      /\ RateInv(v5, w.windowStart, w.count, v1)
      /\ v1 - w.windowStart < Window /\ (w.windowStart = v1 \/ w.count > 0)
  <2>1. CASE v1 - v2.windowStart >= Window
    <3>1. w = [count |-> 0, windowStart |-> v1]
      BY <2>1 DEF Gate!NextWindow
    <3>2. RateInv(v5, v1, 0, v1)
      BY <1>1, <1>2, <2>1, RateOpens
    <3> HIDE DEF w
    <3> QED BY <1>2, <3>1, <3>2
  <2>2. CASE ~(v1 - v2.windowStart >= Window)
    <3>1. w = v2
      BY <2>2 DEF Gate!NextWindow
    <3> HIDE DEF w
    <3> QED BY <1>1, <1>2, <2>2, <3>1
  <2> QED BY <2>1, <2>2
<1> HIDE DEF w
<1>5. r \in GateReq /\ r.room = room /\ r.content = text /\ r.at = v1 /\ r.counted = ~over
      /\ r.pc # "unsent" /\ r.pc # "stored"
  BY <1>2 DEF GateReq
<1>6. ASSUME Gate!IsDuplicate(room, text)
      PROVE  \E m \in v6 : v5[m].room = room /\ v5[m].content = text /\ v1 - v5[m].at < Dedup
  <2>1. TextWasStored(room) /\ v3[room].timestamp \in -Dedup..MaxNow
    BY <1>1, <1>2 DEF TextsInv
  <2>2. v1 - v3[room].timestamp < Dedup /\ v3[room].content = text
    BY <1>6 DEF Gate!IsDuplicate
  <2>3. v3[room].timestamp # -Dedup
    BY <1>2, <2>2
  <2> QED BY <2>1, <2>2, <2>3 DEF TextWasStored
<1> HIDE DEF r
<1>7. v5' \in [Gate!Sends -> GateReq] /\ v5'[s] = r
      /\ \A o \in Gate!Sends \ {s} : v5'[o] = v5[o]
  BY <1>2, <1>3, <1>5
<1>8. /\ v2' \in [count: 0..MaxPerMinute, windowStart: -Window..MaxNow]
      /\ v2'.windowStart = w.windowStart
      /\ v2'.count = IF over THEN w.count ELSE w.count + 1
  BY <1>2, <1>3, <1>4
<1>9. v7' \subseteq Gate!Sends
  BY <1>2, <1>3
<1>10. Gate!TypeOK'
  BY <1>1, <1>3, <1>7, <1>8, <1>9 DEF Gate!TypeOK, GateReq
<1>11. TextsInv'
  <2>1. s \notin v6 \cup v7
    BY <1>1, <1>3 DEF TextsInv
  <2>2. \A o \in v6 \cup v7 : v5'[o] = v5[o] /\ v5[o].pc # "unsent"
    BY <1>1, <1>2, <1>7, <2>1 DEF TextsInv
  <2>3. \A o \in v7' \ v7 : o = s /\ Gate!IsDuplicate(room, text)
    BY <1>3
  <2> HIDE DEF refused
  <2> QED BY <1>1, <1>2, <1>3, <1>5, <1>6, <1>7, <1>10, <2>2, <2>3, TextsMove
<1>12. RateInv(v5', w.windowStart, v2'.count, v1)
  <2>1. CASE over
    <3>1. \A o \in Gate!Sends : /\ v5'[o].counted = v5[o].counted
                                /\ v5'[o].counted => v5'[o].at = v5[o].at
                                /\ v5'[o].pc = "unsent" => v5[o].pc = "unsent"
      BY <1>1, <1>2, <1>3, <1>5, <1>7, <2>1 DEF RateInv, GateReq
    <3>2. PICK q \in [Gate!Sends -> GateReq] : q = v5'
      BY <1>7
    <3>3. w.windowStart \in Int /\ w.count \in Nat /\ v1 \in Int /\ v1 <= v1
      BY <1>2, <1>4
    <3>4. PICK p \in [Gate!Sends -> GateReq] : p = v5
      BY <1>2
    <3>5. RateInv(p, w.windowStart, w.count, v1)
      BY <1>4, <3>4
    <3>6. \A o \in Gate!Sends : /\ q[o].counted = p[o].counted
                                /\ q[o].counted => q[o].at = p[o].at
                                /\ q[o].pc = "unsent" => p[o].pc = "unsent"
      BY <3>1, <3>2, <3>4
    <3>7. RateInv(q, w.windowStart, w.count, v1)
      BY <3>3, <3>5, <3>6, RateKept, ZenonT(60)
    <3> QED BY <1>8, <2>1, <3>2, <3>7
  <2>2. CASE ~over
    <3>1. r.counted
      BY <1>5, <2>2
    <3>2. w.count < MaxPerMinute /\ w.count \in Nat /\ w.windowStart \in Int
      BY <1>2, <1>4, <2>2
    <3>3. RateInv([v5 EXCEPT ![s] = r], w.windowStart, w.count + 1, v1)
      BY <1>2, <1>3, <1>4, <1>5, <3>1, <3>2, RateCounts
    <3> QED BY <1>3, <1>8, <2>2, <3>3
  <2> QED BY <2>1, <2>2
<1>13. v2'.count > 0
  BY <1>2, <1>4, <1>8
<1>14. RateInv(v5, v2.windowStart, v2.count, v1)'
  BY <1>3, <1>8, <1>12
<1> QED BY <1>10, <1>11, <1>13, <1>14 DEF GateInv

LEMMA GateStays == GateInv /\ [Gate!Next]_<<v1, v2, v3, v4, v5, v6, v7>> => GateInv'
<1> SUFFICES ASSUME GateInv, [Gate!Next]_<<v1, v2, v3, v4, v5, v6, v7>> PROVE GateInv'
  OBVIOUS
<1>1. Gate!TypeOK /\ TextsInv /\ RateInv(v5, v2.windowStart, v2.count, v1)
  BY DEF GateInv
<1>2. /\ v5 \in [Gate!Sends -> GateReq] /\ v1 \in 0..MaxNow
      /\ v2.count \in Nat /\ v2.windowStart \in Int
      /\ v6 \subseteq Gate!Sends /\ v7 \subseteq Gate!Sends
      /\ v3 \in [GateRooms -> [content: Texts, timestamp: -Dedup..MaxNow]]
      /\ MaxPerMinute \in Nat \ {0} /\ Window \in Nat \ {0} /\ Dedup \in Nat /\ MaxNow \in Nat
  BY <1>1, GateTypes, GateAssumption DEF Gate!Configured
<1>3. ASSUME NEW s \in Gate!Sends,
             Gate!Check(s) \/ Gate!Fail(s) \/ Gate!Store(s) \/ Gate!Remember(s)
      PROVE  GateInv'
  <2>1. CASE Gate!Check(s)
    BY <1>2, <2>1, GoesOnStep DEF Gate!Check
  <2>2. CASE Gate!Fail(s)
    BY <1>2, <2>2, GoesOnStep DEF Gate!Fail
  <2>3. CASE Gate!Store(s)
    BY <1>2, <2>3, GoesOnStep DEF Gate!Store
  <2>4. CASE Gate!Remember(s)
    BY <1>2, <2>4, GoesOnStep DEF Gate!Remember
  <2> QED BY <1>3, <2>1, <2>2, <2>3, <2>4
<1>4. ASSUME NEW r \in GateRooms, Gate!JoinOrLeave(r)
      PROVE  GateInv'
  <2>1. v4' \subseteq GateRooms /\ UNCHANGED <<v1, v2, v3, v5, v6, v7>>
    BY <1>1, <1>4, GateTypes DEF Gate!JoinOrLeave
  <2>2. Gate!TypeOK'
    BY <1>1, <2>1 DEF Gate!TypeOK
  <2>3. TextsInv'
    BY <1>1, <2>1 DEF TextsInv, TextWasStored, Gate!RefusedWereStored
  <2>4. RateInv(v5, v2.windowStart, v2.count, v1)'
    BY <1>1, <2>1 DEF RateInv, Between
  <2> QED BY <1>1, <2>1, <2>2, <2>3, <2>4 DEF GateInv
<1>5. CASE Gate!Tick
  <2>1. v1 + 1 \in 0..MaxNow /\ v1' = v1 + 1 /\ UNCHANGED <<v2, v3, v4, v5, v6, v7>>
    BY <1>2, <1>5 DEF Gate!Tick
  <2>2. RateInv(v5, v2.windowStart, v2.count, v1 + 1)
    BY <1>1, <1>2, RateKept
  <2>3. Gate!TypeOK'
    BY <1>1, <2>1 DEF Gate!TypeOK
  <2>4. TextsInv'
    BY <1>1, <2>1 DEF TextsInv, TextWasStored, Gate!RefusedWereStored
  <2>5. RateInv(v5, v2.windowStart, v2.count, v1)'
    BY <2>1, <2>2
  <2> QED BY <2>1, <2>3, <2>4, <2>5 DEF GateInv
<1>6. CASE Gate!Restart
  <2>1. /\ v2' = Gate!NoWindow /\ v3' = [r \in GateRooms |-> Gate!NoText]
        /\ v5' = [s \in Gate!Sends |-> [v5[s] EXCEPT !.counted = FALSE,
                    !.pc = IF v5[s].pc = "unsent" THEN v5[s].pc ELSE "done"]]
        /\ UNCHANGED <<v1, v4, v6, v7>>
    BY <1>6 DEF Gate!Restart
  <2>2. /\ Gate!NoText \in [content: Texts, timestamp: -Dedup..MaxNow]
        /\ Gate!NoText.timestamp = -Dedup
        /\ Gate!NoWindow \in [count: 0..MaxPerMinute, windowStart: -Window..MaxNow]
        /\ Gate!NoWindow.count = 0 /\ Gate!NoWindow.windowStart = -Window
    BY GateAssumption DEF Gate!NoText, Gate!NoWindow, Gate!Configured
  <2>3. /\ v5' \in [Gate!Sends -> GateReq]
        /\ \A s \in Gate!Sends :
             /\ v5'[s].room = v5[s].room /\ v5'[s].content = v5[s].content
             /\ v5'[s].at = v5[s].at /\ v5'[s].counted = FALSE
             /\ v5'[s].pc = IF v5[s].pc = "unsent" THEN "unsent" ELSE "done"
    <3>1. ASSUME NEW s \in Gate!Sends
          PROVE  \E pc \in {"unsent", "done"} :
                   /\ pc = IF v5[s].pc = "unsent" THEN "unsent" ELSE "done"
                   /\ v5'[s] = [v5[s] EXCEPT !.counted = FALSE, !.pc = pc]
      BY <2>1
    <3>2. ASSUME NEW o \in GateReq, NEW pc \in {"unsent", "done"}
          PROVE  LET n == [o EXCEPT !.counted = FALSE, !.pc = pc] IN
                 /\ n \in GateReq /\ n.room = o.room /\ n.content = o.content
                 /\ n.at = o.at /\ n.counted = FALSE /\ n.pc = pc
      BY DEF GateReq
    <3>3. \A s \in Gate!Sends : v5[s] \in GateReq
      BY <1>2
    <3>4. DOMAIN v5' = Gate!Sends /\ v5' = [s \in Gate!Sends |-> v5'[s]]
      BY <2>1
    <3>5. ASSUME NEW s \in Gate!Sends
          PROVE  /\ v5'[s] \in GateReq
                 /\ v5'[s].room = v5[s].room /\ v5'[s].content = v5[s].content
                 /\ v5'[s].at = v5[s].at /\ v5'[s].counted = FALSE
                 /\ v5'[s].pc = IF v5[s].pc = "unsent" THEN "unsent" ELSE "done"
      <4>1. PICK o \in GateReq : o = v5[s]
        BY <3>3
      <4>2. PICK n : n = v5'[s]
        OBVIOUS
      <4>3. PICK pc \in {"unsent", "done"} :
              /\ pc = IF o.pc = "unsent" THEN "unsent" ELSE "done"
              /\ n = [o EXCEPT !.counted = FALSE, !.pc = pc]
        BY <3>1, <4>1, <4>2, ZenonT(30)
      <4>4. /\ n \in GateReq /\ n.room = o.room /\ n.content = o.content
            /\ n.at = o.at /\ n.counted = FALSE /\ n.pc = pc
        BY <3>2, <4>3
      <4> QED BY <4>1, <4>2, <4>3, <4>4
    <3> QED BY <3>4, <3>5
  <2>4. Gate!TypeOK'
    BY <1>1, <2>1, <2>2, <2>3 DEF Gate!TypeOK, GateReq
  <2>5. \A r \in GateRooms : TextWasStored(r)'
    BY <2>1, <2>2 DEF TextWasStored
  <2>6. TextsInv'
    <3>1. /\ v6 = v6' /\ v7' = v7
          /\ \A s \in v6 \cup v7 : s \in Gate!Sends /\ v5[s].pc # "unsent"
      BY <1>1, <1>2, <2>1 DEF TextsInv
    <3>2. \A s \in v6 \cup v7 : v5'[s].pc # "unsent"
      BY <2>3, <3>1
    <3>3. \A s \in Gate!Sends : v5'[s].pc # "stored"
      BY <2>3
    <3> QED BY <1>1, <2>3, <2>4, <2>5, <3>1, <3>2, <3>3, TextsMove
  <2>7. RateInv(v5, v2.windowStart, v2.count, v1)'
    <3>1. PICK q \in [Gate!Sends -> GateReq] : q = v5'
      BY <2>3
    <3>2. \A s \in Gate!Sends : q[s].counted = FALSE
      BY <2>3, <3>1
    <3>3. v1 \in Nat
      BY <1>2
    <3>4. RateInv(q, -Window, 0, v1)
      BY <3>2, <3>3, RateEmpty
    <3> QED BY <2>1, <2>2, <3>1, <3>4
  <2> QED BY <2>1, <2>2, <2>4, <2>6, <2>7 DEF GateInv
<1>7. CASE UNCHANGED <<v1, v2, v3, v4, v5, v6, v7>>
  BY <1>1, <1>7 DEF GateInv, Gate!TypeOK, TextsInv, TextWasStored, Gate!RefusedWereStored,
     RateInv, Between
<1> QED BY <1>3, <1>4, <1>5, <1>6, <1>7, SendStep DEF Gate!Next

InGate == part = "gate"

LEMMA GateInvHolds == ServerSpec => [](InGate => GateInv)
<1>1. ServerInit => (InGate => GateInv)
  BY GateStarts DEF ServerInit, InGate
<1>2. (InGate => GateInv) /\ [ServerNext]_<<part, vars, cells>>
        => (InGate' => GateInv')
  BY GateStays DEF ServerNext, InGate, cells
<1> QED BY <1>1, <1>2, PTL DEF ServerSpec

(* Whoever is refused as a duplicate has had the text stored in the room   *)
(* by a request of the last seconds, however requests overlap and fail.    *)
THEOREM ServerRefusesKnownTexts == ServerSpec => []RefusedWereStored
<1>1. (InGate => GateInv) => RefusedWereStored
  BY DEF InGate, GateInv, TextsInv, RefusedWereStored
<1> QED BY <1>1, GateInvHolds, PTL

(* Fewer than twice the limit are let through in any minute.               *)
THEOREM ServerRateIsBounded == ServerSpec => []RateIsBounded
<1>1. ASSUME GateInv PROVE Gate!RateIsBounded
  <2>1. /\ v5 \in [Gate!Sends -> GateReq] /\ MaxNow \in Nat /\ Window \in Nat
        /\ RateInv(v5, v2.windowStart, v2.count, v1)
    BY <1>1, GateTypes, GateAssumption DEF GateInv, Gate!Configured
  <2>2. ASSUME NEW t \in 0..MaxNow
        PROVE  Cardinality({s \in Gate!Sends : v5[s].counted /\ v5[s].at \in t..(t + Window - 1)})
                 < 2 * MaxPerMinute
    <3>1. ASSUME NEW s \in Gate!Sends
          PROVE  v5[s].at \in t..(t + Window - 1) <=> t <= v5[s].at /\ v5[s].at <= t + Window - 1
      BY <2>1 DEF GateReq
    <3>2. {s \in Gate!Sends : v5[s].counted /\ v5[s].at \in t..(t + Window - 1)}
            = Between(v5, t, t + Window - 1)
      BY <3>1 DEF Between
    <3>3. t \in Int
      OBVIOUS
    <3>4. Cardinality(Between(v5, t, t + Window - 1)) < 2 * MaxPerMinute
      BY <2>1, <3>3 DEF RateInv
    <3> QED BY <3>2, <3>4, Zenon
  <2>3. \A S : Gate!Cardinality(S) = Cardinality(S)
    BY DEF Cardinality, Gate!Cardinality
  <2> QED BY <2>2, <2>3, Zenon DEF Gate!RateIsBounded
<1>2. (InGate => GateInv) => RateIsBounded
  BY <1>1 DEF InGate, RateIsBounded
<1> QED BY <1>2, GateInvHolds, PTL

----------------------------------------------------------------------------
(* The types of the composition.                                           *)

InMentions == part = "mentions"

IsAPart == part \in {"mentions", "approvals", "memory", "gate"}

LEMMA PartsStay == ServerSpec => []IsAPart
<1>1. ServerInit => IsAPart
  BY DEF ServerInit, IsAPart
<1>2. IsAPart /\ [ServerNext]_<<part, vars, cells>> => IsAPart'
  BY DEF ServerNext, IsAPart
<1> QED BY <1>1, <1>2, PTL DEF ServerSpec

LEMMA MentionsHold == ServerSpec => [](InMentions => Inv)
<1>1. ServerInit => (InMentions => Inv)
  BY StartsHonest DEF ServerInit
<1>2. (InMentions => Inv) /\ [ServerNext]_<<part, vars, cells>> => (InMentions' => Inv')
  BY StaysHonest DEF ServerNext, InMentions
<1> QED BY <1>1, <1>2, PTL DEF ServerSpec

LEMMA ApprovalsAreTyped == ServerSpec => [](InApprovals => Approval!TypeOK)
<1>1. ApprovalProofs!Spec => []ApprovalProofs!TypeOK
  BY ApprovalsConfigured, ApprovalProofs!TypeCorrect
<1>2. ApprovalProofs!TypeOK => Approval!TypeOK
  BY DEF ApprovalProofs!TypeOK, Approval!TypeOK, ApprovalProofs!Row, Approval!Row,
         ApprovalProofs!Members, Approval!Members, ApprovalProofs!CallState,
         Approval!CallState, ApprovalProofs!DecideState, Approval!DecideState,
         ApprovalProofs!Verdicts, Approval!Verdicts, ApprovalProofs!Key, Approval!Key,
         ApprovalProofs!Time, Approval!Time, ApprovalProofs!Projects, Approval!Projects,
         ApprovalProofs!TaskOrNone, Approval!TaskOrNone, ApprovalProofs!Statuses,
         Approval!Statuses
<1> QED BY <1>1, <1>2, ApprovalsStart, ApprovalsStep, PTL
        DEF ServerSpec, ApprovalProofs!Spec

(* Every part of the server keeps its types, for any number of calls,      *)
(* entries and messages.                                                   *)
THEOREM ServerIsTyped == ServerSpec => []TypesOK
<1>1. /\ IsAPart
      /\ InMentions => Inv
      /\ InApprovals => Approval!TypeOK
      /\ InMemory => MemoryInv
      /\ InGate => GateInv
      => TypesOK
  BY DEF TypesOK, IsAPart, InMentions, InApprovals, InMemory, InGate, Inv, MemoryInv, GateInv
<1> QED BY <1>1, PartsStay, MentionsHold, ApprovalsAreTyped, MemoryInvHolds, GateInvHolds, PTL
=============================================================================
