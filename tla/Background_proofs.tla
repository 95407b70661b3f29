---------------------------- MODULE Background_proofs ----------------------------
(***************************************************************************)
(* Proofs about what MCBackground puts together, for any files, requests,  *)
(* runs, checklist, users and sockets: uploaded files stay beside their    *)
(* rows, the tasks of a completed run are the ones its sync rows name, the *)
(* set of online users is the set of the connected ones, and neither a run *)
(* nor a file that is to go is forgotten.                                  *)
(***************************************************************************)
EXTENDS MCBackground, Integers, TLAPS

----------------------------------------------------------------------------
(* The set of online users.                                                *)

(* Both halves of OnlineIsExact, which keep each other.                    *)
OnlineInv == Presences!TypeOK /\ OnlineIsExact

LEMMA OnlineStarts == Presences!Init => OnlineInv
<1> SUFFICES ASSUME Presences!Init PROVE OnlineInv
  OBVIOUS
<1>1. \A u \in Users : Presences!SocketsOf(u) = {}
  BY DEF Presences!Init, Presences!SocketsOf, Presences!Connected, Presences!NoSocket
<1>2. Presences!NoSocket \in [pc: {"off", "setup", "ready", "deaf", "leaving"}, user: Users]
  BY PresenceAssumption DEF Presences!NoSocket, Presences!Configured
<1> QED BY <1>1, <1>2 DEF Presences!Init, OnlineInv, OnlineIsExact, Presences!TypeOK,
           Presences!ConnectedAreOnline, Presences!GoneAreOffline

(* A step changes the sockets of one user at most, or of all.              *)
LEMMA SocketOfOne ==
  ASSUME Presences!TypeOK, NEW s \in Sockets, NEW new,
         new \in [pc: {"off", "setup", "ready", "deaf", "leaving"}, user: Users],
         sock' = [sock EXCEPT ![s] = new]
  PROVE  /\ sock' \in [Sockets -> [pc: {"off", "setup", "ready", "deaf", "leaving"}, user: Users]]
         /\ \A u \in Users :
              Presences!SocketsOf(u)' =
                (Presences!SocketsOf(u) \ {s})
                  \cup (IF new.pc \in Presences!Connected /\ new.user = u THEN {s} ELSE {})
<1>1. \A x \in Sockets : sock'[x] = IF x = s THEN new ELSE sock[x]
  BY DEF Presences!TypeOK
<1>2. sock' \in [Sockets -> [pc: {"off", "setup", "ready", "deaf", "leaving"}, user: Users]]
  BY DEF Presences!TypeOK
<1>3. ASSUME NEW u \in Users
      PROVE  Presences!SocketsOf(u)' =
                (Presences!SocketsOf(u) \ {s})
                  \cup (IF new.pc \in Presences!Connected /\ new.user = u THEN {s} ELSE {})
  BY <1>1 DEF Presences!SocketsOf
<1> QED BY <1>2, <1>3

LEMMA OnlineStays == OnlineInv /\ [Presences!Next]_presenceVars => OnlineInv'
<1> SUFFICES ASSUME OnlineInv, [Presences!Next]_presenceVars PROVE OnlineInv'
  OBVIOUS
<1> USE DEF OnlineInv
<1> DEFINE State == [pc: {"off", "setup", "ready", "deaf", "leaving"}, user: Users]
           None == Presences!NoSocket
<1>0. None \in State /\ None.pc = "off" /\ None.pc \notin Presences!Connected
  BY PresenceAssumption DEF Presences!NoSocket, Presences!Configured, Presences!Connected
<1>t. \A s \in Sockets : sock[s] \in State
  BY DEF Presences!TypeOK
<1>1. ASSUME NEW s \in Sockets, NEW u \in Users, Presences!Connect(s, u)
      PROVE  OnlineInv'
  <2> DEFINE new == [pc |-> "setup", user |-> u]
  <2>1. new \in State /\ new.pc \in Presences!Connected /\ new.user = u
    BY DEF Presences!Connected
  <2>2. sock' = [sock EXCEPT ![s] = new]
    BY <1>1 DEF Presences!Connect
  <2> HIDE DEF new
  <2>3. /\ Presences!SocketsOf(u)' # {}
        /\ \A v \in Users \ {u} : Presences!SocketsOf(v)' = Presences!SocketsOf(v)
    <3>1. \A v \in Users :
            Presences!SocketsOf(v)' = (Presences!SocketsOf(v) \ {s}) \cup (IF u = v THEN {s} ELSE {})
      BY <2>1, <2>2, SocketOfOne
    <3>2. \A v \in Users : s \notin Presences!SocketsOf(v)
      BY <1>1 DEF Presences!Connect, Presences!SocketsOf, Presences!Connected
    <3> QED BY <3>1, <3>2
  <2>4. sock' \in [Sockets -> State]
    BY <2>1, <2>2, SocketOfOne
  <2> QED BY <1>1, <2>3, <2>4 DEF Presences!Connect, Presences!TypeOK, OnlineIsExact,
             Presences!ConnectedAreOnline, Presences!GoneAreOffline
<1>2. ASSUME NEW s \in Sockets, Presences!Disconnect(s)
      PROVE  OnlineInv'
  <2> PICK u \in Users : u = sock[s].user
    BY <1>t
  <2> DEFINE new == [sock[s] EXCEPT !.pc = "leaving"]
  <2>1. new \in State /\ new.pc \notin Presences!Connected
    BY <1>t DEF Presences!Connected
  <2>2. sock' = [sock EXCEPT ![s] = new]
    BY <1>2, <1>t DEF Presences!Disconnect, Presences!TypeOK
  <2> HIDE DEF new
  <2>3. /\ Presences!SocketsOf(u)' = Presences!Remaining(s)
        /\ \A v \in Users \ {u} : Presences!SocketsOf(v)' = Presences!SocketsOf(v)
    BY <2>1, <2>2, SocketOfOne DEF Presences!SocketsOf, Presences!Remaining
  <2>4. sock' \in [Sockets -> State]
    BY <2>1, <2>2, SocketOfOne
  <2>5. Presences!SocketsOf(u) # {}
    BY <1>2 DEF Presences!SocketsOf, Presences!Disconnect, Presences!Connected
  <2> QED BY <1>2, <2>1, <2>3, <2>4, <2>5 DEF Presences!Disconnect, Presences!TypeOK,
             OnlineIsExact, Presences!ConnectedAreOnline, Presences!GoneAreOffline
<1>3. ASSUME NEW s \in Sockets, Presences!DropUnregistered(s)
      PROVE  OnlineInv'
  <2> PICK u \in Users : u = sock[s].user
    BY <1>t
  <2>2. sock' = [sock EXCEPT ![s] = None]
    BY <1>3 DEF Presences!DropUnregistered
  <2> HIDE DEF None
  <2>3. /\ Presences!SocketsOf(u)' = Presences!Remaining(s)
        /\ \A v \in Users \ {u} : Presences!SocketsOf(v)' = Presences!SocketsOf(v)
    <3>1. \A v \in Users : Presences!SocketsOf(v)' = Presences!SocketsOf(v) \ {s}
      <4>1. \A v \in Users :
              Presences!SocketsOf(v)' = (Presences!SocketsOf(v) \ {s})
                \cup (IF None.pc \in Presences!Connected /\ None.user = v THEN {s} ELSE {})
        BY <1>0, <2>2, SocketOfOne
      <4> QED BY <1>0, <4>1
    <3> QED BY <3>1 DEF Presences!SocketsOf, Presences!Remaining
  <2>4. sock' \in [Sockets -> State]
    BY <1>0, <2>2, SocketOfOne
  <2>5. Presences!SocketsOf(u) # {}
    BY <1>3 DEF Presences!SocketsOf, Presences!DropUnregistered, Presences!Connected
  <2> QED BY <1>3, <2>3, <2>4, <2>5 DEF Presences!DropUnregistered, Presences!TypeOK,
             OnlineIsExact, Presences!ConnectedAreOnline, Presences!GoneAreOffline
<1>4. ASSUME NEW s \in Sockets, NEW new \in State, sock' = [sock EXCEPT ![s] = new],
             new.pc \in Presences!Connected <=> sock[s].pc \in Presences!Connected,
             new.pc \in Presences!Connected => new.user = sock[s].user,
             UNCHANGED <<account, online, redisUp, missed, excused, hasty>>
      PROVE  OnlineInv'
  <2>1. \A v \in Users : Presences!SocketsOf(v)' = Presences!SocketsOf(v)
    BY <1>4, SocketOfOne DEF Presences!SocketsOf
  <2>2. sock' \in [Sockets -> State]
    BY <1>4, SocketOfOne
  <2> QED BY <1>4, <2>1, <2>2 DEF Presences!TypeOK, OnlineIsExact,
             Presences!ConnectedAreOnline, Presences!GoneAreOffline
<1>5. ASSUME NEW s \in Sockets, NEW pc \in {"ready", "deaf"}, sock[s].pc = "setup",
             sock' = [sock EXCEPT ![s].pc = pc],
             UNCHANGED <<account, online, redisUp, missed, excused, hasty>>
      PROVE  OnlineInv'
  <2> DEFINE new == [sock[s] EXCEPT !.pc = pc]
  <2>1. new \in State /\ new.pc = pc /\ new.user = sock[s].user
    BY <1>t
  <2>2. sock' = [sock EXCEPT ![s] = new]
    BY <1>5, <1>t DEF Presences!TypeOK
  <2> HIDE DEF new
  <2> QED BY <1>4, <1>5, <2>1, <2>2 DEF Presences!Connected
<1>6. ASSUME NEW s \in Sockets, Presences!Leave(s) \/ Presences!LeaveFails(s)
      PROVE  OnlineInv'
  BY <1>0, <1>4, <1>6 DEF Presences!Leave, Presences!LeaveFails, Presences!Connected
<1>7. CASE Presences!Crash
  <2>1. \A v \in Users : Presences!SocketsOf(v)' = {}
    BY <1>0, <1>7 DEF Presences!Crash, Presences!SocketsOf
  <2>2. sock' \in [Sockets -> State]
    BY <1>0, <1>7 DEF Presences!Crash
  <2> QED BY <1>7, <2>1, <2>2 DEF Presences!Crash, Presences!TypeOK, OnlineIsExact,
             Presences!ConnectedAreOnline, Presences!GoneAreOffline
<1>8. ASSUME UNCHANGED <<sock, online, missed, excused, hasty>>,
             account' \subseteq account, redisUp' \in BOOLEAN
      PROVE  OnlineInv'
  BY <1>8 DEF Presences!TypeOK, OnlineIsExact, Presences!SocketsOf,
         Presences!ConnectedAreOnline, Presences!GoneAreOffline
<1>9. CASE UNCHANGED presenceVars
  BY <1>8, <1>9 DEF presenceVars, Presences!TypeOK
<1>10. CASE Presences!RedisUpOrDown \/ \E u \in Users : Presences!DeleteAccount(u)
  BY <1>8, <1>10 DEF Presences!RedisUpOrDown, Presences!DeleteAccount, Presences!TypeOK
<1>11. ASSUME NEW s \in Sockets, Presences!Register(s) \/ Presences!SetupFails(s)
       PROVE  OnlineInv'
  BY <1>5, <1>11 DEF Presences!Register, Presences!SetupFails
<1> QED BY <1>1, <1>2, <1>3, <1>6, <1>7, <1>9, <1>10, <1>11 DEF Presences!Next

(* Whoever is connected is online, and nobody else, but for the reasons    *)
(* that Presence names.                                                    *)
THEOREM OnlineStaysExact == BackgroundSpec => []OnlineIsExact
<1>1. BackgroundInit => OnlineInv
  BY OnlineStarts DEF BackgroundInit
<1>2. OnlineInv /\ [BackgroundNext]_<<part, vars, runVars, presenceVars>> => OnlineInv'
  BY OnlineStays DEF BackgroundNext
<1>3. OnlineInv => OnlineIsExact
  BY DEF OnlineInv
<1> QED BY <1>1, <1>2, <1>3, PTL DEF BackgroundSpec

----------------------------------------------------------------------------
(* The tasks of completed runs.                                            *)

Before == {"idle", "instance", "create", "run", "emit", "started"}
During == {"find", "task", "sync", "complete"}
After == {"completed", "fail", "failed", "over"}

RequestState == [pc: Before \cup During \cup After, item: 1..Len(Checklist) + 1]

(* A task of item j that is there is the one its slug is mapped to. *)
MappedRight(r, j) == task[r][j] = "kept" => sync[r][Checklist[j]] = j

(* What is so when a run stands at item i: no task was made from i on (but *)
(* the one of i that waits for its sync row), and those before are mapped. *)
RunSound(r) ==
  LET i == runReq[r].item   pc == runReq[r].pc IN
  /\ pc \in Before => i = 1 /\ \A j \in Screening!Items : task[r][j] = "none"
  /\ pc \in During => \A j \in Screening!Items : /\ j < i => MappedRight(r, j)
                                                 /\ j > i => task[r][j] = "none"
  /\ pc \in {"find", "task"} => \A j \in Screening!Items : j = i => task[r][j] = "none"
  /\ pc \in {"task", "sync"} => i \in Screening!Items /\ sync[r][Checklist[i]] = 0
  /\ pc = "complete" => i = Len(Checklist) + 1
  /\ run[r] = "completed" => pc \in After /\ \A j \in Screening!Items : MappedRight(r, j)

RunsInv == Screening!TypeOK /\ \A r \in Runs : RunSound(r)

LEMMA ItemFacts ==
  /\ Len(Checklist) \in Nat
  /\ \A j \in Screening!Items : j \in 1..Len(Checklist) /\ Checklist[j] \in Screening!Slugs
  /\ 1..Len(Checklist) \subseteq Screening!Items
BY ChecklistAssumption DEF Screening!Configured, Screening!Items, Screening!Slugs

LEMMA RequestTypes ==
  Screening!TypeOK => runReq \in [Runs -> RequestState]
BY DEF Screening!TypeOK, RequestState, Before, During, After

LEMMA RunsStart == Screening!Init => RunsInv
<1> SUFFICES ASSUME Screening!Init PROVE RunsInv
  OBVIOUS
<1>1. Screening!Idle \in RequestState
  BY ItemFacts DEF Screening!Idle, RequestState, Before
<1>2. Screening!TypeOK
  <2>1. /\ Screening!NoTasks \in [Screening!Items -> {"none", "kept", "gone"}]
        /\ Screening!NoSync \in [Screening!Slugs -> 0..Len(Checklist)]
    BY ItemFacts DEF Screening!NoTasks, Screening!NoSync
  <2>2. runReq \in [Runs -> RequestState]
    BY <1>1 DEF Screening!Init
  <2> QED BY <2>1, <2>2 DEF Screening!Init, Screening!TypeOK, RequestState, Before, During, After
<1>3. ASSUME NEW r \in Runs PROVE RunSound(r)
  BY ItemFacts DEF Screening!Init, Screening!NoTasks, Screening!Idle, RunSound,
     Before, During, After
<1> QED BY <1>2, <1>3 DEF RunsInv

(* A run whose rows and request stand still.                               *)
LEMMA RestingRun ==
  ASSUME NEW x \in Runs, RunSound(x),
         UNCHANGED <<run[x], task[x], sync[x], runReq[x]>>
  PROVE  RunSound(x)'
BY DEF RunSound, MappedRight

(* The request of one run moves on.                                        *)
LEMMA OneMoves ==
  ASSUME Screening!TypeOK, NEW r \in Runs, NEW pc \in Before \cup During \cup After,
         Screening!Go(r, pc)
  PROVE  /\ runReq' \in [Runs -> RequestState]
         /\ runReq'[r].pc = pc /\ runReq'[r].item = runReq[r].item
         /\ \A x \in Runs \ {r} : runReq'[x] = runReq[x]
BY RequestTypes DEF Screening!Go, RequestState

LEMMA OneAdvances ==
  ASSUME Screening!TypeOK, NEW r \in Runs, Screening!Advance(r),
         runReq[r].item \in Screening!Items
  PROVE  /\ runReq' \in [Runs -> RequestState]
         /\ runReq'[r].pc = "find" /\ runReq'[r].item = runReq[r].item + 1
         /\ \A x \in Runs \ {r} : runReq'[x] = runReq[x]
<1>1. [pc |-> "find", item |-> runReq[r].item + 1] \in RequestState
  BY ItemFacts DEF RequestState, During
<1> QED BY <1>1, RequestTypes DEF Screening!Advance

(* A step that writes no row and moves one request within what is sound.   *)
LEMMA RowsStand ==
  ASSUME RunsInv, NEW r \in Runs, UNCHANGED Screening!rows, stranded' \subseteq Runs,
         runReq' \in [Runs -> RequestState],
         \A x \in Runs \ {r} : runReq'[x] = runReq[x],
         RunSound(r)'
  PROVE  RunsInv'
<1>1. Screening!TypeOK'
  BY DEF RunsInv, Screening!TypeOK, Screening!rows, RequestState, Before, During, After
<1>2. ASSUME NEW x \in Runs PROVE RunSound(x)'
  BY RestingRun DEF RunsInv, Screening!rows
<1> QED BY <1>1, <1>2 DEF RunsInv

LEMMA QuietStep ==
  ASSUME RunsInv, NEW r \in Runs,
         \/ Screening!FindInstance(r) \/ Screening!Emit(r) \/ Screening!FailsEarly(r)
         \/ Screening!PostStarted(r) \/ Screening!PostCompleted(r) \/ Screening!Fails(r)
         \/ Screening!PostFailed(r)
  PROVE  RunsInv'
<1>1. PICK pc \in Before \cup During \cup After :
        /\ Screening!Go(r, pc)
        /\ \/ runReq[r].pc \in Before /\ run[r] # "completed" /\ pc \in Before \cup {"find", "over"}
           \/ pc \in After /\ runReq[r].pc \in During \cup After
           \/ runReq[r].pc = "started" /\ pc \in After
  BY DEF Screening!FindInstance, Screening!Emit, Screening!FailsEarly,
     Screening!PostStarted, Screening!PostCompleted, Screening!Fails, Screening!PostFailed,
     Screening!Over, Screening!Caught, Before, During, After, RunsInv, RunSound
<1>2. UNCHANGED Screening!rows /\ stranded' \subseteq Runs
  BY DEF Screening!FindInstance, Screening!Emit, Screening!FailsEarly,
     Screening!PostStarted, Screening!PostCompleted, Screening!Fails, Screening!PostFailed,
     RunsInv, Screening!TypeOK
<1>3. /\ runReq' \in [Runs -> RequestState]
      /\ runReq'[r].pc = pc /\ runReq'[r].item = runReq[r].item
      /\ \A x \in Runs \ {r} : runReq'[x] = runReq[x]
  BY <1>1, OneMoves DEF RunsInv
<1>4. RunSound(r)'
  <2>1. RunSound(r) /\ UNCHANGED <<run[r], task[r], sync[r]>>
    BY <1>2 DEF RunsInv, Screening!rows
  <2> QED BY <1>1, <1>3, <2>1, ItemFacts DEF RunSound, MappedRight, Before, During, After
<1> QED BY <1>2, <1>3, <1>4, RowsStand

LEMMA FindSyncStep ==
  ASSUME RunsInv, NEW r \in Runs, Screening!FindSync(r)
  PROVE  RunsInv'
<1> DEFINE i == runReq[r].item
<1>1. i \in 1..Len(Checklist) + 1 /\ UNCHANGED Screening!rows /\ stranded' \subseteq Runs
  BY RequestTypes DEF RunsInv, RequestState, Screening!FindSync, Screening!TypeOK
<1>2. RunSound(r) /\ UNCHANGED <<run[r], task[r], sync[r]>> /\ runReq[r].pc = "find"
  BY <1>1 DEF RunsInv, Screening!rows, Screening!FindSync
<1>3. CASE i > Len(Checklist)
  <2>1. Screening!Go(r, "complete")
    BY <1>3, <1>1, ItemFacts DEF Screening!FindSync
  <2>2. /\ runReq' \in [Runs -> RequestState]
        /\ runReq'[r].pc = "complete" /\ runReq'[r].item = i
        /\ \A x \in Runs \ {r} : runReq'[x] = runReq[x]
    BY <2>1, OneMoves DEF RunsInv, During
  <2>3. RunSound(r)'
    BY <1>1, <1>2, <1>3, <2>2, ItemFacts DEF RunSound, MappedRight, Before, During, After
  <2> QED BY <1>1, <2>2, <2>3, RowsStand
<1>4. CASE i \in Screening!Items /\ sync[r][Checklist[i]] # 0
  <2>1. Screening!Advance(r)
    BY <1>4, <1>1, ItemFacts DEF Screening!FindSync, Screening!Mapped
  <2>2. /\ runReq' \in [Runs -> RequestState]
        /\ runReq'[r].pc = "find" /\ runReq'[r].item = i + 1
        /\ \A x \in Runs \ {r} : runReq'[x] = runReq[x]
    BY <1>4, <2>1, OneAdvances DEF RunsInv
  <2>3. RunSound(r)'
    BY <1>1, <1>2, <1>4, <2>2, ItemFacts DEF RunSound, MappedRight, Before, During, After
  <2> QED BY <1>1, <2>2, <2>3, RowsStand
<1>5. CASE i \in Screening!Items /\ sync[r][Checklist[i]] = 0
  <2>1. Screening!Go(r, "task")
    BY <1>5, <1>1, ItemFacts DEF Screening!FindSync, Screening!Mapped
  <2>2. /\ runReq' \in [Runs -> RequestState]
        /\ runReq'[r].pc = "task" /\ runReq'[r].item = i
        /\ \A x \in Runs \ {r} : runReq'[x] = runReq[x]
    BY <2>1, OneMoves DEF RunsInv, During
  <2>3. RunSound(r)'
    BY <1>1, <1>2, <1>5, <2>2, ItemFacts DEF RunSound, MappedRight, Before, During, After
  <2> QED BY <1>1, <2>2, <2>3, RowsStand
<1> QED BY <1>1, <1>3, <1>4, <1>5, ItemFacts

(* A step of one run that writes rows of that run, or none of any run.     *)
LEMMA RowsOfOne ==
  ASSUME RunsInv, NEW r \in Runs,
         project' \in {"kept", "gone"}, linked' \in BOOLEAN, instance' \in BOOLEAN,
         stranded' \subseteq Runs,
         run' \in [Runs -> {"none", "started", "completed", "failed", "gone"}],
         task' \in [Runs -> [Screening!Items -> {"none", "kept", "gone"}]],
         sync' \in [Runs -> [Screening!Slugs -> 0..Len(Checklist)]],
         runReq' \in [Runs -> RequestState],
         \A x \in Runs \ {r} : UNCHANGED <<run[x], task[x], sync[x], runReq[x]>>,
         RunSound(r)'
  PROVE  RunsInv'
<1>1. Screening!TypeOK'
  BY DEF Screening!TypeOK, RequestState, Before, During, After
<1>2. ASSUME NEW x \in Runs PROVE RunSound(x)'
  BY RestingRun DEF RunsInv
<1> QED BY <1>1, <1>2 DEF RunsInv

LEMMA BeginStep ==
  ASSUME RunsInv, NEW r \in Runs, NEW manager \in BOOLEAN, Screening!Begin(r, manager)
  PROVE  RunsInv'
<1>1. /\ runReq' \in [Runs -> RequestState]
      /\ runReq'[r].pc = "instance" /\ runReq'[r].item = runReq[r].item
      /\ \A x \in Runs \ {r} : runReq'[x] = runReq[x]
  BY OneMoves DEF RunsInv, Before, Screening!Begin
<1>2. RunSound(r)'
  BY <1>1 DEF RunsInv, RunSound, Screening!Begin, MappedRight, Before, During, After
<1> QED BY <1>1, <1>2, RowsOfOne DEF Screening!Begin, RunsInv, Screening!TypeOK

LEMMA CreateInstanceStep ==
  ASSUME RunsInv, NEW r \in Runs, Screening!CreateInstance(r)
  PROVE  RunsInv'
<1>1. /\ runReq' \in [Runs -> RequestState]
      /\ runReq'[r].pc = "run" /\ runReq'[r].item = runReq[r].item
      /\ \A x \in Runs \ {r} : runReq'[x] = runReq[x]
  BY OneMoves DEF RunsInv, Before, Screening!CreateInstance
<1>2. RunSound(r)'
  BY <1>1 DEF RunsInv, RunSound, Screening!CreateInstance, MappedRight, Before, During, After
<1> QED BY <1>1, <1>2, RowsOfOne DEF Screening!CreateInstance, RunsInv, Screening!TypeOK

LEMMA CreateRunStep ==
  ASSUME RunsInv, NEW r \in Runs, Screening!CreateRun(r)
  PROVE  RunsInv'
<1>1. /\ runReq' \in [Runs -> RequestState]
      /\ runReq'[r].pc = "emit" /\ runReq'[r].item = runReq[r].item
      /\ \A x \in Runs \ {r} : runReq'[x] = runReq[x]
  BY OneMoves DEF RunsInv, Before, Screening!CreateRun
<1>2. /\ run' \in [Runs -> {"none", "started", "completed", "failed", "gone"}]
      /\ run'[r] = "started" /\ \A x \in Runs \ {r} : run'[x] = run[x]
  BY DEF RunsInv, Screening!TypeOK, Screening!CreateRun
<1>3. RunSound(r)'
  BY <1>1, <1>2 DEF RunsInv, RunSound, Screening!CreateRun, MappedRight, Before, During, After
<1> QED BY <1>1, <1>2, <1>3, RowsOfOne DEF Screening!CreateRun, RunsInv, Screening!TypeOK

LEMMA CreateTaskStep ==
  ASSUME RunsInv, NEW r \in Runs, Screening!CreateTask(r)
  PROVE  RunsInv'
<1> DEFINE i == runReq[r].item
<1>1. /\ runReq' \in [Runs -> RequestState]
      /\ runReq'[r].pc = "sync" /\ runReq'[r].item = i
      /\ \A x \in Runs \ {r} : runReq'[x] = runReq[x]
  BY OneMoves DEF RunsInv, During, Screening!CreateTask
<1>2. /\ task' \in [Runs -> [Screening!Items -> {"none", "kept", "gone"}]]
      /\ \A j \in Screening!Items \ {i} : task'[r][j] = task[r][j]
      /\ \A x \in Runs \ {r} : task'[x] = task[x]
  BY DEF RunsInv, Screening!TypeOK, Screening!CreateTask
<1>3. RunSound(r)'
  <2>1. runReq[r].pc = "task" /\ sync'[r] = sync[r] /\ run'[r] = run[r] /\ RunSound(r)
    BY DEF Screening!CreateTask, RunsInv
  <2>2. i \in Screening!Items
    BY <2>1 DEF RunSound
  <2> QED BY <1>1, <1>2, <2>1, <2>2, ItemFacts
          DEF RunSound, MappedRight, Before, During, After
<1> QED BY <1>1, <1>2, <1>3, RowsOfOne DEF Screening!CreateTask, RunsInv, Screening!TypeOK

(* The task of an item whose slug had no row is mapped now, and no other   *)
(* item with this slug has a task.                                         *)
LEMMA CreateSyncStep ==
  ASSUME RunsInv, NEW r \in Runs, Screening!CreateSync(r)
  PROVE  RunsInv'
<1> DEFINE i == runReq[r].item
<1>1. runReq[r].pc = "sync" /\ task'[r] = task[r] /\ run'[r] = run[r] /\ RunSound(r)
  BY DEF Screening!CreateSync, RunsInv
<1>2. i \in Screening!Items /\ sync[r][Checklist[i]] = 0 /\ i \in 1..Len(Checklist)
  BY <1>1, ItemFacts DEF RunSound
<1>3. /\ runReq' \in [Runs -> RequestState]
      /\ runReq'[r].pc = "find" /\ runReq'[r].item = i + 1
      /\ \A x \in Runs \ {r} : runReq'[x] = runReq[x]
  BY <1>2, OneAdvances DEF RunsInv, Screening!CreateSync
<1>4. sync' = [sync EXCEPT ![r][Checklist[i]] = i]
  BY <1>2 DEF Screening!CreateSync
<1>5. /\ sync' \in [Runs -> [Screening!Slugs -> 0..Len(Checklist)]]
      /\ sync'[r][Checklist[i]] = i
      /\ \A s \in Screening!Slugs \ {Checklist[i]} : sync'[r][s] = sync[r][s]
      /\ \A x \in Runs \ {r} : sync'[x] = sync[x]
  BY <1>2, <1>4, ItemFacts DEF RunsInv, Screening!TypeOK
<1>6. ASSUME NEW j \in Screening!Items, j <= i PROVE MappedRight(r, j)'
  <2>1. j \in 1..Len(Checklist) /\ Checklist[j] \in Screening!Slugs
    BY ItemFacts
  <2>2. j < i => MappedRight(r, j)
    BY <1>1 DEF RunSound, During
  <2>3. CASE j = i
    BY <1>5, <2>3 DEF MappedRight
  <2>4. CASE j < i
    <3> SUFFICES ASSUME task[r][j] = "kept" PROVE sync'[r][Checklist[j]] = j
      BY <1>1 DEF MappedRight
    <3>1. sync[r][Checklist[j]] = j /\ j # 0
      BY <2>1, <2>2, <2>4 DEF MappedRight
    <3>2. Checklist[j] # Checklist[i]
      BY <1>2, <3>1
    <3> QED BY <1>5, <2>1, <3>1, <3>2
  <2> QED BY <1>2, <1>6, <2>1, <2>3, <2>4
<1>7. RunSound(r)'
  BY <1>1, <1>2, <1>3, <1>6, ItemFacts DEF RunSound, Before, During, After
<1> QED BY <1>3, <1>5, <1>7, RowsOfOne DEF Screening!CreateSync, RunsInv, Screening!TypeOK

LEMMA CompleteStep ==
  ASSUME RunsInv, NEW r \in Runs, Screening!Complete(r)
  PROVE  RunsInv'
<1>1. /\ runReq' \in [Runs -> RequestState]
      /\ runReq'[r].pc = "completed" /\ runReq'[r].item = runReq[r].item
      /\ \A x \in Runs \ {r} : runReq'[x] = runReq[x]
  BY OneMoves DEF RunsInv, After, Screening!Complete
<1>2. /\ run' \in [Runs -> {"none", "started", "completed", "failed", "gone"}]
      /\ \A x \in Runs \ {r} : run'[x] = run[x]
  BY DEF RunsInv, Screening!TypeOK, Screening!Complete
<1>3. \A j \in Screening!Items : MappedRight(r, j)'
  BY ItemFacts DEF RunsInv, RunSound, Screening!Complete, MappedRight, During
<1>4. RunSound(r)'
  BY <1>1, <1>3 DEF RunSound, Before, During, After
<1> QED BY <1>1, <1>2, <1>4, RowsOfOne DEF Screening!Complete, RunsInv, Screening!TypeOK

LEMMA FailRunStep ==
  ASSUME RunsInv, NEW r \in Runs, Screening!FailRun(r)
  PROVE  RunsInv'
<1>1. /\ runReq' \in [Runs -> RequestState]
      /\ runReq'[r].pc = "failed" /\ runReq'[r].item = runReq[r].item
      /\ \A x \in Runs \ {r} : runReq'[x] = runReq[x]
  BY OneMoves DEF RunsInv, After, Screening!FailRun
<1>2. /\ run' \in [Runs -> {"none", "started", "completed", "failed", "gone"}]
      /\ run'[r] = "failed" /\ \A x \in Runs \ {r} : run'[x] = run[x]
  BY DEF RunsInv, Screening!TypeOK, Screening!FailRun
<1>3. RunSound(r)'
  BY <1>1, <1>2 DEF RunSound, Before, During, After
<1> QED BY <1>1, <1>2, <1>3, RowsOfOne DEF Screening!FailRun, RunsInv, Screening!TypeOK

LEMMA RestartStep ==
  ASSUME RunsInv, Screening!Restart
  PROVE  RunsInv'
<1>1. Screening!Idle \in RequestState
  BY ItemFacts DEF Screening!Idle, RequestState, Before
<1>2. ASSUME NEW x \in Runs
      PROVE  /\ runReq'[x] \in RequestState
             /\ runReq[x].pc = "idle" => runReq'[x] = Screening!Idle
             /\ runReq[x].pc # "idle" => runReq'[x].pc = "over"
  BY <1>1, RequestTypes DEF RunsInv, Screening!Restart, RequestState, After
<1>3. runReq' \in [Runs -> RequestState]
  BY <1>2 DEF Screening!Restart
<1>4. Screening!TypeOK'
  BY <1>3 DEF RunsInv, Screening!TypeOK, Screening!Restart, Screening!rows, RequestState,
     Before, During, After
<1>5. ASSUME NEW x \in Runs PROVE RunSound(x)'
  BY <1>2 DEF RunsInv, RunSound, MappedRight, Screening!Restart, Screening!rows,
     Screening!Idle, Before, During, After
<1> QED BY <1>4, <1>5 DEF RunsInv

LEMMA DeleteTaskStep ==
  ASSUME RunsInv, NEW r \in Runs, NEW k \in Screening!Items, Screening!DeleteTask(r, k)
  PROVE  RunsInv'
<1>1. /\ task' \in [Runs -> [Screening!Items -> {"none", "kept", "gone"}]]
      /\ task[r][k] = "kept" /\ task'[r][k] = "gone"
      /\ \A j \in Screening!Items \ {k} : task'[r][j] = task[r][j]
      /\ \A x \in Runs \ {r} : task'[x] = task[x]
  BY DEF RunsInv, Screening!TypeOK, Screening!DeleteTask
<1>2. /\ sync' \in [Runs -> [Screening!Slugs -> 0..Len(Checklist)]]
      /\ \A s \in Screening!Slugs : sync'[r][s] = IF sync[r][s] = k THEN 0 ELSE sync[r][s]
      /\ \A x \in Runs \ {r} : sync'[x] = sync[x]
  BY ItemFacts DEF RunsInv, Screening!TypeOK, Screening!DeleteTask
<1>3. UNCHANGED <<run, runReq, project, linked, instance, stranded>>
  BY DEF Screening!DeleteTask
<1>4. ASSUME NEW j \in Screening!Items, MappedRight(r, j) PROVE MappedRight(r, j)'
  BY <1>1, <1>2, <1>4, ItemFacts DEF MappedRight
<1>5. RunSound(r)'
  <2>1. RunSound(r) /\ runReq'[r] = runReq[r] /\ run'[r] = run[r]
    BY <1>3 DEF RunsInv
  <2>2. \A j \in Screening!Items : task[r][j] = "none" => task'[r][j] = "none"
    BY <1>1
  <2>3. \A s \in Screening!Slugs : sync[r][s] = 0 => sync'[r][s] = 0
    BY <1>2
  <2> QED BY <1>4, <2>1, <2>2, <2>3, ItemFacts DEF RunSound, Before, During, After
<1>6. runReq' \in [Runs -> RequestState]
  BY <1>3, RequestTypes DEF RunsInv
<1> QED BY <1>1, <1>2, <1>3, <1>5, <1>6, RowsOfOne DEF RunsInv, Screening!TypeOK

LEMMA DeleteProjectStep ==
  ASSUME RunsInv, Screening!DeleteProject
  PROVE  RunsInv'
<1>1. ASSUME NEW x \in Runs
      PROVE  /\ run'[x] = IF run[x] = "none" THEN "none" ELSE "gone"
             /\ \A j \in Screening!Items :
                  task'[x][j] = IF task[x][j] = "none" THEN "none" ELSE "gone"
             /\ \A s \in Screening!Slugs : sync'[x][s] = 0
  BY DEF Screening!DeleteProject, Screening!NoSync
<1>2. Screening!TypeOK'
  <2>1. Screening!NoSync \in [Screening!Slugs -> 0..Len(Checklist)]
    BY ItemFacts DEF Screening!NoSync
  <2>2. task' \in [Runs -> [Screening!Items -> {"none", "kept", "gone"}]]
    BY DEF Screening!DeleteProject
  <2> QED BY <2>1, <2>2 DEF RunsInv, Screening!TypeOK, Screening!DeleteProject
<1>3. ASSUME NEW x \in Runs PROVE RunSound(x)'
  <2>1. RunSound(x) /\ runReq'[x] = runReq[x]
    BY DEF RunsInv, Screening!DeleteProject
  <2> QED BY <1>1, <2>1, ItemFacts DEF RunSound, MappedRight, Before, During, After
<1> QED BY <1>2, <1>3 DEF RunsInv

LEMMA RunsStay == RunsInv /\ [Screening!Next]_runVars => RunsInv'
<1> SUFFICES ASSUME RunsInv, [Screening!Next]_runVars PROVE RunsInv'
  OBVIOUS
<1>1. ASSUME NEW r \in Runs, Screening!Step(r) PROVE RunsInv'
  BY <1>1, QuietStep, FindSyncStep, CreateInstanceStep, CreateRunStep, CreateTaskStep,
     CreateSyncStep, CompleteStep, FailRunStep, RestartStep
     DEF Screening!Step, Screening!HandlingFails
<1>2. CASE Screening!Unlink \/ UNCHANGED runVars
  <2>1. Screening!TypeOK'
    BY <1>2 DEF RunsInv, Screening!TypeOK, Screening!Unlink, runVars
  <2>2. UNCHANGED <<run, task, sync, runReq>>
    BY <1>2 DEF Screening!Unlink, runVars
  <2> QED BY <2>1, <2>2, RestingRun DEF RunsInv
<1> QED BY <1>1, <1>2, BeginStep, DeleteTaskStep, DeleteProjectStep, RestartStep
        DEF Screening!Next

(* The tasks of a completed run are the ones its sync rows name.           *)
THEOREM TasksStayMapped == BackgroundSpec => []TasksAreMapped
<1>1. BackgroundInit => RunsInv
  BY RunsStart DEF BackgroundInit
<1>2. RunsInv /\ [BackgroundNext]_<<part, vars, runVars, presenceVars>> => RunsInv'
  BY RunsStay DEF BackgroundNext
<1>3. RunsInv => TasksAreMapped
  BY DEF RunsInv, RunSound, MappedRight, TasksAreMapped, Screening!TasksAreMapped
<1> QED BY <1>1, <1>2, <1>3, PTL DEF BackgroundSpec

(* A step of one run: it starts, ends and strands no other.                *)
LEMMA OneRunStays ==
  ASSUME StartedAreInHand, NEW r \in Runs, stranded \subseteq stranded',
         \A x \in Runs \ {r} : run'[x] = run[x] /\ runReq'[x].pc = runReq[x].pc,
         run'[r] = "started" =>
           \/ runReq'[r].pc \in {"emit", "started", "find", "task", "sync", "complete", "fail"}
           \/ r \in stranded'
  PROVE  StartedAreInHand'
BY DEF StartedAreInHand, Screening!StartedAreInHand

LEMMA GoesTo ==
  ASSUME Screening!TypeOK, NEW r \in Runs, NEW pc,
         Screening!Go(r, pc) \/ (pc = "find" /\ Screening!Advance(r))
  PROVE  runReq'[r].pc = pc /\ \A x \in Runs \ {r} : runReq'[x].pc = runReq[x].pc
BY RequestTypes DEF Screening!Go, Screening!Advance, RequestState

LEMMA RunStepInHand ==
  ASSUME Screening!TypeOK, StartedAreInHand, NEW r \in Runs, Screening!Step(r),
         ~Screening!HandlingFails(r)
  PROVE  StartedAreInHand'
<1>0. run[r] = "started" =>
        \/ runReq[r].pc \in {"emit", "started", "find", "task", "sync", "complete", "fail"}
        \/ r \in stranded
  BY DEF StartedAreInHand, Screening!StartedAreInHand
<1>1. ASSUME Screening!FindInstance(r) \/ Screening!CreateInstance(r)
      PROVE  StartedAreInHand'
  <2>1. PICK pc : /\ Screening!Go(r, pc) /\ UNCHANGED <<run, stranded>>
                  /\ runReq[r].pc \in {"instance", "create"}
    BY <1>1 DEF Screening!FindInstance, Screening!CreateInstance, Screening!rows
  <2> QED BY <1>0, <2>1, GoesTo, OneRunStays
<1>2. ASSUME Screening!CreateRun(r) \/ Screening!Complete(r) \/ Screening!FailRun(r)
      PROVE  StartedAreInHand'
  <2>1. PICK pc, status :
          /\ Screening!Go(r, pc) /\ run' = [run EXCEPT ![r] = status] /\ stranded' = stranded
          /\ pc = "emit" \/ status # "started"
    BY <1>2 DEF Screening!CreateRun, Screening!Complete, Screening!FailRun
  <2>2. run'[r] = status /\ \A x \in Runs \ {r} : run'[x] = run[x]
    BY <2>1 DEF Screening!TypeOK
  <2> QED BY <2>1, <2>2, GoesTo, OneRunStays
<1>3. ASSUME \/ Screening!Emit(r) \/ Screening!PostStarted(r) \/ Screening!Fails(r)
             \/ Screening!FindSync(r) \/ Screening!CreateTask(r) \/ Screening!CreateSync(r)
      PROVE  StartedAreInHand'
  <2>1. PICK pc \in {"started", "find", "task", "sync", "complete", "fail"} :
          /\ Screening!Go(r, pc) \/ (pc = "find" /\ Screening!Advance(r))
          /\ UNCHANGED <<run, stranded>>
    BY <1>3 DEF Screening!Emit, Screening!PostStarted, Screening!Fails, Screening!FindSync,
       Screening!CreateTask, Screening!CreateSync, Screening!Caught, Screening!rows
  <2> QED BY <2>1, GoesTo, OneRunStays
<1>4. ASSUME Screening!PostCompleted(r) \/ Screening!PostFailed(r) \/ Screening!FailsEarly(r)
      PROVE  StartedAreInHand'
  <2>1. /\ Screening!Go(r, "over") /\ run' = run /\ stranded \subseteq stranded'
        /\ runReq[r].pc \in {"completed", "failed", "instance", "create", "run"} \/ r \in stranded'
    BY <1>4 DEF Screening!PostCompleted, Screening!PostFailed, Screening!FailsEarly,
       Screening!Over, Screening!rows
  <2> QED BY <1>0, <2>1, GoesTo, OneRunStays
<1> QED BY <1>1, <1>2, <1>3, <1>4 DEF Screening!Step

LEMMA StartedStay ==
  Screening!TypeOK /\ StartedAreInHand /\ [Screening!Next]_runVars => StartedAreInHand'
<1> SUFFICES ASSUME Screening!TypeOK, StartedAreInHand, [Screening!Next]_runVars
             PROVE  StartedAreInHand'
  OBVIOUS
<1>1. ASSUME NEW r \in Runs, Screening!Step(r), ~Screening!HandlingFails(r)
      PROVE  StartedAreInHand'
  BY <1>1, RunStepInHand
<1>2. ASSUME NEW r \in Runs, NEW manager \in BOOLEAN, Screening!Begin(r, manager)
      PROVE  StartedAreInHand'
  <2>1. run' = run /\ stranded' = stranded /\ runReq[r].pc = "idle" /\ runReq'[r].pc = "instance"
        /\ \A x \in Runs \ {r} : runReq'[x] = runReq[x]
    BY <1>2, RequestTypes DEF Screening!Begin, Screening!Go, RequestState
  <2> QED BY <2>1, OneRunStays DEF StartedAreInHand, Screening!StartedAreInHand
<1>3. CASE Screening!Restart
  <2>1. /\ run' = run
        /\ stranded' = stranded \cup {r \in Runs : runReq[r].pc \notin {"idle", "over"}}
    BY <1>3 DEF Screening!Restart, Screening!rows
  <2> QED BY <2>1 DEF StartedAreInHand, Screening!StartedAreInHand
<1>4. CASE Screening!DeleteProject
  <2>1. UNCHANGED <<runReq, stranded>> /\ \A r \in Runs : run'[r] # "started"
    BY <1>4 DEF Screening!DeleteProject
  <2> QED BY <2>1 DEF StartedAreInHand, Screening!StartedAreInHand
<1>5. CASE UNCHANGED <<run, runReq, stranded>>
  BY <1>5 DEF StartedAreInHand, Screening!StartedAreInHand
<1>6. ASSUME NEW r \in Runs, NEW i \in Screening!Items, Screening!DeleteTask(r, i)
      PROVE  UNCHANGED <<run, runReq, stranded>>
  BY <1>6 DEF Screening!DeleteTask
<1>7. Screening!Unlink \/ UNCHANGED runVars => UNCHANGED <<run, runReq, stranded>>
  BY DEF Screening!Unlink, runVars
<1> QED BY <1>1, <1>2, <1>3, <1>4, <1>5, <1>6, <1>7 DEF Screening!Next, Screening!HandlingFails

(* A run that is started has a request that is still to end it, unless the *)
(* process stopped or the event of the start failed: no path through the   *)
(* failures leaves it behind.  With the fairness of the handler this is    *)
(* why every run ends (RunsEnd).                                           *)
THEOREM NoRunIsLeftBehind == BackgroundSpec => []StartedAreInHand
<1>1. BackgroundInit => RunsInv /\ StartedAreInHand
  BY RunsStart DEF BackgroundInit, Screening!Init, StartedAreInHand, Screening!StartedAreInHand
<1>2. /\ RunsInv /\ StartedAreInHand
      /\ [BackgroundNext]_<<part, vars, runVars, presenceVars>>
      => RunsInv' /\ StartedAreInHand'
  BY RunsStay, StartedStay DEF BackgroundNext, RunsInv
<1> QED BY <1>1, <1>2, PTL DEF BackgroundSpec

----------------------------------------------------------------------------
(* The files of uploads.                                                   *)

Upload == [pc: {"idle", "check", "store", "after", "row", "file"}, file: Files]
Uploading == {"check", "store", "after"}

(* What a request may rely on about the file it has in hand, however rows  *)
(* and files go meanwhile.                                                 *)
RequestSound(r) ==
  LET f == req[r].file IN
  /\ req[r].pc \in {"check", "store"} => row[f] = "none" /\ file[f] = "stored"
  /\ req[r].pc = "after" => /\ row[f] # "none" /\ f \notin answered
                            /\ row[f] = "kept" => file[f] = "stored"
  /\ req[r].pc = "row" => row[f] # "none"
  /\ req[r].pc = "file" => row[f] = "gone"

(* No file is uploaded by two requests.                                    *)
UploadsApart ==
  \A r, s \in Requests :
    r # s /\ req[r].pc \in Uploading /\ req[s].pc \in Uploading => req[r].file # req[s].file

(* No row without a file, whether still stored or not; and the account     *)
(* deletion removes only files of rows that are gone.                      *)
RowsSound ==
  /\ \A f \in Files : row[f] # "none" => file[f] # "none"
  /\ \A f \in answered : row[f] # "none"
  /\ \A f \in leave.files : row[f] # "none" /\ (leave.pc = "unlink" => row[f] = "gone")

FilesInv ==
  /\ TypeOK /\ AnsweredFilesStay /\ RowsSound /\ UploadsApart
  /\ \A r \in Requests : RequestSound(r)

LEMMA UploadTypes ==
  /\ Idle \in Upload /\ Idle.pc = "idle" /\ SomePlace \in Places
  /\ NotLeaving.files = {} /\ NotLeaving.pc = "idle"
  /\ NotLeaving \in [pc: {"idle", "collected", "committed", "unlink"}, optIn: BOOLEAN,
                     files: SUBSET Files, seen: SUBSET Files]
BY FilesAssumption, PlacesAssumption DEF Idle, Upload, SomePlace, NotLeaving

LEMMA FilesStart == Init => FilesInv
BY UploadTypes DEF Init, FilesInv, TypeOK, AnsweredFilesStay, RowsSound, UploadsApart,
   RequestSound, Uploading, Upload

(* The request of one r becomes new.                                       *)
LEMMA OneUpload ==
  ASSUME TypeOK, NEW r \in Requests, NEW new \in Upload, req' = [req EXCEPT ![r] = new]
  PROVE  /\ req' \in [Requests -> Upload] /\ req'[r] = new
         /\ \A s \in Requests \ {r} : req'[s] = req[s]
BY DEF TypeOK, Upload

LEMMA OneGoes ==
  ASSUME TypeOK, NEW r \in Requests,
         NEW pc \in {"idle", "check", "store", "after", "row", "file"}, Go(r, pc)
  PROVE  /\ req' \in [Requests -> Upload] /\ req'[r].pc = pc /\ req'[r].file = req[r].file
         /\ \A s \in Requests \ {r} : req'[s] = req[s]
BY DEF TypeOK, Upload, Go

LEMMA OneDone ==
  ASSUME TypeOK, NEW r \in Requests, Done(r)
  PROVE  /\ req' \in [Requests -> Upload] /\ req'[r].pc = "idle"
         /\ \A s \in Requests \ {r} : req'[s] = req[s]
BY UploadTypes DEF TypeOK, Upload, Done

(* What a request holds stays sound while it rests, when only rows go and  *)
(* files are removed whose row is gone or was never stored for it.         *)
LEMMA RestingRequest ==
  ASSUME FilesInv, NEW s \in Requests, req'[s] = req[s],
         NEW f, f = req[s].file,
         row'[f] = row[f] \/ (row[f] = "kept" /\ row'[f] = "gone"),
         req[s].pc \in Uploading => file'[f] = file[f] \/ row[f] = "gone",
         req[s].pc \in Uploading /\ f \notin answered => f \notin answered'
  PROVE  RequestSound(s)'
BY DEF FilesInv, RequestSound, Uploading

(* A step of one request.                                                  *)
LEMMA OneStep ==
  ASSUME FilesInv, NEW r \in Requests,
         req' \in [Requests -> Upload], \A s \in Requests \ {r} : req'[s] = req[s],
         req'[r].pc \in Uploading =>
           \/ req[r].pc \in Uploading /\ req'[r].file = req[r].file
           \/ \A s \in Requests \ {r} : req[s].pc \in Uploading => req[s].file # req'[r].file
  PROVE  UploadsApart'
BY DEF FilesInv, UploadsApart

LEMMA ReceiveStep ==
  ASSUME FilesInv, NEW r \in Requests, NEW f \in Files, NEW p \in Places, Receive(r, f, p)
  PROVE  FilesInv'
<1> DEFINE new == [pc |-> "check", file |-> f]
<1>1. new \in Upload /\ new.pc = "check" /\ new.file = f
  BY DEF Upload
<1>2. req' = [req EXCEPT ![r] = new]
  BY DEF Receive
<1> HIDE DEF new
<1>3. /\ req' \in [Requests -> Upload] /\ req'[r] = new
      /\ \A s \in Requests \ {r} : req'[s] = req[s]
  BY <1>1, <1>2, OneUpload DEF FilesInv
<1>4. /\ file[f] = "none" /\ row[f] = "none" /\ file'[f] = "stored" /\ row' = row
      /\ \A g \in Files \ {f} : file'[g] = file[g]
      /\ leave' = leave /\ answered' = answered
      /\ file' \in [Files -> {"none", "stored", "removed"}]
  BY DEF Receive, FilesInv, TypeOK, RowsSound, history
<1>5. TypeOK'
  BY <1>3, <1>4 DEF Receive, FilesInv, TypeOK, Upload, history
<1>6. AnsweredFilesStay' /\ RowsSound'
  BY <1>4 DEF FilesInv, AnsweredFilesStay, RowsSound, TypeOK
<1>7. \A s \in Requests : req[s].pc \in Uploading => req[s].file # f
  BY <1>4 DEF FilesInv, RequestSound, Uploading
<1>8. UploadsApart'
  BY <1>1, <1>3, <1>7, OneStep
<1>9. ASSUME NEW s \in Requests \ {r} PROVE RequestSound(s)'
  <2>1. req[s].file \in Files
    BY DEF FilesInv, TypeOK
  <2> QED BY <1>3, <1>4, <1>7, <2>1, RestingRequest
<1>10. RequestSound(r)'
  BY <1>1, <1>3, <1>4 DEF RequestSound
<1> QED BY <1>5, <1>6, <1>8, <1>9, <1>10 DEF FilesInv

LEMMA CheckStep ==
  ASSUME FilesInv, NEW r \in Requests, Check(r)
  PROVE  FilesInv'
<1>1. /\ req' \in [Requests -> Upload] /\ req'[r].pc = "store" /\ req'[r].file = req[r].file
      /\ \A s \in Requests \ {r} : req'[s] = req[s]
  BY OneGoes DEF FilesInv, Check
<1>2. UNCHANGED <<file, row, leave, answered>> /\ req[r].pc = "check"
  BY DEF Check, history
<1>3. TypeOK'
  BY <1>1 DEF Check, FilesInv, TypeOK, Upload, history
<1>4. AnsweredFilesStay' /\ RowsSound'
  BY <1>2 DEF FilesInv, AnsweredFilesStay, RowsSound
<1>5. UploadsApart'
  BY <1>1, <1>2, OneStep DEF Uploading
<1>6. ASSUME NEW s \in Requests \ {r} PROVE RequestSound(s)'
  BY <1>1, <1>2, RestingRequest
<1>7. RequestSound(r)'
  BY <1>1, <1>2 DEF RequestSound, FilesInv
<1> QED BY <1>3, <1>4, <1>5, <1>6, <1>7 DEF FilesInv

(* The file of one request is removed, which is no upload of another, or   *)
(* whose row is gone; the request is done.                                 *)
LEMMA RemovalStep ==
  ASSUME FilesInv, NEW r \in Requests,
         RemoveFile(req[r].file), Done(r), UNCHANGED <<row, at, ground, leave, history>>,
         req[r].pc \in Uploading \/ row[req[r].file] = "gone"
  PROVE  FilesInv'
<1> PICK f \in Files : f = req[r].file
  BY DEF FilesInv, TypeOK
<1>1. /\ req' \in [Requests -> Upload] /\ req'[r].pc = "idle"
      /\ \A s \in Requests \ {r} : req'[s] = req[s]
  BY OneDone DEF FilesInv
<1>2. /\ file' \in [Files -> {"none", "stored", "removed"}] /\ file'[f] = "removed"
      /\ \A g \in Files \ {f} : file'[g] = file[g]
      /\ UNCHANGED <<row, leave, answered>>
  BY DEF FilesInv, TypeOK, RemoveFile, history
<1>3. TypeOK'
  BY <1>1, <1>2 DEF FilesInv, TypeOK, Upload, history
<1>4. f \in answered => row[f] # "kept"
  BY DEF FilesInv, RequestSound, Uploading, RowsSound
<1>5. AnsweredFilesStay' /\ RowsSound'
  BY <1>2, <1>4 DEF FilesInv, AnsweredFilesStay, RowsSound, TypeOK
<1>6. UploadsApart'
  BY <1>1, OneStep DEF Uploading
<1>7. ASSUME NEW s \in Requests \ {r} PROVE RequestSound(s)'
  <2>1. req[s].file \in Files
    BY DEF FilesInv, TypeOK
  <2>2. req[s].pc \in Uploading => req[s].file # f \/ row[f] = "gone"
    BY DEF FilesInv, UploadsApart
  <2> QED BY <1>1, <1>2, <2>1, <2>2, RestingRequest
<1>8. RequestSound(r)'
  BY <1>1 DEF RequestSound
<1> QED BY <1>3, <1>5, <1>6, <1>7, <1>8 DEF FilesInv

LEMMA StoreRowStep ==
  ASSUME FilesInv, NEW r \in Requests, StoreRow(r)
  PROVE  FilesInv'
<1> PICK f \in Files : f = req[r].file
  BY DEF FilesInv, TypeOK
<1>1. CASE at[f] \notin ground
  BY <1>1, RemovalStep DEF StoreRow, Uploading
<1>2. CASE at[f] \in ground
  <2>1. /\ req' \in [Requests -> Upload] /\ req'[r].pc = "after" /\ req'[r].file = f
        /\ \A s \in Requests \ {r} : req'[s] = req[s]
    BY <1>2, OneGoes DEF FilesInv, StoreRow
  <2>2. /\ row' \in [Files -> {"none", "kept", "gone"}] /\ row'[f] = "kept"
        /\ \A g \in Files \ {f} : row'[g] = row[g]
        /\ UNCHANGED <<file, leave, answered>> /\ req[r].pc = "store"
    BY <1>2 DEF FilesInv, TypeOK, StoreRow, history
  <2>3. row[f] = "none" /\ file[f] = "stored"
    BY <2>2 DEF FilesInv, RequestSound
  <2>4. TypeOK'
    BY <1>2, <2>1, <2>2 DEF FilesInv, TypeOK, Upload, StoreRow, history
  <2>5. AnsweredFilesStay' /\ RowsSound' /\ f \notin answered
    BY <2>2, <2>3 DEF FilesInv, AnsweredFilesStay, RowsSound, TypeOK
  <2>6. UploadsApart'
    BY <2>1, <2>2, OneStep DEF Uploading
  <2>7. ASSUME NEW s \in Requests \ {r} PROVE RequestSound(s)'
    <3>1. req[s].file \in Files
      BY DEF FilesInv, TypeOK
    <3>2. CASE req[s].file = f
      <4>1. req[s].pc \notin Uploading
        BY <2>2, <3>2 DEF FilesInv, UploadsApart, Uploading
      <4> QED BY <2>1, <2>3, <3>2, <4>1 DEF FilesInv, RequestSound, Uploading
    <3>3. CASE req[s].file # f
      BY <2>1, <2>2, <3>1, <3>3, RestingRequest
    <3> QED BY <3>2, <3>3
  <2>8. RequestSound(r)'
    BY <2>1, <2>2, <2>3, <2>5 DEF RequestSound
  <2> QED BY <2>4, <2>5, <2>6, <2>7, <2>8 DEF FilesInv
<1> QED BY <1>1, <1>2

LEMMA AnswerStep ==
  ASSUME FilesInv, NEW r \in Requests, Answer(r)
  PROVE  FilesInv'
<1> PICK f \in Files : f = req[r].file
  BY DEF FilesInv, TypeOK
<1>1. /\ req' \in [Requests -> Upload] /\ req'[r].pc = "idle"
      /\ \A s \in Requests \ {r} : req'[s] = req[s]
  BY OneDone DEF FilesInv, Answer
<1>2. UNCHANGED <<file, row, leave>> /\ answered' = answered \cup {f} /\ req[r].pc = "after"
  BY DEF Answer
<1>3. row[f] # "none" /\ (row[f] = "kept" => file[f] = "stored")
  BY <1>2 DEF FilesInv, RequestSound
<1>4. TypeOK'
  BY <1>1, <1>2 DEF Answer, FilesInv, TypeOK, Upload
<1>5. AnsweredFilesStay' /\ RowsSound'
  BY <1>2, <1>3 DEF FilesInv, AnsweredFilesStay, RowsSound
<1>6. UploadsApart'
  BY <1>1, OneStep DEF Uploading
<1>7. ASSUME NEW s \in Requests \ {r} PROVE RequestSound(s)'
  <2>1. req[s].pc \in Uploading => req[s].file # f
    BY <1>2 DEF FilesInv, UploadsApart, Uploading
  <2> QED BY <1>1, <1>2, <2>1, RestingRequest
<1>8. RequestSound(r)'
  BY <1>1 DEF RequestSound
<1> QED BY <1>4, <1>5, <1>6, <1>7, <1>8 DEF FilesInv

LEMMA DeleteBeginStep ==
  ASSUME FilesInv, NEW r \in Requests, NEW f \in Files, DeleteBegin(r, f)
  PROVE  FilesInv'
<1> DEFINE new == [pc |-> "row", file |-> f]
<1>1. new \in Upload /\ new.pc = "row" /\ new.file = f
  BY DEF Upload
<1>2. req' = [req EXCEPT ![r] = new]
  BY DEF DeleteBegin, FirstGoes
<1> HIDE DEF new
<1>3. /\ req' \in [Requests -> Upload] /\ req'[r] = new
      /\ \A s \in Requests \ {r} : req'[s] = req[s]
  BY <1>1, <1>2, OneUpload DEF FilesInv
<1>4. UNCHANGED <<file, row, leave, answered>> /\ row[f] = "kept"
  BY DEF DeleteBegin, history
<1>5. TypeOK'
  BY <1>3 DEF DeleteBegin, FilesInv, TypeOK, Upload, history
<1>6. AnsweredFilesStay' /\ RowsSound'
  BY <1>4 DEF FilesInv, AnsweredFilesStay, RowsSound
<1>7. UploadsApart'
  BY <1>1, <1>3, OneStep DEF Uploading
<1>8. ASSUME NEW s \in Requests \ {r} PROVE RequestSound(s)'
  BY <1>3, <1>4, RestingRequest
<1>9. RequestSound(r)'
  BY <1>1, <1>3, <1>4 DEF RequestSound
<1> QED BY <1>5, <1>6, <1>7, <1>8, <1>9 DEF FilesInv

(* Rows go, one or several, and nothing but rows, requests and the account *)
(* deletion changes.                                                       *)
LEMMA RowsGo ==
  ASSUME FilesInv, TypeOK', UNCHANGED <<file, answered>>,
         \A f \in Files : row'[f] = row[f] \/ (row[f] = "kept" /\ row'[f] = "gone")
  PROVE  /\ AnsweredFilesStay'
         /\ \A f \in Files : row'[f] # "none" => file'[f] # "none"
         /\ \A f \in answered' : row'[f] # "none"
         /\ \A s \in Requests : req'[s] = req[s] => RequestSound(s)'
<1>1. \A s \in Requests : req[s].file \in Files
  BY DEF FilesInv, TypeOK
<1>2. \A s \in Requests : req'[s] = req[s] => RequestSound(s)'
  BY <1>1, RestingRequest
<1> QED BY <1>2 DEF FilesInv, TypeOK, AnsweredFilesStay, RowsSound

LEMMA DeleteRowStep ==
  ASSUME FilesInv, NEW r \in Requests, DeleteRow(r)
  PROVE  FilesInv'
<1> PICK f \in Files : f = req[r].file
  BY DEF FilesInv, TypeOK
<1>1. PICK pc \in {"idle", "file"} :
        /\ req' \in [Requests -> Upload] /\ req'[r].pc = pc
        /\ pc = "file" => req'[r].file = f /\ row[f] = "kept"
        /\ \A s \in Requests \ {r} : req'[s] = req[s]
  BY OneGoes, OneDone DEF FilesInv, DeleteRow
<1>2. /\ UNCHANGED <<file, at, ground, leave, history>>
      /\ row' \in [Files -> {"none", "kept", "gone"}]
      /\ row[f] = "kept" => row'[f] = "gone"
      /\ \A g \in Files : row'[g] = row[g] \/ (row[g] = "kept" /\ row'[g] = "gone")
  BY DEF DeleteRow, FilesInv, TypeOK
<1>3. TypeOK'
  BY <1>1, <1>2 DEF FilesInv, TypeOK, Upload, history
<1>4. /\ AnsweredFilesStay' /\ \A s \in Requests \ {r} : RequestSound(s)'
      /\ RowsSound'
  BY <1>1, <1>2, <1>3, RowsGo DEF history, FilesInv, RowsSound, TypeOK
<1>5. UploadsApart'
  BY <1>1, OneStep DEF Uploading
<1>6. RequestSound(r)'
  BY <1>1, <1>2 DEF RequestSound
<1> QED BY <1>3, <1>4, <1>5, <1>6 DEF FilesInv

(* Requests rest, rows may go.                                             *)
LEMMA RestStep ==
  ASSUME FilesInv, TypeOK', UNCHANGED <<file, answered, req>>, RowsSound',
         \A f \in Files : row'[f] = row[f] \/ (row[f] = "kept" /\ row'[f] = "gone")
  PROVE  FilesInv'
<1>1. AnsweredFilesStay' /\ \A s \in Requests : RequestSound(s)'
  BY RowsGo
<1>2. UploadsApart'
  BY DEF FilesInv, UploadsApart
<1> QED BY <1>1, <1>2 DEF FilesInv

LEMMA FellRows ==
  ASSUME FilesInv, NEW gone, Fell(gone)
  PROVE  /\ row' \in [Files -> {"none", "kept", "gone"}]
         /\ \A f \in Files : row'[f] = row[f] \/ (row[f] = "kept" /\ row'[f] = "gone")
BY DEF FilesInv, TypeOK, Fell

LEMMA DeletePlaceStep ==
  ASSUME FilesInv, NEW p \in Places, DeletePlace(p)
  PROVE  FilesInv'
<1>1. /\ row' \in [Files -> {"none", "kept", "gone"}]
      /\ \A f \in Files : row'[f] = row[f] \/ (row[f] = "kept" /\ row'[f] = "gone")
  BY FellRows DEF DeletePlace
<1>2. TypeOK'
  BY <1>1 DEF DeletePlace, FilesInv, TypeOK, history
<1>3. RowsSound'
  BY <1>1 DEF DeletePlace, FilesInv, TypeOK, RowsSound, history
<1> QED BY <1>1, <1>2, <1>3, RestStep DEF DeletePlace, history

LEMMA LeaveCommitStep ==
  ASSUME FilesInv, LeaveCommit
  PROVE  FilesInv'
<1>1. /\ row' \in [Files -> {"none", "kept", "gone"}]
      /\ \A f \in Files : row'[f] = row[f] \/ (row[f] = "kept" /\ row'[f] = "gone")
  BY FellRows DEF LeaveCommit
<1>2. TypeOK' /\ leave'.files = leave.files /\ leave'.pc = "committed"
  BY <1>1 DEF LeaveCommit, FilesInv, TypeOK
<1>3. RowsSound'
  BY <1>1, <1>2 DEF LeaveCommit, FilesInv, TypeOK, RowsSound
<1> QED BY <1>1, <1>2, <1>3, RestStep DEF LeaveCommit

(* The account deletion moves on, no row or file changes.                  *)
LEMMA LeaveMoves ==
  ASSUME FilesInv,
         \/ \E optIn \in BOOLEAN : LeaveCollect(optIn)
         \/ LeaveRollback \/ LeaveLookup \/ LeaveLookupFails
         \/ \E f \in Files : LeaveUnlinkFails(f)
  PROVE  FilesInv'
<1>1. UNCHANGED <<file, row, at, ground, req, answered, due>>
  BY DEF LeaveCollect, LeaveRollback, LeaveLookup, LeaveLookupFails, LeaveUnlinkFails, history
<1>2. /\ leave' \in [pc: {"idle", "collected", "committed", "unlink"}, optIn: BOOLEAN,
                     files: SUBSET Files, seen: SUBSET Files]
      /\ spared' \subseteq Files
      /\ \A f \in leave'.files : row[f] # "none" /\ (leave'.pc = "unlink" => row[f] = "gone")
  <2>1. CASE \E optIn \in BOOLEAN : LeaveCollect(optIn)
    BY <2>1 DEF LeaveCollect, Collected, FilesInv, TypeOK, history
  <2>2. CASE LeaveRollback
    BY <2>2, UploadTypes DEF LeaveRollback, FilesInv, TypeOK, history
  <2>3. CASE LeaveLookup
    <3> DEFINE kept == {f \in leave.files : row[f] # "kept"}
    <3>1. kept \subseteq Files /\ \A f \in kept : row[f] = "gone"
      BY DEF FilesInv, TypeOK, RowsSound
    <3>2. leave' = [leave EXCEPT !.pc = "unlink", !.files = kept]
      BY <2>3 DEF LeaveLookup
    <3> HIDE DEF kept
    <3>3. leave'.files = kept /\ leave'.pc = "unlink"
      BY <3>2 DEF FilesInv, TypeOK
    <3> QED BY <2>3, <3>1, <3>2, <3>3 DEF LeaveLookup, FilesInv, TypeOK, history
  <2>4. CASE LeaveLookupFails
    BY <2>4 DEF LeaveLookupFails, FilesInv, TypeOK
  <2>5. CASE \E f \in Files : LeaveUnlinkFails(f)
    BY <2>5 DEF LeaveUnlinkFails, FilesInv, TypeOK, RowsSound
  <2> QED BY <2>1, <2>2, <2>3, <2>4, <2>5
<1>3. TypeOK' /\ RowsSound'
  BY <1>1, <1>2 DEF FilesInv, TypeOK, RowsSound
<1> QED BY <1>1, <1>3, RestStep

LEMMA LeaveUnlinkStep ==
  ASSUME FilesInv, NEW f \in Files, LeaveUnlink(f)
  PROVE  FilesInv'
<1>1. /\ row[f] = "gone" /\ file' \in [Files -> {"none", "stored", "removed"}]
      /\ file'[f] = "removed" /\ \A g \in Files \ {f} : file'[g] = file[g]
      /\ UNCHANGED <<row, at, ground, req, history>>
  BY DEF LeaveUnlink, RemoveFile, FilesInv, RowsSound, TypeOK
<1>2. /\ leave' \in [pc: {"idle", "collected", "committed", "unlink"}, optIn: BOOLEAN,
                     files: SUBSET Files, seen: SUBSET Files]
      /\ leave'.files \subseteq leave.files /\ leave'.pc = leave.pc
  BY DEF LeaveUnlink, FilesInv, TypeOK
<1>3. TypeOK'
  BY <1>1, <1>2 DEF FilesInv, TypeOK, history
<1>4. AnsweredFilesStay' /\ RowsSound' /\ UploadsApart'
  BY <1>1, <1>2 DEF FilesInv, AnsweredFilesStay, RowsSound, UploadsApart, TypeOK, history
<1>5. ASSUME NEW s \in Requests PROVE RequestSound(s)'
  <2>1. req[s].file \in Files
    BY DEF FilesInv, TypeOK
  <2> QED BY <1>1, <2>1, RestingRequest DEF history
<1> QED BY <1>3, <1>4, <1>5 DEF FilesInv

LEMMA FilesRestart ==
  ASSUME FilesInv, Restart
  PROVE  FilesInv'
<1>1. /\ req' \in [Requests -> Upload] /\ \A s \in Requests : req'[s].pc = "idle"
  BY UploadTypes DEF Restart
<1>2. /\ leave' \in [pc: {"idle", "collected", "committed", "unlink"}, optIn: BOOLEAN,
                     files: SUBSET Files, seen: SUBSET Files]
      /\ leave'.files = {} /\ spared' \subseteq Files
  BY UploadTypes DEF Restart, FilesInv, TypeOK
<1>3. TypeOK'
  BY <1>1, <1>2 DEF Restart, FilesInv, TypeOK, Upload
<1>4. AnsweredFilesStay' /\ RowsSound'
  BY <1>2 DEF Restart, FilesInv, AnsweredFilesStay, RowsSound
<1>5. UploadsApart' /\ \A s \in Requests : RequestSound(s)'
  BY <1>1 DEF UploadsApart, RequestSound, Uploading
<1> QED BY <1>3, <1>4, <1>5 DEF FilesInv

LEMMA FilesStay == FilesInv /\ [Next]_vars => FilesInv'
<1> SUFFICES ASSUME FilesInv, [Next]_vars PROVE FilesInv'
  OBVIOUS
<1>1. ASSUME NEW r \in Requests, Refuse(r) \/ AfterFails(r) PROVE FilesInv'
  BY <1>1, RemovalStep DEF Refuse, AfterFails, Uploading
<1>2. ASSUME NEW r \in Requests, DeleteFile(r) PROVE FilesInv'
  BY <1>2, RemovalStep DEF DeleteFile, FilesInv, RequestSound
<1>3. ASSUME NEW r \in Requests, RequestStep(r) PROVE FilesInv'
  BY <1>1, <1>2, <1>3, CheckStep, StoreRowStep, AnswerStep, DeleteRowStep DEF RequestStep
<1>4. CASE LeaveStep
  BY <1>4, LeaveCommitStep, LeaveMoves, LeaveUnlinkStep DEF LeaveStep
<1>5. CASE UNCHANGED vars
  <2>1. TypeOK' /\ RowsSound'
    BY <1>5 DEF vars, FilesInv, TypeOK, RowsSound
  <2> QED BY <1>5, <2>1, RestStep DEF vars
<1> QED BY <1>3, <1>4, <1>5, ReceiveStep, DeleteBeginStep, DeletePlaceStep, LeaveMoves,
           FilesRestart DEF Next

(* A file whose upload was answered with success is there as long as its   *)
(* row is, through crashes, failures, and deletions of whatever it hangs   *)
(* on.                                                                     *)
THEOREM AnsweredStay == BackgroundSpec => []AnsweredFilesStay
<1>1. BackgroundInit => FilesInv
  BY FilesStart DEF BackgroundInit
<1>2. FilesInv /\ [BackgroundNext]_<<part, vars, runVars, presenceVars>> => FilesInv'
  BY FilesStay DEF BackgroundNext
<1>3. FilesInv => AnsweredFilesStay
  BY DEF FilesInv
<1> QED BY <1>1, <1>2, <1>3, PTL DEF BackgroundSpec

(* What the account deletion must not forget: what it saw hanging on what  *)
(* goes is on its list, as no row that was seen changes place; and the     *)
(* rows of what is due are gone for good, so that no lookup spares it.     *)
DueInv ==
  /\ leave.pc \in {"idle", "collected"} => due = {}
  /\ leave.pc = "collected" =>
       \A f \in leave.seen :
         /\ row[f] # "none"
         /\ at[f].leavers /\ (at[f].kind = "message" => leave.optIn) => f \in leave.files
  /\ \A f \in due : row[f] = "gone"
  /\ DueAreInHand

(* A row that is there stays where it is, what is gone or removed stays so. *)
NothingReturns ==
  \A f \in Files : /\ row[f] # "none" => row'[f] # "none" /\ at'[f] = at[f]
                   /\ row[f] = "gone" => row'[f] = "gone"
                   /\ file[f] = "removed" => file'[f] = "removed"

LEMMA DueRests ==
  ASSUME TypeOK, DueInv, NothingReturns, UNCHANGED <<leave, due, spared>>
  PROVE  DueInv'
<1>1. due \subseteq Files /\ leave.seen \subseteq Files
  BY DEF TypeOK
<1>2. leave.pc = "collected" =>
        \A f \in leave.seen :
          /\ row'[f] # "none"
          /\ at'[f].leavers /\ (at'[f].kind = "message" => leave.optIn) => f \in leave.files
  BY <1>1 DEF DueInv, NothingReturns
<1>3. \A f \in due : row'[f] = "gone" /\ (file[f] = "removed" => file'[f] = "removed")
  BY <1>1 DEF DueInv, NothingReturns
<1> QED BY <1>2, <1>3 DEF DueInv, DueAreInHand

(* Files and rows change only at one file, in a way that returns nothing.  *)
LEMMA OneFileMoves ==
  ASSUME TypeOK, NEW f \in Files,
         file' = file \/ RemoveFile(f),
         row' = row \/ (row' = [row EXCEPT ![f] = "kept"] /\ row[f] = "none")
           \/ row' = [row EXCEPT ![f] = "gone"],
         at' = at
  PROVE  NothingReturns
<1>1. \A g \in Files : file'[g] = file[g] \/ file'[g] = "removed"
  BY DEF RemoveFile, TypeOK
<1>2. \A g \in Files : row'[g] = row[g] \/ row'[g] = "gone" \/ (row[g] = "none" /\ row'[g] = "kept")
  BY DEF TypeOK
<1> QED BY <1>1, <1>2 DEF NothingReturns

LEMMA RequestsForgetNothing ==
  ASSUME FilesInv, NEW r \in Requests,
         RequestStep(r)
  PROVE  NothingReturns /\ UNCHANGED <<leave, due, spared>>
<1> DEFINE f == req[r].file
<1>1. f \in Files /\ (req[r].pc = "store" => row[f] = "none")
  BY DEF FilesInv, TypeOK, RequestSound
<1>2. UNCHANGED <<at, leave, due, spared>>
  BY DEF RequestStep, Check, Refuse, StoreRow, Answer, AfterFails, DeleteRow, DeleteFile, history
<1>3. file' = file \/ RemoveFile(f)
  BY DEF RequestStep, Check, Refuse, StoreRow, Answer, AfterFails, DeleteRow, DeleteFile
<1>4. row' = row \/ (row' = [row EXCEPT ![f] = "kept"] /\ row[f] = "none")
        \/ row' = [row EXCEPT ![f] = "gone"]
  BY <1>1 DEF RequestStep, Check, Refuse, StoreRow, Answer, AfterFails, DeleteRow, DeleteFile
<1> QED BY <1>1, <1>2, <1>3, <1>4, OneFileMoves DEF FilesInv

LEMMA ReceiveForgetsNothing ==
  ASSUME FilesInv, NEW r \in Requests, NEW f \in Files, NEW p \in Places, Receive(r, f, p)
  PROVE  NothingReturns /\ UNCHANGED <<leave, due, spared>>
<1>1. file[f] = "none" /\ row[f] = "none" /\ row' = row
  BY DEF Receive, FilesInv, RowsSound
<1>2. \A g \in Files \ {f} : file'[g] = file[g] /\ at'[g] = at[g]
  BY DEF Receive, FilesInv, TypeOK
<1> QED BY <1>1, <1>2 DEF NothingReturns, Receive, history

LEMMA FallForgetsNothing ==
  ASSUME FilesInv, NEW gone, Fell(gone), UNCHANGED <<file, at>>
  PROVE  NothingReturns
BY FellRows DEF NothingReturns

LEMMA CommitRemembers ==
  ASSUME FilesInv, DueInv, LeaveCommit
  PROVE  DueInv'
<1> DEFINE goes(f) == at[f].leavers /\ (at[f].kind = "message" => leave.optIn)
<1>1. /\ leave.pc = "collected" /\ leave'.pc = "committed" /\ leave'.files = leave.files
      /\ leave.seen \subseteq Files
  BY DEF LeaveCommit, FilesInv, TypeOK
<1>2. /\ due' = {f \in leave.seen : row[f] = "kept" /\ goes(f)}
      /\ row' = [f \in Files |-> IF row[f] = "kept" /\ goes(f) THEN "gone" ELSE row[f]]
  BY DEF LeaveCommit, Fell
<1>3. \A f \in due' : row'[f] = "gone" /\ f \in leave.files
  BY <1>1, <1>2 DEF DueInv
<1> QED BY <1>1, <1>3 DEF DueInv, DueAreInHand

(* The deletion starts, is rolled back, looks up and removes.              *)
LEMMA LeaverRemembers ==
  ASSUME FilesInv, DueInv,
         \/ \E optIn \in BOOLEAN : LeaveCollect(optIn)
         \/ LeaveRollback \/ LeaveLookup \/ LeaveLookupFails
         \/ \E f \in Files : LeaveUnlink(f) \/ LeaveUnlinkFails(f)
  PROVE  DueInv'
<1>1. UNCHANGED <<row, at, due>> /\ due \subseteq Files
  BY DEF LeaveCollect, LeaveRollback, LeaveLookup, LeaveLookupFails, LeaveUnlink,
     LeaveUnlinkFails, history, FilesInv, TypeOK
<1>2. CASE \E optIn \in BOOLEAN : LeaveCollect(optIn)
  <2>1. PICK optIn \in BOOLEAN : LeaveCollect(optIn)
    BY <1>2
  <2>2. /\ leave'.pc = "collected" /\ leave'.optIn = optIn
        /\ leave'.files = {f \in Files : Collected(f, optIn)}
        /\ leave'.seen = {f \in Files : row[f] = "kept"}
    BY <2>1 DEF LeaveCollect
  <2>3. due = {}
    BY <2>1 DEF LeaveCollect, DueInv
  <2> QED BY <1>1, <2>2, <2>3 DEF DueInv, DueAreInHand, Collected
<1>3. CASE LeaveRollback
  <2>1. due = {} /\ leave'.pc = "idle"
    BY <1>3, UploadTypes DEF LeaveRollback, DueInv
  <2> QED BY <1>1, <2>1 DEF DueInv, DueAreInHand
<1>4. CASE LeaveLookup
  <2>1. /\ leave.pc = "committed" /\ leave'.pc = "unlink" /\ UNCHANGED <<file, spared>>
        /\ leave'.files = {f \in leave.files : row[f] # "kept"}
    BY <1>4 DEF LeaveLookup, FilesInv, TypeOK, history
  <2> QED BY <1>1, <2>1 DEF DueInv, DueAreInHand
<1>5. CASE LeaveLookupFails
  <2>1. /\ leave.pc = "committed" /\ leave'.pc = "unlink" /\ file' = file
        /\ spared' = spared \cup leave.files
    BY <1>5 DEF LeaveLookupFails, FilesInv, TypeOK
  <2> QED BY <1>1, <2>1 DEF DueInv, DueAreInHand
<1>6. CASE \E f \in Files : LeaveUnlink(f) \/ LeaveUnlinkFails(f)
  <2>1. PICK f \in Files : LeaveUnlink(f) \/ LeaveUnlinkFails(f)
    BY <1>6
  <2>2. /\ leave.pc = "unlink" /\ leave'.pc = "unlink" /\ leave'.files = leave.files \ {f}
        /\ spared \subseteq spared'
        /\ file'[f] = "removed" \/ f \in spared'
        /\ \A g \in Files : file[g] = "removed" => file'[g] = "removed"
    BY <2>1 DEF LeaveUnlink, LeaveUnlinkFails, RemoveFile, FilesInv, TypeOK, history
  <2> QED BY <1>1, <2>2 DEF DueInv, DueAreInHand
<1> QED BY <1>2, <1>3, <1>4, <1>5, <1>6

LEMMA RestartRemembers ==
  ASSUME FilesInv, DueInv, Restart
  PROVE  DueInv'
<1>1. CASE leave.pc = "collected"
  BY <1>1, UploadTypes DEF Restart, DueInv, DueAreInHand
<1>2. CASE leave.pc # "collected"
  <2>1. leave'.pc = leave.pc /\ spared' = spared \cup leave.files /\ UNCHANGED <<file, row, at, due>>
    BY <1>2 DEF Restart, FilesInv, TypeOK
  <2> QED BY <1>2, <2>1 DEF DueInv, DueAreInHand
<1> QED BY <1>1, <1>2

LEMMA DueStay == FilesInv /\ DueInv /\ [Next]_vars => DueInv'
<1> SUFFICES ASSUME FilesInv, DueInv, [Next]_vars PROVE DueInv'
  OBVIOUS
<1>0. TypeOK
  BY DEF FilesInv
<1>1. ASSUME NEW r \in Requests, RequestStep(r) PROVE DueInv'
  BY <1>0, <1>1, RequestsForgetNothing, DueRests
<1>2. ASSUME NEW r \in Requests, NEW f \in Files, NEW p \in Places, Receive(r, f, p)
      PROVE  DueInv'
  BY <1>0, <1>2, ReceiveForgetsNothing, DueRests
<1>3. ASSUME NEW p \in Places, DeletePlace(p) PROVE DueInv'
  BY <1>0, <1>3, FallForgetsNothing, DueRests DEF DeletePlace, history
<1>4. ASSUME UNCHANGED <<file, row, at, leave, due, spared>> PROVE DueInv'
  BY <1>0, <1>4, DueRests DEF NothingReturns
<1>5. ASSUME NEW r \in Requests, NEW f \in Files, DeleteBegin(r, f) PROVE DueInv'
  BY <1>4, <1>5 DEF DeleteBegin, history
<1>6. CASE UNCHANGED vars
  BY <1>4, <1>6 DEF vars
<1> QED BY <1>1, <1>2, <1>3, <1>5, <1>6, CommitRemembers, LeaverRemembers, RestartRemembers
        DEF Next, LeaveStep

(* No file whose row the account deletion took away is forgotten: it stays *)
(* on the list of the clean-up, which was made before the rows went, until *)
(* it is removed.  With the fairness of the handler this is why the files  *)
(* go (DeletedFilesGo).                                                    *)
THEOREM NoFileIsForgotten == BackgroundSpec => []DueAreInHand
<1>1. BackgroundInit => FilesInv /\ DueInv
  BY FilesStart, UploadTypes DEF BackgroundInit, Init, DueInv, DueAreInHand
<1>2. FilesInv /\ DueInv /\ [BackgroundNext]_<<part, vars, runVars, presenceVars>>
        => FilesInv' /\ DueInv'
  BY FilesStay, DueStay DEF BackgroundNext
<1>3. DueInv => DueAreInHand
  BY DEF DueInv
<1> QED BY <1>1, <1>2, <1>3, PTL DEF BackgroundSpec

(* Files, rows and requests, runs and their tasks, sockets and the set of  *)
(* names keep their types.                                                 *)
THEOREM TypeCorrect == BackgroundSpec => []TypesOK
<1>1. BackgroundInit => FilesInv /\ RunsInv /\ OnlineInv
  BY FilesStart, RunsStart, OnlineStarts DEF BackgroundInit
<1>2. FilesInv /\ RunsInv /\ OnlineInv /\ [BackgroundNext]_<<part, vars, runVars, presenceVars>>
        => FilesInv' /\ RunsInv' /\ OnlineInv'
  BY FilesStay, RunsStay, OnlineStays DEF BackgroundNext
<1>3. FilesInv /\ RunsInv /\ OnlineInv => TypesOK
  BY DEF FilesInv, RunsInv, OnlineInv, TypesOK
<1> QED BY <1>1, <1>2, <1>3, PTL DEF BackgroundSpec

=============================================================================
