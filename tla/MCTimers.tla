-------------------------------- MODULE MCTimers --------------------------------
(* The two timers of the system, for TLC: the server's refresh sweep       *)
(* (IntegrationTokens) and the browser's timer for lapsed statuses         *)
(* (AgentStatus), with their fairness.  They share no state, so a          *)
(* behaviour is one of the one or of the other.                            *)
EXTENDS IntegrationTokens

CONSTANTS Agents, Reports, Ttl, MaxNow, MaxReports

VARIABLES
  part,         \* the part whose behaviour this is
  now, store, rep, connected, liveStatus, fetched, loaded, shown, timer, unarmed, missed,
  reported

statusVars ==
  <<now, store, rep, connected, liveStatus, fetched, loaded, shown, timer, unarmed, missed,
    reported>>

Status == INSTANCE AgentStatus WITH live <- liveStatus

ASSUME StatusAssumption == Status!Configured

TimersInit == part \in {"tokens", "status"} /\ Init /\ Status!Init

TimersNext ==
  /\ UNCHANGED part
  /\ \/ part = "tokens" /\ Next /\ UNCHANGED statusVars
     \/ part = "status" /\ Status!Next /\ UNCHANGED vars

(* The fairness of each part, in the behaviours that are its own. *)
TimersFairness ==
  /\ \A s \in Sweeps : WF_vars(part = "tokens" /\ SweepBegin(s))
  /\ \A r \in Refreshers : WF_vars(part = "tokens" /\ RefreshStep(r))
  /\ WF_statusVars(part = "status" /\ Status!TimerFires)
  /\ WF_statusVars(part = "status" /\ Status!Arm)

TimersSpec == TimersInit /\ [][TimersNext]_<<part, vars, statusVars>> /\ TimersFairness

(* LapsedStatusGoes of AgentStatus: a live status without stored details   *)
(* leaves the screen after its time, unless the effect missed it.          *)
LapsedStatusGoes == Status!LapsedStatusGoes

(* TimerIsInTime and FiringClears of AgentStatus: once set, the timer is   *)
(* due when a status lapses, and takes all that have lapsed off the screen. *)
TimerIsInTime == Status!TimerIsInTime
FiringClears == Status!FiringClears

(* The types of both parts. *)
TypesOK == TypeOK /\ Status!TypeOK
=================================================================================
