------------------------------ MODULE AgentAccess ------------------------------
(***************************************************************************)
(* What the token life cycle promises, with the handlers in flight hidden: *)
(* an agent holds one current secret and at most one grace secret, both    *)
(* usable only while the agent is enabled.  Replacing the current secret   *)
(* is one indivisible step of an enabled agent, and disabling an agent     *)
(* forgets its grace secret at once.                                       *)
(***************************************************************************)
CONSTANTS Agents, Secrets, NoSecret

VARIABLES enabled, current, grace, used

vars == <<enabled, current, grace, used>>

Init ==
  /\ enabled = {}
  /\ current = [a \in Agents |-> NoSecret]
  /\ grace = [a \in Agents |-> NoSecret]
  /\ used = {}

Issue(a, s) ==
  /\ s \in Secrets \ used
  /\ current[a] = NoSecret
  /\ current' = [current EXCEPT ![a] = s]
  /\ used' = used \cup {s}
  /\ enabled' \in {enabled, enabled \cup {a}}
  /\ UNCHANGED grace

Enable(a) ==
  /\ enabled' = enabled \cup {a}
  /\ UNCHANGED <<current, grace, used>>

Disable(a) ==
  /\ enabled' = enabled \ {a}
  /\ grace' = [grace EXCEPT ![a] = NoSecret]
  /\ UNCHANGED <<current, used>>

Retire(a) ==
  /\ enabled' = enabled \ {a}
  /\ current' = [current EXCEPT ![a] = NoSecret]
  /\ grace' = [grace EXCEPT ![a] = NoSecret]
  /\ UNCHANGED used

Replace(a, s) ==
  /\ a \in enabled
  /\ s \in Secrets \ used
  /\ current' = [current EXCEPT ![a] = s]
  /\ grace' = [grace EXCEPT ![a] = current[a]]
  /\ used' = used \cup {s}
  /\ UNCHANGED enabled

Next ==
  \E a \in Agents :
    \/ Enable(a)
    \/ Disable(a)
    \/ Retire(a)
    \/ \E s \in Secrets : Issue(a, s) \/ Replace(a, s)

Spec == Init /\ [][Next]_vars
=============================================================================
