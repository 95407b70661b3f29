------------------------------ MODULE InviteCodes ------------------------------
(***************************************************************************)
(* One invite code, from its creation to its end: registrations that       *)
(* redeem it, admins who delete it, accounts that are deleted.             *)
(*                                                                         *)
(* POST /register looks the code up, hashes the password, creates the      *)
(* account, and only then counts the use, by increments; it closes the     *)
(* code when a second look shows that it is used up.  A code without a use *)
(* goes with the account of its creator, a code with uses is closed.  What *)
(* the note of a code does for a project is in ProjectTeam.                *)
(*                                                                         *)
(* Sources: server/src/routes/{auth,admin,projects}.ts, schema.prisma      *)
(***************************************************************************)
EXTENDS FiniteSets, Integers

CONSTANTS
  MaxUses,
  Newcomers,    \* user names that register
  Creator,      \* who created the code
  Nobody,
  Requests      \* registrations in flight

(* What an instance assumes: finitely many registrations at a time, and    *)
(* that the creator of a code does not register with it.                   *)
Configured ==
  /\ MaxUses \in Nat /\ Creator \notin Newcomers
  /\ IsFiniteSet(Requests) /\ Requests # {}

VARIABLES
  code,       \* the row of the code
  expired,    \* its time is over
  users,      \* accounts that exist
  req,        \* registrations in flight
  made,       \* history: accounts created with the code
  lost,       \* history: of those, the ones whose use was never counted
  dropped     \* history: an admin deleted the code

vars == <<code, expired, users, req, made, lost, dropped>>

Idle == [pc |-> "idle", who |-> Creator]

TypeOK ==
  /\ code \in [kept: BOOLEAN, isActive: BOOLEAN, useCount: Nat,
               usedById: Newcomers \cup {Nobody}]
  /\ expired \in BOOLEAN /\ dropped \in BOOLEAN
  /\ users \subseteq Newcomers \cup {Creator}
  /\ req \in [Requests -> [pc: {"idle", "create", "consume", "look", "close"},
                           who: Newcomers \cup {Creator}]]
  /\ made \subseteq Newcomers /\ lost \subseteq made

Init ==
  /\ code = [kept |-> TRUE, isActive |-> TRUE, useCount |-> 0, usedById |-> Nobody]
  /\ expired = FALSE /\ users = {Creator}
  /\ req = [r \in Requests |-> Idle]
  /\ made = {} /\ lost = {} /\ dropped = FALSE

----------------------------------------------------------------------------
(* Faults: mutated forms of the definitions below. *)
OneMore(row) == row.useCount <= MaxUses

----------------------------------------------------------------------------
HasUsesLeft(row) == row.useCount < MaxUses
IsUnused(row) == row.useCount = 0

Go(r, pc) == req' = [req EXCEPT ![r].pc = pc]
Done(r) == req' = [req EXCEPT ![r] = Idle]

(* The name is free, the code is good; the password is hashed next. *)
Check(r, u) ==
  /\ req[r] = Idle /\ u \notin users
  /\ code.kept /\ code.isActive /\ ~expired /\ HasUsesLeft(code)
  /\ req' = [req EXCEPT ![r] = [pc |-> "create", who |-> u]]
  /\ UNCHANGED <<code, expired, users, made, lost, dropped>>

(* A name taken meanwhile hits the unique index.  (Bound: a name registers *)
(* with this code once.)                                                   *)
CreateUser(r) ==
  LET u == req[r].who IN
  /\ req[r].pc = "create"
  /\ IF u \in users \cup made
     THEN Done(r) /\ UNCHANGED <<users, made>>
     ELSE users' = users \cup {u} /\ made' = made \cup {u} /\ Go(r, "consume")
  /\ UNCHANGED <<code, expired, lost, dropped>>

(* An increment by the code; it fails when the code was deleted, and the   *)
(* answer is a 500 although there is an account.                           *)
Consume(r) ==
  LET u == req[r].who IN
  /\ req[r].pc = "consume"
  /\ IF code.kept
     THEN /\ code' = [code EXCEPT !.useCount = @ + 1, !.usedById = u]
          /\ Go(r, "look") /\ UNCHANGED lost
     ELSE Done(r) /\ lost' = lost \cup {u} /\ UNCHANGED code
  /\ UNCHANGED <<expired, users, made, dropped>>

LookAgain(r) ==
  /\ req[r].pc = "look"
  /\ IF code.kept /\ ~HasUsesLeft(code) THEN Go(r, "close") ELSE Done(r)
  /\ UNCHANGED <<code, expired, users, made, lost, dropped>>

Close(r) ==
  /\ req[r].pc = "close"
  /\ code' = IF code.kept THEN [code EXCEPT !.isActive = FALSE] ELSE code
  /\ Done(r)
  /\ UNCHANGED <<expired, users, made, lost, dropped>>

----------------------------------------------------------------------------
(* DELETE /admin/invite-codes/:code *)
DeleteCode ==
  /\ code.kept
  /\ code' = [code EXCEPT !.kept = FALSE] /\ dropped' = TRUE
  /\ UNCHANGED <<expired, users, req, made, lost>>

Expire == ~expired /\ expired' = TRUE /\ UNCHANGED <<code, users, req, made, lost, dropped>>

(* DELETE /me of the creator: one transaction. *)
CreatorLeaves ==
  /\ Creator \in users
  /\ users' = users \ {Creator}
  /\ code' = IF IsUnused(code) THEN [code EXCEPT !.kept = FALSE]
             ELSE [code EXCEPT !.isActive = FALSE]
  /\ UNCHANGED <<expired, req, made, lost, dropped>>

(* DELETE /me of somebody who redeemed the code. *)
RedeemerLeaves(u) ==
  /\ u \in users \cap Newcomers
  /\ users' = users \ {u}
  /\ code' = [code EXCEPT !.usedById = IF @ = u THEN Nobody ELSE @]
  /\ UNCHANGED <<expired, req, made, lost, dropped>>

(* The server stops and starts: requests in flight are forgotten. *)
Restart ==
  /\ req' = [r \in Requests |-> Idle]
  /\ lost' = lost \cup {req[r].who : r \in {x \in Requests : req[x].pc = "consume"}}
  /\ UNCHANGED <<code, expired, users, made, dropped>>

Next ==
  \/ \E r \in Requests :
       \/ CreateUser(r) \/ Consume(r) \/ LookAgain(r) \/ Close(r)
       \/ \E u \in Newcomers : Check(r, u)
  \/ \E u \in Newcomers : RedeemerLeaves(u)
  \/ DeleteCode \/ Expire \/ CreatorLeaves \/ Restart

Spec == Init /\ [][Next]_vars

----------------------------------------------------------------------------
(* Properties *)

(* Registrations that overlap may all pass the check on the last use, but  *)
(* no more than are in flight together: beyond these and the uses a        *)
(* failure kept from being counted, no account is made with a code that is *)
(* used up (POST /register: "This invite code has already been used.").    *)
OverrunIsBounded ==
  Cardinality(made \ lost) <= MaxUses + Cardinality(Requests) - 1

(* Once its creator is gone a code lets nobody in, and the record of a     *)
(* redeemed code is there until an admin deletes it, even when the one who *)
(* redeemed it has left too (DELETE /me: "a used code must still count as  *)
(* used when its creator deletes later").                                  *)
CodesOfTheGone ==
  Creator \notin users =>
    /\ code.kept => ~code.isActive
    /\ code.useCount > 0 /\ ~dropped => code.kept
================================================================================
