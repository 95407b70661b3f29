------------------------------ MODULE MCApprovals ------------------------------
(* Instances of Approvals for TLC: one project with one task, an admin, a  *)
(* possible team member.                                                   *)
EXTENDS Approvals, TLC

CONSTANTS t1, p1

MCProjectOf == t1 :> p1

Symmetry == Permutations(Requests) \cup Permutations(Deciders)
=============================================================================
