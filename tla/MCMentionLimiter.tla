--------------------------- MODULE MCMentionLimiter ---------------------------
(* Instances of MentionLimiter for TLC. *)
EXTENDS MentionLimiter, TLC

Symmetry == Permutations(Calls)
=============================================================================
