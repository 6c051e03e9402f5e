---------------------------- MODULE MCCommunityMail ----------------------------
(***************************************************************************)
(* Small instances of CommunityMail for TLC: a tick is the first back-off, *)
(* and a claim is stale after one.                                         *)
(***************************************************************************)
EXTENDS CommunityMail, TLC

Doubling == [n \in 1..MaxAttempts |-> IF n = 1 THEN 1 ELSE 2]
NoRetryAfter == {0}
LongRetryAfter == {0, 2}
Symmetry == Permutations(Members) \cup Permutations(Workers) \cup Permutations(Admins)
=============================================================================
