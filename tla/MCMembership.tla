----------------------------- MODULE MCMembership -----------------------------
(***************************************************************************)
(* Instances of Membership for TLC.                                        *)
(***************************************************************************)
EXTENDS MembershipInvariant, TLC

CONSTANTS n1, n2, a, b, c1, c2

Symmetry == Permutations({n1, n2}) \cup Permutations({c1, c2}) \cup Permutations({a, b})
=============================================================================
