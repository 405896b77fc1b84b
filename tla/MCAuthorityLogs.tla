---------------------------- MODULE MCAuthorityLogs ----------------------------
(***************************************************************************)
(* Two rival versions of one decision, under two policy versions; nothing   *)
(* tells the two of either apart.                                           *)
(***************************************************************************)
EXTENDS AuthorityLogs

CONSTANTS a, b, p1, p2

Symmetry == Permutations({a, b}) \cup Permutations({p1, p2})
=============================================================================
