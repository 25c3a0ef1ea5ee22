------------------------- MODULE MCProfileSessions -------------------------
(* Small instances of ProfileSessions: up to two processes, two packages   *)
(* and three places for a tree.                                            *)
EXTENDS ProfileSessions, TLC

CONSTANTS p1, p2, k1, k2

Perms == Permutations({p1, p2}) \cup Permutations({k1, k2})
=============================================================================
