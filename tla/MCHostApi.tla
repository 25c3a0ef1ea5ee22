----------------------------- MODULE MCHostApi -----------------------------
(* Two modules with calls on the main thread and on a thread of their own. *)
EXTENDS HostApi, TLC

CONSTANTS k1, k2, k3, t1

(* Records and modules are told apart by what has happened to them alone.  *)
Symmetry == Permutations(Records) \cup Permutations(Modules)

MCThreadOf == [k \in Calls |-> IF k = k1 THEN Main ELSE t1]
=============================================================================
