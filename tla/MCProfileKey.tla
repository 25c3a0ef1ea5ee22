---------------------------- MODULE MCProfileKey ----------------------------
(* Two PINs, as many store secrets as can be told apart at once, and keys  *)
(* for the resets there is room for.                                       *)
EXTENDS ProfileKey, TLC

(* PINs, secrets and keys are compared and nothing else.                   *)
Symmetry == Permutations(Pins) \cup Permutations(Wraps) \cup Permutations(Keys)
=============================================================================
