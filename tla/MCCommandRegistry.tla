------------------------- MODULE MCCommandRegistry -------------------------
(* Small instances: a module that provides one command and calls another,  *)
(* the Host's.                                                             *)
EXTENDS CommandRegistry, TLC

CONSTANTS m1, mine, hosts, k1, k2, t1

MCOwnerOf == (mine :> m1) @@ (hosts :> Host)
MCMayInvoke == [m \in Modules |-> Commands]
MCCallerOf == [k \in Calls |-> IF k = k1 THEN Host ELSE m1]
MCCommandOf == [k \in Calls |-> IF k = k1 THEN mine ELSE hosts]
MCMaxRegistrations == [c \in Commands |-> IF c = mine THEN 2 ELSE 1]

=============================================================================
