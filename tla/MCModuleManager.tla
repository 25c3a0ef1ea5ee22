-------------------------- MODULE MCModuleManager --------------------------
(* Small instances of ModuleManager: one event, and triggers of it.        *)
EXTENDS ModuleManager, TLC

CONSTANTS m1, m2, e1, t1

MCEventOf == [tr \in Triggers |-> e1]
MCDeclared == [m \in Modules |-> Events]
OnePackage == <<m1>>
TwoPackages == <<m1, m2>>
SamePackageTwice == <<m1, m1>>
=============================================================================
