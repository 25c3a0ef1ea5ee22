------------------------ MODULE MCModuleDispatchGate ------------------------
(* Two threads; the first may hold two nested scopes, as the module runner *)
(* does when module code spins its event loop.                             *)
EXTENDS ModuleDispatchGate, TLC

CONSTANTS runner, gui, r1, r2, g1, g2

MCThreads == {runner, gui}
MCScopes == {r1, r2, g1, g2}
MCThreadOf == (r1 :> runner) @@ (r2 :> runner) @@ (g1 :> gui) @@ (g2 :> gui)

=============================================================================
