CONSTANTS
    runner = runner
    gui = gui
    r1 = r1
    r2 = r2
    g1 = g1
    g2 = g2
    Threads <- MCThreads
    Scopes <- MCScopes
    ThreadOf <- MCThreadOf
SPECIFICATION GateFairSpec
INVARIANTS
    QuietMeansAlone
    NoLostWakeup
PROPERTIES
    WaitReturns
CHECK_DEADLOCK TRUE
