\* The Host calls the module's command, the module the Host's; the module
\* registers its command twice.  Every accepted call is run and callbacks
\* return, but providers may stay silent.
CONSTANTS
    m1 = m1
    mine = mine
    hosts = hosts
    k1 = k1
    k2 = k2
    t1 = t1
    Runner = Runner
    Host = Host
    NoModule = NoModule
    Modules = {m1}
    Commands = {mine, hosts}
    OwnerOf <- MCOwnerOf
    MayInvoke <- MCMayInvoke
    Calls = {k1, k2}
    CallerOf <- MCCallerOf
    CommandOf <- MCCommandOf
    Threads = {Runner, t1}
    MaxRegistrations <- MCMaxRegistrations
    MaxNest = 2
SPECIFICATION FairSpec
INVARIANTS
    DoneOnce
    CancelIsFinal
    NoCallLost
    WithdrawnServesNothing
    NoStandstill
PROPERTY CallersAreTold
CHECK_DEADLOCK FALSE
