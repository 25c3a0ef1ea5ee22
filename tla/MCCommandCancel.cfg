\* A caller on a thread of its own cancels a call that is being delivered.
CONSTANTS
    m1 = m1
    mine = mine
    hosts = hosts
    k1 = k1
    k2 = k2
    t1 = t1
    Runner = Runner
    Host = Host
    NoModule = NoModule
    Modules = {m1}
    Commands = {mine, hosts}
    OwnerOf <- MCOwnerOf
    MayInvoke <- MCMayInvoke
    Calls = {k1, k2}
    CallerOf <- MCCallerOf
    CommandOf <- MCCommandOf
    Threads = {Runner, t1}
    MaxRegistrations <- MCMaxRegistrations
    MaxNest = 2
SPECIFICATION Spec
INVARIANT CancelStopsDelivery
CHECK_DEADLOCK FALSE
