\* One marker truncated between two starts, with no copy to stand in for it.
CONSTANTS
    Targets = {1, 3, 4}
    Pre = {1, 2}
    Post = {3}
    NotOnClassic = {2}
    Raising = {3}
    Oldest = 1
    MinReader = 1
    MaxStarts = 3
    MaxFaults = 1
SPECIFICATION Spec
INVARIANT NotBricked
CHECK_DEADLOCK FALSE
