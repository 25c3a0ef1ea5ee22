\* A reset that is asked for and declined.
CONSTANTS
    Pins = {p1, p2}
    Wraps = {w1, w2, w3}
    NoSecret = NoSecret
    Keys = {k1, k2, k3}
    NoKey = NoKey
    Container = Container
SPECIFICATION Spec
SYMMETRY Symmetry
INVARIANT RootIsAKey
