\* The keychain may lock.
CONSTANTS
    UserDirs = {}
    RootDirs = {etc}
    RootDir = etc
    Keys = {k1, k2}
    NoKey = NoKey
    NodeIds = {n1, n2}
    NoNode = NoNode
    Faults = {"keychain"}
SYMMETRY Symmetry
SPECIFICATION Spec
INVARIANT RemovedTogether
CHECK_DEADLOCK FALSE
