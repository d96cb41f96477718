\* A user and root; nothing fails.
CONSTANTS
    UserDirs = {home}
    RootDirs = {etc}
    RootDir = etc
    Keys = {k1, k2}
    NoKey = NoKey
    NodeIds = {n1, n2}
    NoNode = NoNode
    Faults = {}
SYMMETRY Symmetry
SPECIFICATION Spec
INVARIANT InstallFindsEnrollment
CHECK_DEADLOCK FALSE
