\* A user, and root with and without MODELHUB_CONFIG_DIR; every fault.
CONSTANTS
    UserDirs = {home}
    RootDirs = {etc, home}
    RootDir = etc
    Keys = {k1, k2}
    NoKey = NoKey
    NodeIds = {n1, n2}
    NoNode = NoNode
    Faults = {"keychain", "disk", "crash", "network"}
SYMMETRY Symmetry
SPECIFICATION Spec
INVARIANTS UninstallIsClean EnrolledKeyIsStored ServiceHasEnrollment
PROPERTY ReEnrollOnlyWithoutKey
CHECK_DEADLOCK FALSE
