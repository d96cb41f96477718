\* An old and a new stream, two sweeps that overlap; the jitter and the
\* delay together are as large as a healthy node allows.
CONSTANTS
    Streams = {s1, s2}
    NoStream = NoStream
    Sweeps = {w1, w2}
    INTERVAL = 2
    JITTER = 2
    DELAY = 1
    SLOW = 2
    MaxCrashes = 1
SPECIFICATION FairSpec
INVARIANTS StatusIsEarned HealthyIsOnline
PROPERTY SilentGoesOffline
CHECK_DEADLOCK FALSE
