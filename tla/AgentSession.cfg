\* Three streams: one in use, two whose readers have still to end.
CONSTANTS
    Conns = {c1, c2, c3}
    NoConn = NoConn
    MinBackoff = 1
    MaxBackoff = 5
SPECIFICATION FairSpec
INVARIANTS TypeOK OneLiveStream
PROPERTIES RunReturns ReconnectsWhenWell
CHECK_DEADLOCK FALSE
