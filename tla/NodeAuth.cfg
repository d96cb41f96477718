\* One header (headers share no state), of its own or another key, delivered
\* up to three times;
\* the clock error and the delay just fit in the window.
CONSTANTS
    Nodes = {n1}
    Keys = {k1, k2, kOdd}
    Unparsable = {kOdd}
    NoKey = NoKey
    Headers = {h1}
    Attempts = {a1, a2, a3}
    SKEW = 2
    MaxBehind = 3
    MaxAhead = 1
    MaxDelay = 1
    MaxTime = 7
SYMMETRY Symmetry
SPECIFICATION Spec
INVARIANTS OneNonceOneUse LetInWithinWindow
PROPERTIES NeverForgets
CHECK_DEADLOCK FALSE
