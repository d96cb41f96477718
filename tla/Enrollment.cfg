\* Three calls, two codes of two organizations, two machines and a
\* key of the wrong length. One tick is
\* the whole life of a code: time matters only against expires_at.
CONSTANTS
    Orgs = {o1, o2}
    NoOrg = NoOrg
    Codes = {c1, c2}
    Keys = {k1, k2, kBad}
    ValidKeys = {k1, k2}
    Reqs = {r1, r2, r3}
    TTL = 0
    MaxTime = 1
SYMMETRY Symmetry
SPECIFICATION Spec
INVARIANTS
    TypeOK OneNodePerCode OneNodePerKey EnrolledByItsCode CodeIsAccountedFor
    ReRunKeepsCode
PROPERTY RefinesAtomic
CHECK_DEADLOCK FALSE
