\* Two users and two requests on a pool of one connection, so that requests
\* of different users follow each other on it; two organizations, so that
\* each can have one or one can have both.
CONSTANTS
    Users = {u1, u2}
    NoUser = NoUser
    Orgs = {o1, o2}
    NoOrg = NoOrg
    Conns = {c1}
    NoConn = NoConn
    Requests = {r1, r2}
    Faults = {"create", "query"}
    MaxDeletes = 1
SYMMETRY Symmetry
SPECIFICATION Spec
INVARIANTS TypeOK OnlyOwnRows BareQuerySeesNothing SecondOrgNeedsRace ServedMeansOrg
