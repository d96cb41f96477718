\* Two users in turn at one tab, two codes (so that a second call can be made
\* while the first is under way) and one machine to enroll.
CONSTANTS
    Users = {u1, u2}
    NoUser = NoUser
    Codes = {c1, c2}
    NoCode = NoCode
    Keys = {k1}
    MaxAuthCalls = 1
    NoData = NoData
    Loading = Loading
SPECIFICATION Spec
INVARIANTS CodeOfThisPage OwnOnceFetched
PROPERTIES CodeStaysPut PageCatchesUp ButtonComesBack
