\* Sizes on both sides of each minimum, limits below and above the device,
\* use up to and beyond its size, kinds and pressures the server cannot name.
CONSTANTS
    HEADROOM_MIN = 1
    OS_RESERVE_MIN = 3
    Totals = {0, 2, 14, 30}
    Limits = {0, 10, 40}
    Amounts = {0, 1, 9, 31}
    AgentKinds <- AllKinds
    AgentPressures <- AllPressures
    NoRow = NoRow
SPECIFICATION Spec
INVARIANTS TypeOK OfferFits ReserveStaysFree PressureStopsOffers
PROPERTY LoadNeverAddsRoom
