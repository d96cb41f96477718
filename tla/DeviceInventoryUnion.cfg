\* Two reports stored at the same time.
CONSTANTS
    a = a
    b = b
    LocalIds = {a, b}
    Streams = {s1, s2}
    NoStream = NoStream
    KnownKinds <- Kinds
    Discoveries <- FewDiscoveries
    MaxBatches = 0
    NoRow = NoRow
    Untouched = Untouched
    Faults = FALSE
SPECIFICATION Spec
INVARIANT ReportIsComplete
CHECK_DEADLOCK FALSE
