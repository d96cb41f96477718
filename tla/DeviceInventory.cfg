\* Two streams of one node whose transactions interleave, fail and deadlock.
CONSTANTS
    a = a
    b = b
    LocalIds = {a, b}
    Streams = {s1, s2}
    NoStream = NoStream
    KnownKinds <- Kinds
    Discoveries <- AllDiscoveries
    MaxBatches = 2
    NoRow = NoRow
    Untouched = Untouched
    Faults = TRUE
SPECIFICATION FairSpec
INVARIANTS LastReportStored ReportAloneIsComplete
PROPERTIES StoredAtomically TransactionsEnd
CHECK_DEADLOCK FALSE
