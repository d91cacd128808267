SPECIFICATION RendererSpec
CONSTANTS
    Blocks = {b1, b2, b3}
    Clients = {c1, c2}
    NULL = NULL
    Sizes <- MCSizes
    opts_max_retained_bytes = 5
    opts_max_reusable_block_bytes = 0
    DefaultMaxRetained = 9
    DefaultMaxReusableBlock = 3
    Options <- BothOptions
    Sinks = {s1, s2}
    NoSink = NoSink
    Geometries = {g1, g2}
    NoParser = NoParser
    MaxWrites = 2
    MaxReads = 2
INVARIANTS
    Ownership
    RetentionBounded
    SinkBorrowedForCall
    FailedDocumentIsSilent
PROPERTIES
    HeapSpec
    LifecycleSpec
