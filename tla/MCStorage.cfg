\* Every pair of small graphs, every point at which the writer may stop or
\* the reader may open the file.
CONSTANTS
    Radix = 4
    MaxVarint = 3
    CountBytes = 2
    Magic <- MCMagic
    Graphs <- MCGraphs
SPECIFICATION FileSpec
INVARIANTS
    FileTypeOK
    RoundTrip
    OffsetOfMetadata
    OnlyTheEndIsLost
CHECK_DEADLOCK FALSE
