\* A file that ends too early is read as a graph.
CONSTANTS
    Radix = 4
    MaxVarint = 3
    CountBytes = 2
    Magic <- MCMagic
    Graphs <- MCGraphs
SPECIFICATION FileSpec
INVARIANTS
    TruncatedIsRefused
CHECK_DEADLOCK FALSE
