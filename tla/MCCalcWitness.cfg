\* Every file for every main component, and every choice of nodes to keep.
CONSTANTS
    M = 5
    LimbBits = 3
    Limbs = 2
    Names <- MCNames
    Layouts <- MCLayouts
    Files <- MCFiles
SPECIFICATION Spec
INVARIANTS
    TypeOK
    EveryNodeReadsItsInput
    BufferCoversTheGraph
    RefusalIsNoMatterOfOrder
CHECK_DEADLOCK FALSE
