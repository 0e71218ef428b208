\* A client that calls over and over; four blocks to allocate.
CONSTANT Blocks = {1, 2, 3, 4}
SPECIFICATION Spec
INVARIANTS
    TypeOK
    OnlyOwnBlocksAreUsed
    NothingIsLost
\* A process that has died stays dead.
CHECK_DEADLOCK FALSE
