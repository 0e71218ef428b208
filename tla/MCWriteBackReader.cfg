\* Files of up to five bytes, reads of up to four.
CONSTANTS
    MaxRead = 4
    Contents <- MCContents
SPECIFICATION Spec
INVARIANTS
    TypeOK
PROPERTIES
    IsByteStream
    ReadsReturn
CHECK_DEADLOCK FALSE
