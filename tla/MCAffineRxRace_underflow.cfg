\* The writer's rx_len = 0 against the slot thread's parse of one or two reads.
SPECIFICATION Spec
CONSTANTS
    RxBufSize = 128
    SizeMod <- MCSizeMod
    Reads <- MCReads
    MaxReads = 2
INVARIANT RxLenInBounds
CHECK_DEADLOCK FALSE
