\* Two frames over a line that may insert or drop two bytes, read in any split.
SPECIFICATION Spec
CONSTANTS
    RxBufSize <- MCSmallRxBuf
    ReadSize = 64
    BoardFrames <- MCBoardFrames
    NoiseBytes <- MCNoise
    MaxSent = 2
    MaxFaults = 2
INVARIANT DecodesExactlyWhatWasSent
INVARIANT RxNeverFull
CHECK_DEADLOCK FALSE
