\* One telemetry frame behind one garbage 0x28 byte (spec section 8's resync case).
SPECIFICATION Spec
CONSTANTS
    RxBufSize = 128
    ReadSize = 64
    BoardFrames <- MCTelemetry
    NoiseBytes = {40}
    MaxSent = 1
    MaxFaults = 1
INVARIANT NoSpuriousFrames
CHECK_DEADLOCK FALSE
