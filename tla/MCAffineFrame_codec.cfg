\* Command frames and the shared-memory io-status byte against references.
SPECIFICATION Spec
INVARIANT FrameChecksumValid
INVARIANT IoStatusRoundTrip
INVARIANT FrameFits
