\* A 21-unit clock (250 ms units) with the board-info timers and every kind of board answer.
CONSTANTS
    Wrap = 21
    Delay = 2
    Timeout = 4
    GiveUp = 12
    Firmwares <- MCFirmwares
    MaxCount = 4
SPECIFICATION FairSpec
INVARIANT HeartbeatsResumeInTime
PROPERTY BoardInfoRefined
