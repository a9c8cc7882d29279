\* The LED fade engine: the board converges to the last commanded colour.
SPECIFICATION FairSpec
CONSTANTS
    TickMs = 32
    Boards <- MCBoards
    Levels <- MCLevels
    Speeds <- MCSpeeds
    UBResults <- MCUBResults
    MaxTime = 8
    MaxCmds = 2
INVARIANT TypeOK
PROPERTY BoardConverges
