\* The LED thread reads the clock before mai2_led_cs; a fade started in between.
SPECIFICATION Spec
CONSTANTS
    TickMs = 32
    Boards <- MCBoards
    Levels <- MCLevels
    Speeds <- MCSpeeds
    UBResults <- MCUBResults
    MaxTime = 8
    MaxCmds = 2
INVARIANT CurrentWithinFade
