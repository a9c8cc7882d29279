\* The slot's thread and the game's poll against an unplugging, replugging board.
CONSTANTS
    Dev = Dev
    NoThread = NoThread
    Writers <- NoWriters
    BtnValues <- MCPollValues
    Handles <- MCHandles
    ShmMapped = TRUE
    MaxCoins = 3
SPECIFICATION PollFairSpec
INVARIANT PollTypeOK
INVARIANT HandleNotLeaked
INVARIANT PublishedClearedWhenDisconnected
PROPERTY StableInputPublished
PROPERTY HeldCoinSettles
PROPERTY GameSeesStableInput
