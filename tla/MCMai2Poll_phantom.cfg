\* A coin pressed, released while the board is unplugged, and the replug.
CONSTANTS
    Dev = Dev
    NoThread = NoThread
    Writers <- NoWriters
    BtnValues <- MCPollValues
    Handles <- MCHandles
    ShmMapped = TRUE
    MaxCoins = 3
SPECIFICATION PollSpec
INVARIANT CoinEventsMatchPresses
