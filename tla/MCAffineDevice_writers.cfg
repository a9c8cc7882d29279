\* The slot's thread, the LED fade thread and the game thread share the port.
CONSTANTS
    Dev = Dev
    NoThread = NoThread
    W1 = W1
    W2 = W2
    Writers <- TwoWriters
    BtnValues <- MCBtnValues
    Handles <- MCHandles
SPECIFICATION WritersFairSpec
INVARIANT WriteExclusive
PROPERTY SendCompletes
