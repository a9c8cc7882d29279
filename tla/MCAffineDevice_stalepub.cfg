\* The LED fade thread zeroes the shared region while the slot thread publishes.
CONSTANTS
    Dev = Dev
    NoThread = NoThread
    W1 = W1
    W2 = W2
    Writers <- OneWriter
    BtnValues <- MCBtnValues
    Handles <- MCHandles
SPECIFICATION Spec
INVARIANT PublishedClearedWhenDisconnected
