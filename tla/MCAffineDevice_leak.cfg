\* The LED fade thread's write failure races the slot's reconnection.
CONSTANTS
    Dev = Dev
    NoThread = NoThread
    W1 = W1
    W2 = W2
    Writers <- OneWriter
    BtnValues <- MCBtnValues
    Handles <- MCHandles
SPECIFICATION Spec
INVARIANT HandleNotLeaked
