SPECIFICATION FairSpec
CONSTANTS
    NumBuffers = 4
    MaxCaptured = 10
INVARIANTS TypeOK SocketsOnOwnDescriptors
PROPERTIES ImplementsStream CapturedIsSent
